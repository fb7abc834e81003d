--------------------------- MODULE JobCardProofs ---------------------------
(***************************************************************************)
(* What JobCardLifecycle guarantees for any number of lines, requests and  *)
(* workers, and every stage graph.                                         *)
(***************************************************************************)
EXTENDS CardHistory, FiniteSetTheorems, TLAPS

---------------------------------------------------------------------------
\* Type correctness.

\* A step changes the memory of one request, to another memory, or none.
LEMMA BlankType == Blank \in Memory /\ NoLines \in LineStages
BY DEF Blank, NoLines, Memory, LineStages

LEMMA InitType == Init => TypeOK
<1> SUFFICES ASSUME Init PROVE TypeOK
  OBVIOUS
<1>1. AnyInput \in Input
  BY CardAssumption DEF AnyInput
<1> QED
  BY <1>1, BlankType DEF Init, TypeOK, Statuses, Points

LEMMA EndType ==
  ASSUME TypeOK, NEW r \in Requests, End(r)
  PROVE  /\ pc' \in [Requests -> Points]
         /\ req' \in [Requests -> Input]
         /\ tx' \in [Requests -> Memory]
BY BlankType DEF TypeOK, End, Points

LEMMA RefuseType ==
  ASSUME TypeOK, NEW r \in Requests, Refuse(r)
  PROVE  TypeOK'
BY EndType DEF TypeOK, Refuse, database

LEMMA MemoryUpdate ==
  ASSUME NEW m \in Memory
  PROVE  /\ \A v \in Statuses \cup {"none"} :
               /\ [m EXCEPT !.loaded = v] \in Memory
               /\ [m EXCEPT !.want = v] \in Memory
               /\ [m EXCEPT !.card = v] \in Memory
         /\ \A v \in Nat : [m EXCEPT !.base = v] \in Memory
         /\ \A v \in LineStages :
               [m EXCEPT !.todo = v] \in Memory /\ [m EXCEPT !.draft = v] \in Memory
         /\ \A v \in [status : Statuses \cup {"none"}, reworked : BOOLEAN] :
               [m EXCEPT !.read = v] \in Memory
         /\ \A v \in SUBSET LineNos : [m EXCEPT !.lines = v] \in Memory
BY DEF Memory

LEMMA MemoryFields ==
  ASSUME NEW m \in Memory
  PROVE  /\ m.loaded \in Statuses \cup {"none"}
         /\ m.want \in Statuses \cup {"none"}
         /\ m.card \in Statuses \cup {"none"}
         /\ m.base \in Nat /\ m.todo \in LineStages /\ m.draft \in LineStages
         /\ m.read \in [status : Statuses \cup {"none"}, reworked : BOOLEAN]
         /\ m.lines \in SUBSET LineNos
BY DEF Memory

LEMMA LineUpdate ==
  ASSUME NEW f \in LineStages, NEW l \in LineNos, NEW s \in Stages \cup {NoStage}
  PROVE  [f EXCEPT ![l] = s] \in LineStages
BY DEF LineStages

LEMMA GotoType ==
  ASSUME TypeOK, NEW r \in Requests, NEW point \in Points, Goto(r, point),
         tx' = tx \/ \E m \in Memory : Remember(r, m)
  PROVE  TypeOK'
BY DEF TypeOK, Goto, Remember, database

LEMMA RequestType ==
  ASSUME TypeOK, NEW r \in Requests
  PROVE  /\ tx[r] \in Memory
         /\ Kind(r) = "patch" => req[r].status \in Statuses
BY DEF TypeOK, Kind, Input, MoveInput, UploadInput, CancelInput, PatchInput

LEMMA CandidateType ==
  ASSUME NEW r \in Requests, NEW l \in LineNos, NEW rule \in Permitting(r, l)
  PROVE  /\ rule \in Rules /\ rule.to \in Stages
         /\ rule.from = tx[r].todo[l] /\ rule.action = Action(r)
<1>1. rule \in Candidates(r, l)
  BY DEF Permitting
<1> QED
  BY <1>1, GraphAssumption DEF Candidates, CandidateRules, Rule

LEMMA GiveUpType ==
  ASSUME TypeOK, NEW r \in Requests, NEW l \in LineNos, GiveUp(r, l)
  PROVE  TypeOK'
<1>1. [tx[r].todo EXCEPT ![l] = NoStage] \in LineStages
  BY RequestType, MemoryFields, LineUpdate
<1>2. [tx[r] EXCEPT !.todo[l] = NoStage] \in Memory
  BY <1>1, RequestType, MemoryUpdate
<1> QED
  BY <1>2, RefuseType, GotoType DEF GiveUp, Points

LEMMA MoveType ==
  ASSUME TypeOK, NEW r \in Requests, NEW l \in LineNos, Move(r, l)
  PROVE  TypeOK'
<1>1. PICK rule \in Permitting(r, l) :
         Remember(r, [tx[r] EXCEPT !.todo[l] = NoStage, !.draft[l] = rule.to])
  BY DEF Move
<1>2. /\ [tx[r].todo EXCEPT ![l] = NoStage] \in LineStages
      /\ [tx[r].draft EXCEPT ![l] = rule.to] \in LineStages
  BY RequestType, MemoryFields, LineUpdate, CandidateType
<1>3. [tx[r] EXCEPT !.todo[l] = NoStage, !.draft[l] = rule.to] \in Memory
  BY <1>2, RequestType DEF Memory
<1> QED
  BY <1>1, <1>3, GotoType DEF Move, Points

LEMMA LoadType ==
  ASSUME TypeOK, NEW r \in Requests, Load(r)
  PROVE  TypeOK'
<1>1. PICK input \in Input :
        /\ req' = [req EXCEPT ![r] = input]
        /\ \/ /\ input.kind = "move" /\ input.line \in Lines
              /\ pc' = [pc EXCEPT ![r] = "advancing"]
              /\ Remember(r, [tx[r] EXCEPT !.todo[input.line] = stage[input.line]])
           \/ /\ pc' = [pc EXCEPT ![r] = "loaded"]
              /\ Remember(r, [tx[r] EXCEPT !.loaded = cardStatus])
  BY CardAssumption DEF Load
<1>2. tx' \in [Requests -> Memory]
  <2>1. CASE /\ input.line \in Lines
             /\ Remember(r, [tx[r] EXCEPT !.todo[input.line] = stage[input.line]])
    <3>1. [tx[r].todo EXCEPT ![input.line] = stage[input.line]] \in LineStages
      BY <2>1, RequestType, MemoryFields, LineUpdate DEF Lines, TypeOK, LineStages
    <3>2. [tx[r] EXCEPT !.todo[input.line] = stage[input.line]] \in Memory
      BY <3>1, RequestType, MemoryUpdate
    <3> QED
      BY <2>1, <3>2 DEF TypeOK, Remember
  <2>2. CASE Remember(r, [tx[r] EXCEPT !.loaded = cardStatus])
    <3>1. [tx[r] EXCEPT !.loaded = cardStatus] \in Memory
      BY RequestType, MemoryUpdate DEF TypeOK
    <3> QED
      BY <2>2, <3>1 DEF TypeOK, Remember
  <2> QED
    BY <1>1, <2>1, <2>2
<1> QED
  BY <1>1, <1>2 DEF Load, TypeOK, Points, database

LEMMA CommitType ==
  ASSUME TypeOK, NEW r \in Requests, Commit(r)
  PROVE  TypeOK'
<1>1. stage' \in LineStages
  BY DEF Commit, View, TypeOK, Memory, LineStages
<1>2. cardStatus' \in Statuses /\ basis' \in SUBSET LineNos
  BY DEF Commit, TypeOK, Memory
<1>3. revisions' \in Nat /\ notes' \in Nat
  BY DEF Commit, TypeOK
<1> QED
  BY <1>1, <1>2, <1>3, EndType DEF Commit, TypeOK

LEMMA StepType ==
  ASSUME TypeOK, NEW r \in Requests, Load(r) \/ Step(r) \/ Crash(r)
  PROVE  TypeOK'
<1> USE GotoType, RequestType DEF Points
<1>1. CASE Advance(r)
  BY <1>1, GiveUpType, MoveType DEF Advance
<1>2. CASE SyncReadCard(r)
  <2>1. [status |-> IF tx[r].card = "none" THEN cardStatus ELSE tx[r].card,
         reworked |-> Quoted(r)]
          \in [status : Statuses \cup {"none"}, reworked : BOOLEAN]
    BY MemoryFields DEF TypeOK, Quoted, Inserted
  <2> QED
    BY <1>2, <2>1, MemoryUpdate DEF SyncReadCard
<1>3. CASE SyncDecide(r)
  <2>1. \A outcome \in Statuses :
          [tx[r] EXCEPT !.want = outcome, !.lines = Lines] \in Memory
    BY DEF Memory, Lines
  <2> QED
    BY <1>3, <2>1 DEF SyncDecide, Resume
<1>4. CASE WriteCard(r)
  <2>1. [tx[r] EXCEPT !.card = tx[r].want] \in Memory
    BY MemoryFields, MemoryUpdate
  <2> QED
    BY <1>4, <2>1 DEF WriteCard, Resume
<1>5. CASE ReadPrevious(r)
  BY <1>5, MemoryUpdate DEF ReadPrevious, TypeOK
<1>6. CASE InsertQuotation(r)
  BY <1>6, RefuseType DEF InsertQuotation
<1>7. CASE ListLines(r)
  BY <1>7, MemoryUpdate DEF ListLines, TypeOK
<1>8. CASE CloseUpload(r)
  <2>1. [tx[r] EXCEPT !.want = "quoted", !.lines = {}] \in Memory
    BY DEF Memory, Statuses
  <2> QED
    BY <1>8, <2>1 DEF CloseUpload
<1>9. CASE CancelCard(r)
  BY <1>9, RefuseType, MemoryUpdate DEF CancelCard, Statuses
<1>10. CASE PatchCard(r)
  BY <1>10, MemoryUpdate DEF PatchCard
<1> QED
  BY <1>1, <1>2, <1>3, <1>4, <1>5, <1>6, <1>7, <1>8, <1>9, <1>10,
     LoadType, CommitType, RefuseType DEF Step, Crash

LEMMA NextType == TypeOK /\ [Next]_vars => TypeOK'
<1>1. TypeOK /\ AddLine => TypeOK'
  BY GraphAssumption DEF AddLine, TypeOK, LineStages
<1>2. TypeOK /\ UNCHANGED vars => TypeOK'
  BY DEF TypeOK, vars, database
<1> QED
  BY <1>1, <1>2, StepType DEF Next, Finished

\* Every variable keeps its type: in particular nothing but a lifecycle
\* status is ever written to the card.
THEOREM TypeCorrect == Spec => []TypeOK
BY InitType, NextType, PTL DEF Spec

---------------------------------------------------------------------------
\* What one step can touch.

\* A request's step leaves the others' memory alone, and only a commit
\* touches the database.
LEMMA StepFrame ==
  ASSUME TypeOK, NEW r \in Requests, Load(r) \/ Step(r) \/ Crash(r)
  PROVE  /\ \A s \in Requests \ {r} :
               pc'[s] = pc[s] /\ req'[s] = req[s] /\ tx'[s] = tx[s]
         /\ Commit(r) \/ UNCHANGED database
<1> USE DEF TypeOK, Remember, Goto, Refuse, End
<1>1. CASE Load(r)
  BY <1>1 DEF Load
<1>2. CASE Advance(r)
  BY <1>2 DEF Advance, GiveUp, Move
<1>3. CASE SyncReadCard(r) \/ SyncDecide(r) \/ WriteCard(r)
  BY <1>3 DEF SyncReadCard, SyncDecide, WriteCard, Resume
<1>4. CASE ReadPrevious(r) \/ InsertQuotation(r) \/ ListLines(r) \/ CloseUpload(r)
  BY <1>4 DEF ReadPrevious, InsertQuotation, ListLines, CloseUpload
<1>5. CASE CancelCard(r) \/ PatchCard(r) \/ Commit(r) \/ Crash(r)
  BY <1>5 DEF CancelCard, PatchCard, Commit, Crash
<1> QED
  BY <1>1, <1>2, <1>3, <1>4, <1>5 DEF Step

\* The same for any step, a line being added included.
LEMMA NextFrame ==
  ASSUME TypeOK, [Next]_vars
  PROVE  \/ \E r \in Requests : Load(r) \/ Step(r) \/ Crash(r)
         \/ UNCHANGED <<pc, req, tx>> /\ (AddLine \/ UNCHANGED database)
BY DEF Next, Finished, AddLine, vars

---------------------------------------------------------------------------
\* Before a request moves a line or writes the card.

Early == {"idle", "loaded", "numbering", "listing", "done"}

EarlyInv ==
  \A r \in Requests :
    /\ pc[r] \in Early =>
         tx[r].draft = NoLines /\ tx[r].todo = NoLines
           /\ tx[r].lines = {} /\ tx[r].card = "none" /\ tx[r].want = "none"
    /\ pc[r] = "idle" => tx[r] = Blank

LEMMA InitEarly == Init => EarlyInv
BY DEF Init, EarlyInv, Blank

LEMMA StepEarly ==
  ASSUME TypeOK, EarlyInv, NEW r \in Requests, Load(r) \/ Step(r) \/ Crash(r)
  PROVE  EarlyInv'
<1> SUFFICES
      /\ pc'[r] \in Early =>
           tx'[r].draft = NoLines /\ tx'[r].todo = NoLines
             /\ tx'[r].lines = {} /\ tx'[r].card = "none" /\ tx'[r].want = "none"
      /\ pc'[r] = "idle" => tx'[r] = Blank
  BY StepFrame DEF EarlyInv
<1> USE DEF TypeOK, Early, Remember, Goto
<1>1. CASE End(r)
  BY <1>1 DEF End, Blank
<1>2. CASE Load(r)
  BY <1>2 DEF Load, EarlyInv, Blank
<1>3. CASE ReadPrevious(r) \/ InsertQuotation(r)
  <2>1. CASE ReadPrevious(r)
    <3>1. tx'[r] = [tx[r] EXCEPT !.base = revisions] /\ tx[r] \in Memory
      BY <2>1 DEF ReadPrevious
    <3> QED
      BY <2>1, <3>1 DEF ReadPrevious, EarlyInv, Memory
  <2>2. CASE InsertQuotation(r)
    BY <1>1, <2>2 DEF InsertQuotation, Refuse, EarlyInv
  <2> QED
    BY <1>3, <2>1, <2>2
<1>4. CASE ~End(r) /\ ~Load(r) /\ ~ReadPrevious(r) /\ ~InsertQuotation(r)
  BY <1>4
     DEF Step, Advance, GiveUp, Move, SyncReadCard, SyncDecide, WriteCard, Resume,
         ListLines, CloseUpload, CancelCard, PatchCard, Commit, Crash, Refuse
<1> QED
  BY <1>1, <1>2, <1>3, <1>4

LEMMA EarlyInvariant == Spec => [](TypeOK /\ EarlyInv)
<1>1. TypeOK /\ EarlyInv /\ [Next]_vars => EarlyInv'
  BY StepEarly, NextFrame DEF EarlyInv
<1> QED
  BY <1>1, InitType, NextType, InitEarly, PTL DEF Spec

---------------------------------------------------------------------------
\* Uncommitted moves.

\* A line moved by r and not committed is moved by nobody else and goes
\* along a rule from where it stands; r has no further move to make of it.
DraftInv ==
  \A r \in Requests : \A l \in LineNos : tx[r].draft[l] # NoStage =>
    /\ l \in Lines /\ LineFree(r, l)
    /\ tx[r].todo[l] = NoStage
    /\ \E rule \in Rules : rule.from = stage[l] /\ rule.to = tx[r].draft[l]

\* What a step other than a commit does to a request's moves.
LEMMA MovesKept ==
  ASSUME TypeOK, EarlyInv, NEW r \in Requests, Load(r) \/ Step(r) \/ Crash(r),
         ~End(r), ~\E l \in LineNos : Move(r, l)
  PROVE  /\ tx'[r].draft = tx[r].draft
         /\ \/ tx[r].draft = NoLines
            \/ \A l \in LineNos : tx'[r].todo[l] \in {tx[r].todo[l], NoStage}
<1>1. tx[r] \in Memory
  BY RequestType
<1>2. tx[r].todo \in LineStages /\ tx[r].draft \in LineStages
  BY <1>1, MemoryFields
<1> USE DEF TypeOK, Remember, Goto
<1>3. CASE Load(r)
  BY <1>1, <1>3 DEF Load, Memory, EarlyInv, Early
<1>4. CASE Advance(r)
  <2>1. PICK l \in LineNos : Remember(r, [tx[r] EXCEPT !.todo[l] = NoStage])
    BY <1>4 DEF Advance, GiveUp, Refuse
  <2> QED
    BY <1>1, <1>2, <2>1 DEF Memory, LineStages
<1>5. CASE SyncReadCard(r) \/ SyncDecide(r) \/ WriteCard(r)
  <2>1. \/ tx' = tx
        \/ \E v : \/ tx'[r] = [tx[r] EXCEPT !.read = v]
                 \/ tx'[r] = [tx[r] EXCEPT !.want = v, !.lines = Lines]
                 \/ tx'[r] = [tx[r] EXCEPT !.card = v]
    BY <1>5 DEF SyncReadCard, SyncDecide, WriteCard
  <2> QED
    BY <1>1, <1>2, <2>1 DEF Memory
<1>6. CASE ListLines(r)
  BY <1>1, <1>6 DEF ListLines, Memory, EarlyInv, Early
<1>7. CASE ReadPrevious(r) \/ InsertQuotation(r) \/ CloseUpload(r)
  <2>1. CASE tx' = tx
    BY <1>2, <2>1
  <2>2. CASE tx' # tx
    <3>1. \/ tx'[r] = [tx[r] EXCEPT !.base = revisions]
          \/ tx'[r] = [tx[r] EXCEPT !.want = "quoted", !.lines = {}]
      BY <1>7, <2>2 DEF ReadPrevious, InsertQuotation, CloseUpload, Refuse
    <3> QED
      BY <1>1, <3>1 DEF Memory
  <2> QED
    BY <2>1, <2>2
<1>8. CASE CancelCard(r) \/ PatchCard(r)
  <2>1. \/ tx'[r] = [tx[r] EXCEPT !.want = "cancelled"]
        \/ tx'[r] = [tx[r] EXCEPT !.want = req[r].status]
    BY <1>8 DEF CancelCard, PatchCard, Refuse
  <2> QED
    BY <1>1, <2>1 DEF Memory
<1>9. CASE Commit(r) \/ Crash(r)
  BY <1>9 DEF Commit, Crash, Refuse
<1> QED
  BY <1>3, <1>4, <1>5, <1>6, <1>7, <1>8, <1>9 DEF Step

LEMMA MoveEffect ==
  ASSUME TypeOK, NEW r \in Requests, NEW l \in LineNos, Move(r, l),
         NextLine(r, l), LineFree(r, l), stage[l] = tx[r].todo[l]
  PROVE  /\ l \in Lines
         /\ \E rule \in Rules : /\ rule.from = stage[l] /\ rule.action = Action(r)
                                /\ rule.to = tx'[r].draft[l]
         /\ \A k \in LineNos \ {l} : /\ tx'[r].draft[k] = tx[r].draft[k]
                                     /\ tx'[r].todo[k] = tx[r].todo[k]
         /\ tx'[r].todo[l] = NoStage
         /\ tx'[r].draft[l] # NoStage
         /\ tx'[r].card = tx[r].card /\ tx'[r].want = tx[r].want
         /\ tx'[r].lines = tx[r].lines /\ tx'[r].loaded = tx[r].loaded
         /\ pc' = [pc EXCEPT ![r] = "syncing"] /\ UNCHANGED <<database, req>>
<1>1. PICK rule \in Permitting(r, l) :
         Remember(r, [tx[r] EXCEPT !.todo[l] = NoStage, !.draft[l] = rule.to])
  BY DEF Move
<1>2. rule \in Rules /\ rule.to \in Stages /\ rule.from = tx[r].todo[l]
        /\ rule.action = Action(r)
  BY CandidateType
<1>3. tx[r] \in Memory /\ tx[r].todo \in LineStages /\ tx[r].draft \in LineStages
  BY RequestType, MemoryFields
<1>4. tx'[r] = [tx[r] EXCEPT !.todo[l] = NoStage, !.draft[l] = rule.to]
  BY <1>1 DEF Remember, TypeOK
<1>5. tx'[r].todo = [tx[r].todo EXCEPT ![l] = NoStage]
        /\ tx'[r].draft = [tx[r].draft EXCEPT ![l] = rule.to]
        /\ tx'[r].card = tx[r].card /\ tx'[r].want = tx[r].want
        /\ tx'[r].lines = tx[r].lines /\ tx'[r].loaded = tx[r].loaded
  BY <1>3, <1>4 DEF Memory
<1>6. l \in Lines
  BY DEF NextLine, Pending, Lines
<1> QED
  BY <1>2, <1>3, <1>5, <1>6, CardAssumption DEF LineStages, Move, Goto

LEMMA MoveFrom ==
  ASSUME NEW r \in Requests, Load(r) \/ Step(r) \/ Crash(r),
         TypeOK, NEW l \in LineNos, Move(r, l), ~End(r)
  PROVE  \E k \in LineNos :
           /\ Move(r, k) /\ NextLine(r, k) /\ LineFree(r, k)
           /\ stage[k] = tx[r].todo[k] /\ pc[r] = "advancing"
<1>1. pc'[r] = "syncing"
  BY DEF Move, Goto, TypeOK
<1> QED
  BY <1>1 DEF Step, Load, Advance, GiveUp, Refuse, SyncReadCard, SyncDecide, WriteCard,
     Resume, ReadPrevious, InsertQuotation, ListLines, CloseUpload, CancelCard,
     PatchCard, Commit, Crash, Goto, TypeOK

\* A step that leaves the moves, the lines and where they stand.
LEMMA DraftFrame ==
  ASSUME DraftInv, TypeOK, TypeOK', NEW r \in Requests,
         \A s \in Requests \ {r} : tx'[s] = tx[s],
         \A l \in LineNos : tx'[r].draft[l] # NoStage =>
            tx'[r].draft[l] = tx[r].draft[l] /\ tx'[r].todo[l] = NoStage,
         \A l \in Lines : \/ stage'[l] = stage[l]
                         \/ /\ tx'[r].draft[l] = NoStage
                            /\ \A s \in Requests \ {r} : tx[s].draft[l] = NoStage,
         \A l \in Lines : stage'[l] # NoStage
  PROVE  DraftInv'
<1> SUFFICES ASSUME NEW s \in Requests, NEW l \in LineNos, tx'[s].draft[l] # NoStage
             PROVE  /\ stage'[l] # NoStage
                    /\ \A other \in Requests \ {s} : tx'[other].draft[l] = NoStage
                    /\ tx'[s].todo[l] = NoStage
                    /\ \E rule \in Rules : rule.from = stage'[l] /\ rule.to = tx'[s].draft[l]
  BY DEF DraftInv, LineFree, Lines
<1>1. tx[s].draft[l] = tx'[s].draft[l]
  OBVIOUS
<1>2. /\ l \in Lines /\ LineFree(s, l) /\ tx[s].todo[l] = NoStage
      /\ \E rule \in Rules : rule.from = stage[l] /\ rule.to = tx'[s].draft[l]
  BY <1>1 DEF DraftInv
<1>3. stage'[l] = stage[l]
  BY <1>1, <1>2
<1>4. ASSUME NEW other \in Requests \ {s} PROVE tx'[other].draft[l] = NoStage
  BY <1>2 DEF LineFree
<1> QED
  BY <1>2, <1>3, <1>4 DEF Lines

LEMMA StepDraft ==
  ASSUME TypeOK, TypeOK', EarlyInv, DraftInv,
         NEW r \in Requests, Load(r) \/ Step(r) \/ Crash(r)
  PROVE  DraftInv'
<1>1. \A s \in Requests \ {r} : tx'[s] = tx[s]
  BY StepFrame
<1>2. \A l \in Lines : stage[l] # NoStage /\ l \in LineNos
  BY DEF Lines
<1>3. CASE End(r)
  <2>1. tx'[r] = Blank
    BY <1>3 DEF End, TypeOK
  <2>2. \A l \in LineNos : tx'[r].draft[l] = NoStage
    BY <2>1 DEF Blank, NoLines
  <2>3. ASSUME Commit(r), NEW l \in Lines
        PROVE  /\ stage'[l] # NoStage
               /\ \/ stage'[l] = stage[l]
                  \/ \A s \in Requests \ {r} : tx[s].draft[l] = NoStage
    <3>1. stage'[l] = View(r, l) /\ l \in LineNos
      BY <2>3 DEF Commit, Lines
    <3>2. CASE tx[r].draft[l] = NoStage
      BY <1>2, <3>1, <3>2 DEF View
    <3>3. CASE tx[r].draft[l] # NoStage
      BY <3>1, <3>3 DEF View, DraftInv, LineFree
    <3> QED
      BY <3>2, <3>3
  <2> QED
    BY <1>1, <1>2, <2>2, <2>3, StepFrame, DraftFrame DEF Lines, database
<1>4. CASE ~End(r) /\ \E l \in LineNos : Move(r, l)
  <2>1. PICK l \in LineNos : /\ Move(r, l) /\ NextLine(r, l) /\ LineFree(r, l)
                             /\ stage[l] = tx[r].todo[l]
    BY <1>4, MoveFrom
  <2>2. UNCHANGED stage
    BY <2>1, MoveEffect DEF database
  <2> SUFFICES ASSUME NEW s \in Requests, NEW k \in LineNos, tx'[s].draft[k] # NoStage
               PROVE  /\ stage'[k] # NoStage
                      /\ \A other \in Requests \ {s} : tx'[other].draft[k] = NoStage
                      /\ tx'[s].todo[k] = NoStage
                      /\ \E rule \in Rules : rule.from = stage'[k] /\ rule.to = tx'[s].draft[k]
    BY DEF DraftInv, LineFree, Lines
  <2>3. CASE s = r /\ k = l
    BY <1>1, <2>1, <2>2, <2>3, MoveEffect DEF LineFree, Lines
  <2>4. CASE s = r /\ k # l
    <3>1. tx'[r].draft[k] = tx[r].draft[k] /\ tx'[r].todo[k] = tx[r].todo[k]
      BY <2>1, <2>4, MoveEffect
    <3> QED
      BY <1>1, <2>2, <2>4, <3>1 DEF DraftInv, LineFree, Lines
  <2>5. CASE s # r
    <3>1. tx'[s] = tx[s] /\ k # l
      BY <1>1, <2>1, <2>5 DEF LineFree
    <3>2. tx'[r].draft[k] = tx[r].draft[k]
      BY <2>1, <3>1, MoveEffect
    <3> QED
      BY <1>1, <2>2, <2>5, <3>1, <3>2 DEF DraftInv, LineFree, Lines
  <2> QED
    BY <2>3, <2>4, <2>5
<1>5. CASE ~End(r) /\ ~\E l \in LineNos : Move(r, l)
  <2>1. UNCHANGED stage
    BY <1>5, StepFrame DEF Commit, database
  <2>2. /\ tx'[r].draft = tx[r].draft
        /\ \/ tx[r].draft = NoLines
           \/ \A l \in LineNos : tx'[r].todo[l] \in {tx[r].todo[l], NoStage}
    BY <1>5, MovesKept
  <2>3. ASSUME NEW l \in LineNos, tx'[r].draft[l] # NoStage
        PROVE  tx'[r].todo[l] = NoStage
    BY <2>2, <2>3 DEF DraftInv, NoLines
  <2> QED
    BY <1>1, <1>2, <2>1, <2>2, <2>3, DraftFrame
<1> QED
  BY <1>3, <1>4, <1>5

LEMMA DraftInvariant == Spec => [](TypeOK /\ EarlyInv /\ DraftInv)
<1>1. Init => DraftInv
  BY DEF Init, DraftInv, Blank, NoLines
<1>2. ASSUME TypeOK, TypeOK', EarlyInv, DraftInv, [Next]_vars PROVE DraftInv'
  <2>1. CASE UNCHANGED <<pc, req, tx>> /\ (AddLine \/ UNCHANGED database)
    <3>1. \A l \in Lines : stage'[l] = stage[l] /\ stage[l] # NoStage /\ l \in LineNos
      BY <1>2, <2>1 DEF AddLine, database, Lines, TypeOK, LineStages
    <3> QED
      BY <1>2, <2>1, <3>1 DEF DraftInv, LineFree, Lines
  <2> QED
    BY <1>2, <2>1, NextFrame, StepDraft
<1> QED
  BY <1>1, <1>2, NextType, EarlyInvariant, PTL DEF Spec

---------------------------------------------------------------------------
\* What decided the card's status stays behind it.

LEMMA DownstreamSource ==
  ASSUME NEW status \in Statuses, NEW s \in Sources(status)
  PROVE  s \in Downstream[status]
BY DEF Downstream, Sources

LEMMA DownstreamClosed ==
  ASSUME NEW status \in Statuses, NEW rule \in Rules,
         rule.from \in Downstream[status]
  PROVE  rule.to \in Downstream[status]
<1>1. rule.to \in Stages
  BY GraphAssumption DEF Rule
<1>2. ASSUME NEW set \in SUBSET Stages,
             Sources(status) \subseteq set, ClosedUnderRules(set)
      PROVE  rule.to \in set
  BY <1>2 DEF Downstream, ClosedUnderRules
<1> QED
  BY <1>1, <1>2 DEF Downstream

\* A line on the card stays there, and moves only along the rules.
LEMMA LinesFollowRules ==
  ASSUME TypeOK, TypeOK', DraftInv, [Next]_vars, NEW l \in Lines
  PROVE  /\ l \in Lines'
         /\ \/ stage'[l] = stage[l]
            \/ \E rule \in Rules : rule.from = stage[l] /\ rule.to = stage'[l]
<1>1. l \in LineNos /\ stage[l] # NoStage
  BY DEF Lines
<1>2. ASSUME NEW r \in Requests, Commit(r)
      PROVE  /\ stage'[l] # NoStage
             /\ \/ stage'[l] = stage[l]
                \/ \E rule \in Rules : rule.from = stage[l] /\ rule.to = stage'[l]
  <2>1. stage'[l] = View(r, l)
    BY <1>1, <1>2 DEF Commit
  <2> QED
    BY <1>1, <2>1 DEF View, DraftInv
<1>3. CASE AddLine
  BY <1>1, <1>3 DEF AddLine, Lines, TypeOK, LineStages
<1> QED
  BY <1>1, <1>2, <1>3, NextFrame, StepFrame DEF database, Lines

\* So does the line as an open request sees it.
LEMMA ViewFollowsRules ==
  ASSUME TypeOK, TypeOK', EarlyInv, DraftInv, NEW r \in Requests,
         Load(r) \/ Step(r) \/ Crash(r), NEW s \in Requests, s # r \/ ~End(r),
         NEW l \in Lines
  PROVE  \/ View(s, l)' = View(s, l)
         \/ \E rule \in Rules : rule.from = View(s, l) /\ rule.to = View(s, l)'
<1>1. l \in LineNos
  BY DEF Lines
<1>2. CASE s # r
  <2>1. tx'[s] = tx[s]
    BY <1>2, StepFrame
  <2>2. [Next]_vars
    BY DEF Next
  <2> QED
    BY <2>1, <2>2, LinesFollowRules DEF View
<1>3. CASE s = r /\ \E k \in LineNos : Move(r, k)
  <2>1. PICK k \in LineNos : /\ Move(r, k) /\ NextLine(r, k) /\ LineFree(r, k)
                             /\ stage[k] = tx[r].todo[k]
    BY <1>3, MoveFrom
  <2>2. UNCHANGED stage
    BY <2>1, MoveEffect DEF database
  <2>3. CASE l # k
    <3>1. tx'[r].draft[l] = tx[r].draft[l]
      BY <1>1, <2>1, <2>3, MoveEffect
    <3> QED
      BY <1>3, <2>2, <3>1 DEF View
  <2>4. CASE l = k
    <3>1. tx[r].draft[l] = NoStage
      BY <2>1, <2>4 DEF DraftInv, NextLine, Pending
    <3>2. View(r, l) = stage[l] /\ View(r, l)' = tx'[r].draft[l]
      BY <2>1, <2>4, <3>1, MoveEffect DEF View
    <3> QED
      BY <1>3, <2>1, <2>4, <3>2, MoveEffect
  <2> QED
    BY <2>3, <2>4
<1>4. CASE s = r /\ ~\E k \in LineNos : Move(r, k)
  <2>1. tx'[r].draft = tx[r].draft
    BY <1>4, MovesKept
  <2>2. UNCHANGED stage
    BY <1>4, StepFrame DEF Commit, database
  <2> QED
    BY <1>4, <2>1, <2>2 DEF View
<1> QED
  BY <1>2, <1>3, <1>4

Writing == {"writing", "closing"}

\* The lines that decided what a request is to write, or wrote, are still
\* behind it, as the request sees them.
WantInv ==
  \A r \in Requests :
    /\ tx[r].lines \subseteq Lines
    /\ tx[r].want # "none" => \A l \in tx[r].lines : View(r, l) \in Downstream[tx[r].want]
    /\ pc[r] \in Writing => tx[r].want # "none"
    /\ tx[r].card # "none" /\ pc[r] \notin Writing => tx[r].card = tx[r].want

BasisInv == basis \subseteq Lines /\ Founded

\* A request decides in SyncDecide, or without counting lines; writes what it
\* decided; or does neither.
LEMMA DecisionStep ==
  ASSUME TypeOK, EarlyInv, NEW r \in Requests, Load(r) \/ Step(r) \/ Crash(r), ~End(r)
  PROVE  \/ /\ tx'[r].want = tx[r].want /\ tx'[r].lines = tx[r].lines
            /\ tx'[r].card = tx[r].card
            /\ pc[r] \notin Writing /\ pc'[r] \notin Writing
         \/ /\ pc[r] = "deciding" /\ pc'[r] = "writing"
            /\ tx'[r].want \in Statuses /\ Outcomes(r) = {tx'[r].want}
            /\ tx'[r].lines = Lines /\ tx'[r].draft = tx[r].draft
         \/ /\ pc[r] \in Writing /\ pc'[r] \notin Writing
            /\ tx'[r].want = tx[r].want /\ tx'[r].lines = tx[r].lines
            /\ tx'[r].card = tx[r].want
         \/ /\ pc'[r] = "closing" /\ tx'[r].want \in Statuses
            /\ tx'[r].lines = {}
<1>1. tx[r] \in Memory
  BY RequestType
<1> USE DEF TypeOK, Remember, Goto, Writing
<1>2. CASE Load(r)
  BY <1>1, <1>2 DEF Load, Memory
<1>3. CASE Advance(r)
  <2>1. CASE \E l \in LineNos : Move(r, l)
    BY <1>3, <2>1, MoveFrom, MoveEffect
  <2>2. CASE ~\E l \in LineNos : Move(r, l)
    <3>1. PICK l \in LineNos : /\ tx'[r] = [tx[r] EXCEPT !.todo[l] = NoStage]
                               /\ pc[r] = "advancing" /\ pc'[r] = "advancing"
      BY <1>3, <2>2 DEF Advance, GiveUp, Refuse
    <3> QED
      BY <1>1, <3>1 DEF Memory
  <2> QED
    BY <2>1, <2>2
<1>4. CASE SyncReadCard(r)
  <2>1. PICK v : tx'[r] = [tx[r] EXCEPT !.read = v]
    BY <1>4 DEF SyncReadCard
  <2>2. pc[r] \notin Writing /\ pc'[r] \notin Writing
    BY <1>4 DEF SyncReadCard
  <2> QED
    BY <1>1, <2>1, <2>2 DEF Memory
<1>5. CASE SyncDecide(r)
  <2>1. CASE tx' = tx /\ pc[r] \notin Writing /\ pc'[r] \notin Writing
    BY <2>1
  <2>2. CASE \E outcome \in Statuses :
               /\ Outcomes(r) = {outcome}
               /\ tx'[r] = [tx[r] EXCEPT !.want = outcome, !.lines = Lines]
               /\ pc[r] = "deciding" /\ pc'[r] = "writing"
    BY <1>1, <2>2 DEF Memory
  <2> QED
    BY <1>5, <2>1, <2>2 DEF SyncDecide, Resume
<1>6. CASE WriteCard(r)
  <2>1. /\ tx'[r] = [tx[r] EXCEPT !.card = tx[r].want]
        /\ pc[r] \in Writing /\ pc'[r] \notin Writing
    BY <1>6 DEF WriteCard, Resume
  <2> QED
    BY <1>1, <2>1 DEF Memory
<1>7. CASE ListLines(r)
  BY <1>1, <1>7 DEF ListLines, Memory
<1>8. CASE ReadPrevious(r) \/ InsertQuotation(r)
  <2>1. tx' = tx \/ tx'[r] = [tx[r] EXCEPT !.base = revisions]
    BY <1>8 DEF ReadPrevious, InsertQuotation, Refuse
  <2>2. pc[r] \notin Writing /\ pc'[r] \notin Writing
    BY <1>8 DEF ReadPrevious, InsertQuotation, Refuse
  <2> QED
    BY <1>1, <2>1, <2>2 DEF Memory
<1>9. CASE CloseUpload(r)
  <2>1. CASE tx' = tx /\ pc[r] \notin Writing /\ pc'[r] \notin Writing
    BY <2>1
  <2>2. CASE /\ tx'[r] = [tx[r] EXCEPT !.want = "quoted", !.lines = {}]
             /\ pc'[r] = "closing"
    BY <1>1, <2>2 DEF Memory, Statuses
  <2> QED
    BY <1>9, <2>1, <2>2 DEF CloseUpload
<1>10. CASE CancelCard(r) \/ PatchCard(r)
  <2>1. PICK v \in Statuses : /\ tx'[r] = [tx[r] EXCEPT !.want = v]
                              /\ pc[r] = "loaded" /\ pc'[r] = "closing"
    BY <1>10, RequestType DEF CancelCard, PatchCard, Refuse, Statuses
  <2>2. tx[r].lines = {}
    BY <2>1 DEF EarlyInv, Early
  <2> QED
    BY <1>1, <2>1, <2>2 DEF Memory
<1>11. CASE Commit(r) \/ Crash(r)
  BY <1>11 DEF Commit, Crash, Refuse
<1> QED
  BY <1>2, <1>3, <1>4, <1>5, <1>6, <1>7, <1>8, <1>9, <1>10, <1>11 DEF Step

LEMMA StepWant ==
  ASSUME TypeOK, TypeOK', EarlyInv, DraftInv, WantInv,
         NEW r \in Requests, Load(r) \/ Step(r) \/ Crash(r), NEW s \in Requests
  PROVE  /\ tx'[s].lines \subseteq Lines'
         /\ tx'[s].want # "none" =>
              \A l \in tx'[s].lines : View(s, l)' \in Downstream[tx'[s].want]
         /\ pc'[s] \in Writing => tx'[s].want # "none"
         /\ tx'[s].card # "none" /\ pc'[s] \notin Writing => tx'[s].card = tx'[s].want
<1>1. [Next]_vars
  BY DEF Next
<1>2. Lines \subseteq Lines'
  BY <1>1, LinesFollowRules
<1>3. ASSUME s # r \/ ~End(r), tx'[s].lines = tx[s].lines, tx'[s].want = tx[s].want,
             tx[s].want # "none", NEW l \in tx[s].lines
      PROVE  View(s, l)' \in Downstream[tx[s].want]
  <2>1. l \in Lines /\ View(s, l) \in Downstream[tx[s].want]
    BY <1>3 DEF WantInv
  <2>2. tx[s].want \in Statuses
    BY <1>3, RequestType, MemoryFields
  <2> QED
    BY <1>3, <2>1, <2>2, ViewFollowsRules, DownstreamClosed
<1>4. CASE s # r
  <2>1. tx'[s] = tx[s] /\ pc'[s] = pc[s]
    BY <1>4, StepFrame
  <2> QED
    BY <1>2, <1>3, <1>4, <2>1 DEF WantInv
<1>5. CASE s = r /\ End(r)
  <2>1. tx'[r] = Blank /\ pc'[r] = "done"
    BY <1>5 DEF End, TypeOK
  <2> QED
    BY <1>5, <2>1 DEF Blank, Writing
<1>6. CASE s = r /\ ~End(r)
  <2>1. CASE /\ tx'[r].want = tx[r].want /\ tx'[r].lines = tx[r].lines
             /\ tx'[r].card = tx[r].card
             /\ pc[r] \notin Writing /\ pc'[r] \notin Writing
    BY <1>2, <1>3, <1>6, <2>1 DEF WantInv
  <2>2. CASE /\ pc[r] \in Writing /\ pc'[r] \notin Writing
             /\ tx'[r].want = tx[r].want /\ tx'[r].lines = tx[r].lines
             /\ tx'[r].card = tx[r].want
    BY <1>2, <1>3, <1>6, <2>2 DEF WantInv
  <2>3. CASE pc'[r] = "closing" /\ tx'[r].want \in Statuses /\ tx'[r].lines = {}
    BY <1>6, <2>3 DEF Statuses, Writing
  <2>4. CASE /\ pc[r] = "deciding" /\ pc'[r] = "writing"
             /\ tx'[r].want \in Statuses /\ Outcomes(r) = {tx'[r].want}
             /\ tx'[r].lines = Lines /\ tx'[r].draft = tx[r].draft
    <3>1. UNCHANGED stage
      BY <1>6, StepFrame DEF Commit, database
    <3>2. ASSUME NEW l \in Lines PROVE View(r, l)' \in Downstream[tx'[r].want]
      <4>1. View(r, l)' = View(r, l)
        BY <2>4, <3>1 DEF View
      <4>2. View(r, l) \in Stages
        BY DEF View, Lines, TypeOK, Memory, LineStages
      <4>3. Outcome(View(r, l), tx[r].read.reworked) = tx'[r].want
        BY <2>4 DEF Outcomes
      <4>4. View(r, l) \in Sources(tx'[r].want)
        BY <2>4, <4>2, <4>3 DEF Outcome, Sources, Statuses
      <4> QED
        BY <2>4, <4>1, <4>4, DownstreamSource
    <3> QED
      BY <1>2, <1>6, <2>4, <3>2 DEF Statuses, Writing
  <2> QED
    BY <1>6, <2>1, <2>2, <2>3, <2>4, DecisionStep
<1> QED
  BY <1>4, <1>5, <1>6

LEMMA NextWant ==
  ASSUME TypeOK, TypeOK', EarlyInv, DraftInv, WantInv, [Next]_vars
  PROVE  WantInv'
<1>1. CASE UNCHANGED <<pc, req, tx>> /\ (AddLine \/ UNCHANGED database)
  <2>1. \A l \in Lines : stage'[l] = stage[l] /\ l \in Lines'
    BY <1>1 DEF AddLine, database, Lines, TypeOK, LineStages
  <2> QED
    BY <1>1, <2>1 DEF WantInv, View
<1> QED
  BY <1>1, NextFrame, StepWant DEF WantInv

LEMMA NextBasis ==
  ASSUME TypeOK, TypeOK', EarlyInv, DraftInv, WantInv, BasisInv, [Next]_vars
  PROVE  BasisInv'
<1>1. Lines \subseteq Lines'
  BY LinesFollowRules
<1>2. CASE UNCHANGED <<cardStatus, basis>>
  <2> SUFFICES ASSUME NEW l \in basis PROVE stage'[l] \in Downstream[cardStatus]
    BY <1>1, <1>2 DEF BasisInv, Founded
  <2>1. l \in Lines /\ stage[l] \in Downstream[cardStatus] /\ cardStatus \in Statuses
    BY DEF BasisInv, Founded, TypeOK
  <2> QED
    BY <2>1, LinesFollowRules, DownstreamClosed
<1>3. CASE \E r \in Requests : Commit(r) /\ tx[r].card # "none"
  <2>1. PICK r \in Requests : Commit(r) /\ tx[r].card # "none"
    BY <1>3
  <2>2. /\ cardStatus' = tx[r].want /\ basis' = tx[r].lines
        /\ tx[r].want # "none" /\ tx[r].lines \subseteq Lines
        /\ \A l \in tx[r].lines : View(r, l) \in Downstream[tx[r].want]
    BY <2>1 DEF Commit, WantInv, Writing
  <2>3. \A l \in Lines : stage'[l] = View(r, l)
    BY <2>1 DEF Commit, Lines
  <2> QED
    BY <1>1, <2>2, <2>3 DEF BasisInv, Founded
<1> QED
  BY <1>2, <1>3, NextFrame, StepFrame DEF database, AddLine, Commit

\* A status that a cascade gave the card stays founded on every line that
\* was counted, for every stage graph and however requests overlap.
THEOREM StatusStaysFounded == Spec => []Founded
<1>1. Init => WantInv /\ BasisInv
  BY DEF Init, WantInv, BasisInv, Founded, Blank, Writing
<1>2. TypeOK /\ TypeOK' /\ EarlyInv /\ DraftInv /\ WantInv /\ BasisInv /\ [Next]_vars
        => WantInv' /\ BasisInv'
  BY NextWant, NextBasis
<1>3. BasisInv => Founded
  BY DEF BasisInv
<1> QED
  BY <1>1, <1>2, <1>3, DraftInvariant, PTL DEF Spec
---------------------------------------------------------------------------
\* The card is written last.

\* Past its insert a request is an upload that has its lines before it, or
\* has one line to move; the card is written when nothing is left to move.
LastInv ==
  \A r \in Requests :
    /\ pc[r] \in {"numbering", "listing"} => Kind(r) = "upload"
    /\ pc[r] = "advancing" /\ Kind(r) # "upload" => \E l : Pending(r) \subseteq {l}
    /\ pc[r] \in {"syncing", "deciding", "writing"} /\ Kind(r) # "upload" => Pending(r) = {}
    /\ pc[r] \in {"closing", "ready"} => Pending(r) = {}
    /\ tx[r].card # "none" => pc[r] = "ready"

\* An upload in the cascade has a line that the cascade does not count.
QuotingInv ==
  \A r \in Requests : Kind(r) = "upload" /\ pc[r] # "idle" =>
    /\ \A l \in LineNos : tx[r].draft[l] # NoStage =>
         \E rule \in Rules : rule.action = "quote" /\ rule.to = tx[r].draft[l]
    /\ pc[r] \in {"syncing", "deciding"} => \E l \in LineNos : tx[r].draft[l] # NoStage
    /\ pc[r] # "writing"

\* A step that leaves the request's lines as they were, and where it goes.
LEMMA StepTodo ==
  ASSUME TypeOK, EarlyInv, NEW r \in Requests, Load(r) \/ Step(r) \/ Crash(r), ~End(r)
  PROVE  \/ Load(r)
         \/ /\ pc[r] = "advancing" /\ req' = req
            /\ \E l \in LineNos : Move(r, l) /\ NextLine(r, l) /\ LineFree(r, l)
                                  /\ stage[l] = tx[r].todo[l]
         \/ /\ pc[r] = "advancing" /\ pc'[r] = "advancing" /\ Kind(r) = "upload"
            /\ req' = req /\ tx'[r].card = tx[r].card /\ tx'[r].draft = tx[r].draft
         \/ /\ pc[r] = "listing" /\ pc'[r] = "advancing" /\ req' = req
            /\ tx'[r].card = tx[r].card /\ tx'[r].draft = tx[r].draft
         \/ /\ req' = req /\ Pending(r)' = Pending(r) /\ tx'[r].draft = tx[r].draft
            /\ \/ /\ tx'[r].card = tx[r].card
                  /\ \/ pc[r] = "syncing" /\ pc'[r] = "deciding"
                     \/ pc[r] = "deciding" /\ pc'[r] = "writing"
                        /\ tx'[r].want \in Statuses /\ Outcomes(r) = {tx'[r].want}
                     \/ pc[r] = "deciding" /\ Resume(r)
                     \/ pc[r] = "loaded" /\ pc'[r] = "numbering" /\ Kind(r) = "upload"
                     \/ pc[r] = "numbering" /\ pc'[r] = "listing"
                     \/ /\ pc[r] = "advancing" /\ Kind(r) = "upload" /\ Pending(r) = {}
                        /\ pc'[r] \in {"closing", "ready"}
                     \/ pc[r] = "loaded" /\ Kind(r) # "upload" /\ pc'[r] = "closing"
               \/ pc[r] = "writing" /\ Resume(r)
               \/ pc[r] = "closing" /\ pc'[r] = "ready"
<1>1. tx[r] \in Memory
  BY RequestType
<1> USE DEF TypeOK, Remember, Goto, Pending
<1>2. CASE Advance(r)
  <2>1. CASE \E l \in LineNos : Move(r, l)
    <3>1. req' = req
      BY <2>1 DEF Move
    <3> QED
      BY <2>1, <3>1, MoveFrom
  <2>2. CASE ~\E l \in LineNos : Move(r, l)
    <3>1. PICK l \in LineNos : /\ tx'[r] = [tx[r] EXCEPT !.todo[l] = NoStage]
                               /\ pc[r] = "advancing" /\ pc'[r] = "advancing"
                               /\ Kind(r) = "upload" /\ req' = req
      BY <1>2, <2>2 DEF Advance, GiveUp, Refuse
    <3> QED
      BY <1>1, <3>1 DEF Memory
  <2> QED
    BY <2>1, <2>2
<1>3. CASE SyncReadCard(r)
  <2>1. PICK v : tx'[r] = [tx[r] EXCEPT !.read = v]
    BY <1>3 DEF SyncReadCard
  <2>2. tx'[r].todo = tx[r].todo /\ tx'[r].card = tx[r].card /\ tx'[r].draft = tx[r].draft
    BY <1>1, <2>1 DEF Memory
  <2> QED
    BY <1>3, <2>2 DEF SyncReadCard
<1>4. CASE SyncDecide(r)
  <2>1. CASE tx' = tx /\ Resume(r)
    BY <1>4, <2>1 DEF SyncDecide, Resume
  <2>2. CASE \E outcome \in Statuses :
               /\ Outcomes(r) = {outcome}
               /\ tx'[r] = [tx[r] EXCEPT !.want = outcome, !.lines = Lines]
               /\ pc'[r] = "writing" /\ req' = req
    <3>1. PICK outcome \in Statuses :
               /\ Outcomes(r) = {outcome}
               /\ tx'[r] = [tx[r] EXCEPT !.want = outcome, !.lines = Lines]
               /\ pc'[r] = "writing" /\ req' = req
      BY <2>2
    <3>2. tx'[r].todo = tx[r].todo /\ tx'[r].card = tx[r].card /\ tx'[r].draft = tx[r].draft
          /\ tx'[r].want = outcome
      BY <1>1, <3>1 DEF Memory
    <3> QED
      BY <1>4, <3>1, <3>2 DEF SyncDecide
  <2> QED
    BY <1>4, <2>1, <2>2 DEF SyncDecide
<1>5. CASE WriteCard(r)
  <2>1. tx'[r] = [tx[r] EXCEPT !.card = tx[r].want]
    BY <1>5 DEF WriteCard
  <2>2. tx'[r].todo = tx[r].todo /\ tx'[r].draft = tx[r].draft
    BY <1>1, <2>1 DEF Memory
  <2> QED
    BY <1>5, <2>2 DEF WriteCard, Resume
<1>6. CASE ReadPrevious(r) \/ InsertQuotation(r)
  <2>1. tx' = tx \/ tx'[r] = [tx[r] EXCEPT !.base = revisions]
    BY <1>6 DEF ReadPrevious, InsertQuotation, Refuse
  <2>2. tx'[r].todo = tx[r].todo /\ tx'[r].card = tx[r].card /\ tx'[r].draft = tx[r].draft
    BY <1>1, <2>1 DEF Memory
  <2> QED
    BY <1>6, <2>2 DEF ReadPrevious, InsertQuotation, Refuse
<1>7. CASE ListLines(r)
  <2>1. tx'[r] = [tx[r] EXCEPT !.todo = stage]
    BY <1>7 DEF ListLines
  <2> QED
    BY <1>1, <1>7, <2>1 DEF ListLines, Memory
<1>8. CASE CloseUpload(r)
  <2>1. tx' = tx \/ tx'[r] = [tx[r] EXCEPT !.want = "quoted", !.lines = {}]
    BY <1>8 DEF CloseUpload
  <2>2. tx'[r].todo = tx[r].todo /\ tx'[r].card = tx[r].card /\ tx'[r].draft = tx[r].draft
    BY <1>1, <2>1 DEF Memory
  <2> QED
    BY <1>8, <2>2 DEF CloseUpload
<1>9. CASE CancelCard(r) \/ PatchCard(r)
  <2>1. PICK v : tx'[r] = [tx[r] EXCEPT !.want = v]
    BY <1>9 DEF CancelCard, PatchCard, Refuse
  <2>2. tx'[r].todo = tx[r].todo /\ tx'[r].card = tx[r].card /\ tx'[r].draft = tx[r].draft
    BY <1>1, <2>1 DEF Memory
  <2> QED
    BY <1>9, <2>2 DEF CancelCard, PatchCard, Refuse
<1> QED
  BY <1>2, <1>3, <1>4, <1>5, <1>6, <1>7, <1>8, <1>9 DEF Step, Commit, Crash, Refuse

\* Moving line l leaves the others to move.
LEMMA MoveLeaves ==
  ASSUME TypeOK, NEW r \in Requests, NEW l \in LineNos, Move(r, l),
         NextLine(r, l), LineFree(r, l), stage[l] = tx[r].todo[l]
  PROVE  Pending(r)' = Pending(r) \ {l} /\ l \in Pending(r)
BY MoveEffect DEF Pending, NextLine

LEMMA StepLast ==
  ASSUME TypeOK, EarlyInv, QuotingInv, LastInv,
         NEW r \in Requests, Load(r) \/ Step(r) \/ Crash(r)
  PROVE  LastInv'
<1> SUFFICES
      /\ pc'[r] \in {"numbering", "listing"} => Kind(r)' = "upload"
      /\ pc'[r] = "advancing" /\ Kind(r)' # "upload" => \E l : Pending(r)' \subseteq {l}
      /\ pc'[r] \in {"syncing", "deciding", "writing"} /\ Kind(r)' # "upload"
           => Pending(r)' = {}
      /\ pc'[r] \in {"closing", "ready"} => Pending(r)' = {}
      /\ tx'[r].card # "none" => pc'[r] = "ready"
  BY StepFrame DEF LastInv, Kind, Pending
<1>1. CASE End(r)
  BY <1>1 DEF End, Blank, TypeOK
<1>2. CASE ~End(r) /\ Load(r)
  <2>1. tx[r] = Blank
    BY <1>2 DEF Load, EarlyInv
  <2>2. PICK input \in Inputs :
          \/ /\ pc'[r] = "advancing" /\ input.line \in LineNos
             /\ tx'[r] = [Blank EXCEPT !.todo[input.line] = stage[input.line]]
          \/ pc'[r] = "loaded" /\ tx'[r] = [Blank EXCEPT !.loaded = cardStatus]
    BY <1>2, <2>1 DEF Load, Remember, TypeOK, Lines
  <2>3. Blank \in Memory /\ NoLines \in LineStages
    BY BlankType
  <2>4. tx'[r].card = "none"
    BY <2>2 DEF Blank
  <2>5. CASE pc'[r] = "advancing" /\ input.line \in LineNos
             /\ tx'[r] = [Blank EXCEPT !.todo[input.line] = stage[input.line]]
    <3>1. tx'[r].todo = [NoLines EXCEPT ![input.line] = stage[input.line]]
      BY <2>5 DEF Blank
    <3>2. Pending(r)' \subseteq {input.line}
      BY <3>1 DEF Pending, NoLines
    <3> QED
      BY <2>4, <2>5, <3>2
  <2> QED
    BY <2>2, <2>4, <2>5
<1>3. CASE ~End(r) /\ ~Load(r)
  <2> USE <1>3 DEF Kind
  <2>1. CASE /\ pc[r] = "advancing" /\ req' = req
             /\ \E l \in LineNos : Move(r, l) /\ NextLine(r, l) /\ LineFree(r, l)
                                   /\ stage[l] = tx[r].todo[l]
    <3>1. PICK l \in LineNos : Move(r, l) /\ NextLine(r, l) /\ LineFree(r, l)
                                   /\ stage[l] = tx[r].todo[l]
      BY <2>1
    <3>2. pc'[r] = "syncing" /\ tx'[r].card = tx[r].card
      BY <3>1, MoveEffect DEF TypeOK
    <3>3. Pending(r)' = Pending(r) \ {l} /\ l \in Pending(r)
      BY <3>1, MoveLeaves
    <3> QED
      BY <2>1, <3>2, <3>3 DEF LastInv
  <2>2. ASSUME Resume(r)
        PROVE  \/ Kind(r) = "upload" /\ pc'[r] = "advancing"
               \/ Kind(r) # "upload" /\ pc'[r] = "ready"
    BY <2>2 DEF Resume, Goto, TypeOK
  <2>3. CASE /\ pc[r] = "advancing" /\ pc'[r] = "advancing" /\ Kind(r) = "upload"
             /\ req' = req /\ tx'[r].card = tx[r].card /\ tx'[r].draft = tx[r].draft
    BY <2>3 DEF LastInv
  <2>4. CASE /\ pc[r] = "listing" /\ pc'[r] = "advancing" /\ req' = req
             /\ tx'[r].card = tx[r].card /\ tx'[r].draft = tx[r].draft
    BY <2>4 DEF LastInv
  <2>5. CASE pc[r] = "writing" /\ Resume(r) /\ req' = req /\ Pending(r)' = Pending(r)
    <3>1. Kind(r) # "upload"
      BY <2>5 DEF QuotingInv
    <3> QED
      BY <2>2, <2>5, <3>1 DEF LastInv
  <2>6. CASE /\ pc[r] = "closing" /\ pc'[r] = "ready" /\ req' = req
             /\ Pending(r)' = Pending(r)
    BY <2>6 DEF LastInv
  <2>7. CASE /\ req' = req /\ Pending(r)' = Pending(r) /\ tx'[r].card = tx[r].card
             /\ \/ pc[r] = "syncing" /\ pc'[r] = "deciding"
                \/ pc[r] = "deciding" /\ pc'[r] = "writing"
                \/ pc[r] = "deciding" /\ Resume(r)
                \/ pc[r] = "loaded" /\ pc'[r] = "numbering" /\ Kind(r) = "upload"
                \/ pc[r] = "numbering" /\ pc'[r] = "listing"
                \/ /\ pc[r] = "advancing" /\ Kind(r) = "upload" /\ Pending(r) = {}
                   /\ pc'[r] \in {"closing", "ready"}
                \/ pc[r] = "loaded" /\ Kind(r) # "upload" /\ pc'[r] = "closing"
    <3>1. pc[r] = "loaded" => Pending(r) = {}
      BY DEF EarlyInv, Early, Pending, NoLines
    <3> QED
      BY <2>2, <2>7, <3>1 DEF LastInv
  <2> QED
    BY <2>1, <2>3, <2>4, <2>5, <2>6, <2>7, StepTodo
<1> QED
  BY <1>1, <1>2, <1>3

LEMMA StepQuoting ==
  ASSUME TypeOK, EarlyInv, DraftInv, QuotingInv, QuoteDecidesNothing,
         NEW r \in Requests, Load(r) \/ Step(r) \/ Crash(r)
  PROVE  QuotingInv'
<1> SUFFICES ASSUME Kind(r)' = "upload", pc'[r] # "idle"
             PROVE  /\ \A l \in LineNos : tx'[r].draft[l] # NoStage =>
                         \E rule \in Rules : rule.action = "quote" /\ rule.to = tx'[r].draft[l]
                    /\ pc'[r] \in {"syncing", "deciding"} =>
                         \E l \in LineNos : tx'[r].draft[l] # NoStage
                    /\ pc'[r] # "writing"
  BY StepFrame DEF QuotingInv, Kind
<1>1. CASE End(r)
  <2>1. tx'[r] = Blank /\ pc'[r] = "done"
    BY <1>1 DEF End, TypeOK
  <2> QED
    BY <2>1 DEF Blank, NoLines
<1>2. CASE ~End(r) /\ Load(r)
  <2>1. tx[r].draft = NoLines
    BY <1>2 DEF Load, EarlyInv, Blank
  <2>2. ~\E l \in LineNos : Move(r, l)
    BY <1>2 DEF Load, Move, Goto, TypeOK
  <2>3. tx'[r].draft = NoLines
    BY <1>2, <2>1, <2>2, MovesKept
  <2>4. pc'[r] \in {"advancing", "loaded"}
    BY <1>2 DEF Load, TypeOK
  <2> QED
    BY <2>3, <2>4 DEF NoLines
<1>3. CASE ~End(r) /\ ~Load(r)
  <2>1. req' = req /\ Kind(r) = "upload" /\ pc[r] # "idle"
    BY <1>3, StepTodo DEF Kind, Resume, Goto
  <2>2. CASE \E l \in LineNos : Move(r, l)
    <3>1. PICK l \in LineNos : /\ Move(r, l) /\ NextLine(r, l) /\ LineFree(r, l)
                               /\ stage[l] = tx[r].todo[l] /\ pc[r] = "advancing"
      BY <1>3, <2>2, MoveFrom
    <3>2. \E rule \in Rules : rule.action = "quote" /\ rule.to = tx'[r].draft[l]
      BY <2>1, <3>1, MoveEffect DEF Action
    <3>3. \A k \in LineNos \ {l} : tx'[r].draft[k] = tx[r].draft[k]
      BY <3>1, MoveEffect
    <3>4. tx'[r].draft[l] # NoStage /\ pc'[r] = "syncing"
      BY <3>1, MoveEffect DEF TypeOK
    <3> QED
      BY <2>1, <3>2, <3>3, <3>4 DEF QuotingInv
  <2>3. CASE ~\E l \in LineNos : Move(r, l)
    <3>1. tx'[r].draft = tx[r].draft
      BY <1>3, <2>3, MovesKept
    <3>2. pc'[r] \in {"syncing", "deciding"} => pc[r] \in {"syncing", "deciding"}
      BY <1>3, <2>3, StepTodo DEF Resume, Goto, TypeOK
    <3>3. pc'[r] = "writing" => pc[r] = "deciding" /\ "none" \notin Outcomes(r)
      BY <1>3, <2>1, <2>3, StepTodo DEF Resume, Goto, TypeOK, Statuses
    <3>4. pc[r] = "deciding" => "none" \in Outcomes(r)
      <4> SUFFICES ASSUME pc[r] = "deciding" PROVE "none" \in Outcomes(r)
        OBVIOUS
      <4>1. PICK l \in LineNos : tx[r].draft[l] # NoStage
        BY <2>1 DEF QuotingInv
      <4>2. PICK rule \in Rules : rule.action = "quote" /\ rule.to = tx[r].draft[l]
        BY <2>1, <4>1 DEF QuotingInv
      <4>3. Outcome(View(r, l), tx[r].read.reworked) = "none"
        BY <4>1, <4>2 DEF View, Outcome, QuoteDecidesNothing
      <4>4. l \in Lines
        BY <4>1 DEF DraftInv
      <4> QED
        BY <4>3, <4>4 DEF Outcomes
    <3> QED
      BY <2>1, <3>1, <3>2, <3>3, <3>4 DEF QuotingInv
  <2> QED
    BY <2>2, <2>3
<1> QED
  BY <1>1, <1>2, <1>3

LEMMA LastInvariant ==
  ASSUME QuoteDecidesNothing
  PROVE  Spec => [](TypeOK /\ EarlyInv /\ DraftInv /\ QuotingInv /\ LastInv)
<1>1. Init => QuotingInv /\ LastInv
  BY DEF Init, QuotingInv, LastInv, Blank
<1>2. TypeOK /\ EarlyInv /\ DraftInv /\ QuotingInv /\ LastInv /\ [Next]_vars
        => QuotingInv' /\ LastInv'
  <2> SUFFICES ASSUME TypeOK, EarlyInv, DraftInv, QuotingInv, LastInv, [Next]_vars
               PROVE  QuotingInv' /\ LastInv'
    OBVIOUS
  <2>1. CASE UNCHANGED <<pc, req, tx>>
    BY <2>1 DEF QuotingInv, LastInv, Kind, Pending
  <2> QED
    BY <2>1, NextFrame, StepQuoting, StepLast
<1> QED
  BY <1>1, <1>2, DraftInvariant, PTL DEF Spec

\* Nobody waits for a line while holding the card: as long as quoting a line
\* decides nothing about its card, lines come first in every request.
THEOREM LinesBeforeCard ==
  ASSUME QuoteDecidesNothing
  PROVE  Spec => []CardComesLast
<1>1. LastInv => CardComesLast
  BY DEF LastInv, CardComesLast
<1> QED
  BY <1>1, LastInvariant, PTL
---------------------------------------------------------------------------
\* A quoted card is not open.

LEMMA NeverReopenedBefore ==
  ASSUME TypeOK, [Next]_vars, NeverReopened'
  PROVE  NeverReopened
<1> SUFFICES ASSUME NEW s \in Requests, pc[s] # "idle", Kind(s) = "patch"
             PROVE  req[s].status # "open"
  BY DEF NeverReopened
<1>1. ASSUME NEW r \in Requests, Load(r) \/ Step(r) \/ Crash(r)
      PROVE  pc'[s] # "idle" /\ req'[s] = req[s]
  <2>1. CASE s # r
    BY <1>1, <2>1, StepFrame
  <2>2. CASE s = r /\ End(r)
    BY <2>2 DEF End, TypeOK
  <2>3. CASE s = r /\ ~End(r)
    BY <1>1, <2>3
       DEF Load, Step, Advance, GiveUp, Move, SyncReadCard, SyncDecide, WriteCard, Resume,
           ReadPrevious, InsertQuotation, ListLines, CloseUpload, CancelCard, PatchCard,
           Commit, Crash, Refuse, Goto, TypeOK
  <2> QED
    BY <2>1, <2>2, <2>3
<1> QED
  BY <1>1, NextFrame DEF NeverReopened, Kind

\* What a request loaded stays with it; an upload that leaves the card alone
\* had loaded one that was decided.
LoadedInv ==
  \A r \in Requests : Kind(r) = "upload" =>
    /\ Open(r) => tx[r].loaded \in Statuses
    /\ pc[r] = "ready" /\ tx[r].card = "none" => tx[r].loaded \notin {"open", "rework"}
    /\ pc[r] \in Writing => tx[r].want # "none"

LEMMA LoadedKept ==
  ASSUME TypeOK, EarlyInv, NEW r \in Requests, Step(r) \/ Crash(r), ~End(r)
  PROVE  tx'[r].loaded = tx[r].loaded /\ req' = req
<1>1. tx[r] \in Memory
  BY RequestType
<1>2. CASE \E l \in LineNos : Move(r, l)
  BY <1>2, MoveFrom, MoveEffect
<1>3. CASE ~\E l \in LineNos : Move(r, l)
  <2>1. /\ req' = req
        /\ \/ tx' = tx
           \/ \E v : \/ tx'[r] = [tx[r] EXCEPT !.read = v]
                     \/ tx'[r] = [tx[r] EXCEPT !.want = v]
                     \/ tx'[r] = [tx[r] EXCEPT !.card = v]
                     \/ tx'[r] = [tx[r] EXCEPT !.base = v]
                     \/ tx'[r] = [tx[r] EXCEPT !.todo = v]
                     \/ tx'[r] = [tx[r] EXCEPT !.want = v, !.lines = Lines]
           \/ tx'[r] = [tx[r] EXCEPT !.want = "quoted", !.lines = {}]
           \/ \E l \in LineNos : tx'[r] = [tx[r] EXCEPT !.todo[l] = NoStage]
    <3> USE DEF TypeOK, Remember, Goto
    <3>1. CASE Advance(r)
      BY <1>3, <3>1 DEF Advance, GiveUp, Refuse
    <3>2. CASE SyncReadCard(r)
      BY <3>2 DEF SyncReadCard
    <3>3. CASE SyncDecide(r)
      BY <3>3 DEF SyncDecide, Resume
    <3>4. CASE WriteCard(r)
      BY <3>4 DEF WriteCard, Resume
    <3>5. CASE ReadPrevious(r) \/ InsertQuotation(r) \/ ListLines(r)
      BY <3>5 DEF ReadPrevious, InsertQuotation, ListLines, Refuse
    <3>6. CASE CloseUpload(r)
      BY <3>6 DEF CloseUpload
    <3>7. CASE CancelCard(r) \/ PatchCard(r)
      BY <3>7 DEF CancelCard, PatchCard, Refuse
    <3> QED
      BY <3>1, <3>2, <3>3, <3>4, <3>5, <3>6, <3>7 DEF Step, Commit, Crash, Refuse
  <2> QED
    BY <1>1, <2>1 DEF Memory
<1> QED
  BY <1>2, <1>3

\* How a request becomes ready to commit.
LEMMA ReadyFrom ==
  ASSUME TypeOK, EarlyInv, NEW r \in Requests, Load(r) \/ Step(r) \/ Crash(r),
         pc'[r] = "ready", Kind(r) = "upload"
  PROVE  \/ pc[r] = "closing" /\ tx'[r].card = tx[r].want
         \/ pc[r] = "advancing" /\ ~Quotable(r)
<1>1. tx[r] \in Memory
  BY RequestType
<1>2. pc[r] \in {"closing", "advancing"}
  BY DEF Load, Step, Advance, GiveUp, Move, SyncReadCard, SyncDecide, WriteCard, Resume,
         ReadPrevious, InsertQuotation, ListLines, CloseUpload, CancelCard, PatchCard,
         Commit, Crash, Refuse, End, Goto, TypeOK
<1>3. CASE pc[r] = "closing"
  <2>1. WriteCard(r)
    BY <1>3
       DEF Load, Step, Advance, SyncReadCard, SyncDecide, ReadPrevious, InsertQuotation,
           ListLines, CloseUpload, CancelCard, PatchCard, Commit, Crash, Refuse, End, TypeOK
  <2>2. tx'[r] = [tx[r] EXCEPT !.card = tx[r].want]
    BY <2>1 DEF WriteCard, Remember, TypeOK
  <2> QED
    BY <1>1, <1>3, <2>2 DEF Memory
<1>4. CASE pc[r] = "advancing"
  BY <1>4
     DEF Load, Step, Advance, GiveUp, Move, SyncReadCard, SyncDecide, WriteCard,
         ReadPrevious, InsertQuotation, ListLines, CloseUpload, CancelCard, PatchCard,
         Commit, Crash, Refuse, End, Goto, TypeOK
<1> QED
  BY <1>2, <1>3, <1>4

LEMMA StepLoaded ==
  ASSUME TypeOK, TypeOK', EarlyInv, LoadedInv,
         NEW r \in Requests, Load(r) \/ Step(r) \/ Crash(r)
  PROVE  LoadedInv'
<1> SUFFICES ASSUME Kind(r)' = "upload"
             PROVE  /\ Open(r)' => tx'[r].loaded \in Statuses
                    /\ pc'[r] = "ready" /\ tx'[r].card = "none"
                         => tx'[r].loaded \notin {"open", "rework"}
                    /\ pc'[r] \in Writing => tx'[r].want # "none"
  BY StepFrame DEF LoadedInv, Kind, Open
<1>1. CASE End(r)
  BY <1>1 DEF End, Open, Writing, TypeOK
<1>2. CASE ~End(r) /\ Load(r)
  <2>1. pc'[r] = "loaded" /\ tx'[r] = [tx[r] EXCEPT !.loaded = cardStatus]
    BY <1>2 DEF Load, Remember, Kind, TypeOK
  <2>2. tx[r] \in Memory
    BY RequestType
  <2>3. tx'[r].loaded = cardStatus
    BY <2>1, <2>2 DEF Memory
  <2> QED
    BY <2>1, <2>3 DEF Writing, TypeOK
<1>3. CASE ~End(r) /\ ~Load(r)
  <2>1. tx'[r].loaded = tx[r].loaded /\ Kind(r) = "upload"
    BY <1>3, LoadedKept DEF Kind
  <2>2. Open(r)
    BY <1>3
       DEF Open, Step, Advance, SyncReadCard, SyncDecide, WriteCard, ReadPrevious,
           InsertQuotation, ListLines, CloseUpload, CancelCard, PatchCard, Commit, Crash
  <2>3. tx[r].loaded \in Statuses
    BY <2>1, <2>2 DEF LoadedInv
  <2>4. pc'[r] \in Writing => tx'[r].want # "none"
    BY <1>3, DecisionStep DEF Statuses, Writing
  <2>5. pc'[r] = "ready" /\ tx'[r].card = "none" => ~Quotable(r)
    BY <2>1, ReadyFrom DEF LoadedInv, Writing
  <2> QED
    BY <2>1, <2>3, <2>4, <2>5 DEF Quotable
<1> QED
  BY <1>1, <1>2, <1>3

\* Nothing but a PATCH writes "open", and what has stopped being open stays so.
OpenInv ==
  NeverReopened =>
    /\ \A r \in Requests :
         /\ tx[r].want # "open" /\ tx[r].card # "open"
         /\ tx[r].loaded \notin {"none", "open"} => cardStatus # "open"
    /\ revisions > 0 => cardStatus # "open"

LEMMA StepWantOpen ==
  ASSUME TypeOK, TypeOK', EarlyInv, NEW r \in Requests, Load(r) \/ Step(r) \/ Crash(r),
         NeverReopened, tx[r].want # "open", tx[r].card # "open"
  PROVE  tx'[r].want # "open" /\ tx'[r].card # "open"
<1>1. CASE End(r)
  BY <1>1 DEF End, Blank, TypeOK
<1>2. CASE ~End(r) /\ pc'[r] # "closing"
  <2>1. CASE pc[r] = "deciding" /\ tx'[r].want \in Statuses /\ Outcomes(r) = {tx'[r].want}
    <3>1. "open" \notin Outcomes(r)
      <4>1. \A l \in Lines : View(r, l) \in Stages
        BY DEF View, Lines, TypeOK, Memory, LineStages
      <4>2. \A s \in Stages : \A b \in BOOLEAN : Outcome(s, b) # "open"
        BY CardAssumption DEF Outcome
      <4>3. tx[r].read.reworked \in BOOLEAN
        BY RequestType, MemoryFields
      <4> QED
        BY <4>1, <4>2, <4>3 DEF Outcomes
    <3>2. tx'[r].card = tx[r].card
      BY <1>2, <2>1, StepTodo DEF Load
    <3> QED
      BY <2>1, <3>1, <3>2
  <2> QED
    BY <1>2, <2>1, DecisionStep
<1>3. CASE ~End(r) /\ pc'[r] = "closing"
  <2>1. tx[r] \in Memory
    BY RequestType
  <2>2. CloseUpload(r) \/ CancelCard(r) \/ PatchCard(r)
    BY <1>3
       DEF Load, Step, Advance, GiveUp, Move, SyncReadCard, SyncDecide, WriteCard, Resume,
           ReadPrevious, InsertQuotation, ListLines, Commit, Crash, Refuse, Goto, TypeOK
  <2>3. \/ tx'[r] = [tx[r] EXCEPT !.want = "quoted", !.lines = {}]
        \/ tx'[r] = [tx[r] EXCEPT !.want = "cancelled"]
        \/ Kind(r) = "patch" /\ pc[r] = "loaded" /\ tx'[r] = [tx[r] EXCEPT !.want = req[r].status]
    BY <1>3, <2>2
       DEF CloseUpload, CancelCard, PatchCard, Refuse, Remember, Goto, TypeOK
  <2> QED
    BY <2>1, <2>3 DEF Memory, NeverReopened
<1> QED
  BY <1>1, <1>2, <1>3

LEMMA StepOpen ==
  ASSUME TypeOK, TypeOK', EarlyInv, WantInv, LoadedInv, OpenInv,
         NEW r \in Requests, Load(r) \/ Step(r) \/ Crash(r)
  PROVE  OpenInv'
<1> SUFFICES ASSUME NeverReopened'
             PROVE  /\ \A s \in Requests :
                         /\ tx'[s].want # "open" /\ tx'[s].card # "open"
                         /\ tx'[s].loaded \notin {"none", "open"} => cardStatus' # "open"
                    /\ revisions' > 0 => cardStatus' # "open"
  BY DEF OpenInv
<1>1. NeverReopened
  BY NeverReopenedBefore DEF Next
<1>2. cardStatus # "open" => cardStatus' # "open"
  BY <1>1, StepFrame DEF OpenInv, Commit, database
<1>3. ASSUME NEW s \in Requests
      PROVE  /\ tx'[s].want # "open" /\ tx'[s].card # "open"
             /\ tx'[s].loaded \notin {"none", "open"} => cardStatus' # "open"
  <2>1. tx'[s].want # "open" /\ tx'[s].card # "open"
    BY <1>1, StepFrame, StepWantOpen DEF OpenInv
  <2>2. tx'[s].loaded \in {tx[s].loaded, cardStatus, "none"}
    <3>1. CASE s # r
      BY <3>1, StepFrame
    <3>2. CASE s = r /\ End(r)
      BY <3>2 DEF End, Blank, TypeOK
    <3>3. CASE s = r /\ ~End(r) /\ Load(r)
      <4>1. tx[r] \in Memory
        BY RequestType
      <4>2. \/ \E k : tx'[r] = [tx[r] EXCEPT !.todo[k] = stage[k]]
            \/ tx'[r] = [tx[r] EXCEPT !.loaded = cardStatus]
        BY <3>3 DEF Load, Remember, TypeOK
      <4> QED
        BY <3>3, <4>1, <4>2 DEF Memory
    <3>4. CASE s = r /\ ~End(r) /\ ~Load(r)
      BY <3>4, LoadedKept
    <3> QED
      BY <3>1, <3>2, <3>3, <3>4
  <2> QED
    BY <1>1, <1>2, <2>1, <2>2 DEF OpenInv
<1>4. revisions' > 0 => cardStatus' # "open"
  <2>1. CASE revisions' = revisions
    BY <1>1, <1>2, <2>1 DEF OpenInv
  <2>2. CASE revisions' # revisions
    <3>1. Commit(r) /\ Kind(r) = "upload" /\ pc[r] = "ready"
      BY <2>2, StepFrame DEF Commit, Inserted, database
    <3>2. CASE tx[r].card = "none"
      <4>1. tx[r].loaded \in Statuses /\ tx[r].loaded # "open"
        BY <3>1, <3>2 DEF LoadedInv, Open
      <4> QED
        BY <1>1, <1>2, <4>1 DEF OpenInv, Statuses
    <3>3. CASE tx[r].card # "none"
      BY <1>1, <3>1, <3>3 DEF Commit, OpenInv
    <3> QED
      BY <3>2, <3>3
  <2> QED
    BY <2>1, <2>2
<1> QED
  BY <1>3, <1>4

\* Once a card has a quotation on file it is not "open" again, unless a PATCH
\* says so: not by an upload, a cascade or a cancellation in any interleaving.
THEOREM QuotedNotOpen == Spec => []QuotedIsNotOpen
<1>1. Init => WantInv /\ LoadedInv /\ OpenInv
  BY DEF Init, WantInv, LoadedInv, OpenInv, Open, Blank, Writing
<1>2. TypeOK /\ TypeOK' /\ EarlyInv /\ DraftInv /\ WantInv /\ LoadedInv /\ OpenInv
        /\ [Next]_vars => WantInv' /\ LoadedInv' /\ OpenInv'
  <2> SUFFICES ASSUME TypeOK, TypeOK', EarlyInv, DraftInv, WantInv, LoadedInv, OpenInv,
                      [Next]_vars
               PROVE  LoadedInv' /\ OpenInv'
    BY NextWant
  <2>1. CASE UNCHANGED <<pc, req, tx>> /\ (AddLine \/ UNCHANGED database)
    <3>1. UNCHANGED <<cardStatus, revisions>>
      BY <2>1 DEF AddLine, database
    <3> QED
      BY <2>1, <3>1 DEF LoadedInv, OpenInv, NeverReopened, Kind, Open
  <2> QED
    BY <2>1, NextFrame, StepLoaded, StepOpen
<1>3. OpenInv => QuotedIsNotOpen
  BY DEF OpenInv, QuotedIsNotOpen
<1> QED
  BY <1>1, <1>2, <1>3, DraftInvariant, PTL DEF Spec
---------------------------------------------------------------------------
\* One request at a time.

LEMMA AtMostOne ==
  ASSUME NEW S, IsFiniteSet(S), ~(Cardinality(S) > 1), NEW a \in S, NEW b \in S
  PROVE  a = b
<1> SUFFICES ASSUME a # b PROVE FALSE
  OBVIOUS
<1>1. IsFiniteSet({a}) /\ Cardinality({a}) = 1
  BY FS_Singleton
<1>2. IsFiniteSet({a} \cup {b}) /\ Cardinality({a} \cup {b}) = 2
  <2>1. IF b \in {a} THEN Cardinality({a}) ELSE Cardinality({a}) + 1 = 2
    BY <1>1
  <2> QED
    BY <1>1, <2>1, FS_AddElement, Zenon
<1>3. {a} \cup {b} \in SUBSET S
  OBVIOUS
<1>4. Cardinality({a} \cup {b}) <= Cardinality(S) /\ Cardinality(S) \in Nat
  BY <1>3, FS_Subset, FS_CardinalityType
<1> QED
  BY <1>2, <1>4

\* A cancellation goes on only from a card it did not load as cancelled, and
\* an upload writes only a card it loaded open or in rework.
ClosingInv ==
  \A r \in Requests :
    /\ Kind(r) = "cancel" /\ Open(r) =>
         /\ pc[r] \in {"loaded", "closing", "ready"}
         /\ tx[r].loaded \in Statuses
         /\ pc[r] # "loaded" => tx[r].loaded # "cancelled"
    /\ Kind(r) = "upload" /\ (pc[r] = "closing" \/ tx[r].card # "none") => Quotable(r)

LEMMA StepClosing ==
  ASSUME TypeOK, TypeOK', EarlyInv, QuotingInv, LastInv, ClosingInv,
         NEW r \in Requests, Load(r) \/ Step(r) \/ Crash(r)
  PROVE  ClosingInv'
<1> SUFFICES
      /\ Kind(r)' = "cancel" /\ Open(r)' =>
           /\ pc'[r] \in {"loaded", "closing", "ready"}
           /\ tx'[r].loaded \in Statuses
           /\ pc'[r] # "loaded" => tx'[r].loaded # "cancelled"
      /\ Kind(r)' = "upload" /\ (pc'[r] = "closing" \/ tx'[r].card # "none")
           => Quotable(r)'
  BY StepFrame DEF ClosingInv, Kind, Open, Quotable
<1>1. CASE End(r)
  BY <1>1 DEF End, Open, Blank, TypeOK
<1>2. CASE ~End(r) /\ Load(r)
  <2>1. tx[r] = Blank
    BY <1>2 DEF Load, EarlyInv
  <2>2. \/ Kind(r)' = "move"
        \/ pc'[r] = "loaded" /\ tx'[r] = [Blank EXCEPT !.loaded = cardStatus]
    BY <1>2, <2>1 DEF Load, Remember, Kind, TypeOK
  <2> QED
    BY <2>2 DEF Blank, TypeOK
<1>3. CASE ~End(r) /\ ~Load(r)
  <2>1. tx'[r].loaded = tx[r].loaded /\ req' = req /\ Kind(r)' = Kind(r)
    BY <1>3, LoadedKept DEF Kind
  <2>2. Open(r)
    BY <1>3
       DEF Open, Step, Advance, SyncReadCard, SyncDecide, WriteCard, ReadPrevious,
           InsertQuotation, ListLines, CloseUpload, CancelCard, PatchCard, Commit, Crash
  <2>3. CASE Kind(r) = "cancel"
    <3>1. CASE pc[r] = "loaded"
      <4>1. CancelCard(r)
        BY <1>3, <2>3, <3>1
           DEF Step, Advance, SyncReadCard, SyncDecide, WriteCard, ReadPrevious,
               InsertQuotation, ListLines, CloseUpload, PatchCard, Commit, Crash, Refuse
      <4> QED
        BY <1>3, <2>1, <2>2, <2>3, <3>1, <4>1
           DEF CancelCard, Refuse, Goto, ClosingInv, TypeOK
    <3>2. CASE pc[r] \in {"closing", "ready"}
      <4>1. pc'[r] \in {"closing", "ready"}
        BY <1>3, <3>2
           DEF Step, Advance, SyncReadCard, SyncDecide, WriteCard, ReadPrevious, Resume,
               InsertQuotation, ListLines, CloseUpload, CancelCard, PatchCard, Commit,
               Crash, Refuse, Goto, TypeOK
      <4> QED
        BY <2>1, <2>2, <2>3, <3>2, <4>1 DEF ClosingInv
    <3> QED
      BY <2>2, <2>3, <3>1, <3>2 DEF ClosingInv
  <2>4. CASE Kind(r) = "upload"
    <3>1. pc'[r] = "closing" => Quotable(r) \/ pc[r] = "closing"
      BY <1>3, <2>4
         DEF Step, Advance, GiveUp, Move, SyncReadCard, SyncDecide, WriteCard, Resume,
             ReadPrevious, InsertQuotation, ListLines, CloseUpload, CancelCard,
             PatchCard, Commit, Crash, Refuse, Goto, TypeOK
    <3>2. tx'[r].card # "none" => tx[r].card # "none" \/ pc[r] = "closing"
      <4>1. pc[r] # "writing"
        BY <2>2, <2>4 DEF QuotingInv, Open
      <4>2. CASE \E l \in LineNos : Move(r, l)
        BY <1>3, <4>2, MoveFrom, MoveEffect
      <4>3. CASE ~\E l \in LineNos : Move(r, l)
        BY <1>3, <4>1, <4>3, StepTodo
      <4> QED
        BY <4>2, <4>3
    <3> QED
      BY <2>1, <2>4, <3>1, <3>2 DEF ClosingInv, Quotable
  <2> QED
    BY <2>1, <2>3, <2>4
<1> QED
  BY <1>1, <1>2, <1>3

\* What the lines say of the card, all of them together, to r.
AgreedFor(r, status) ==
  Lines # {} /\ \A l \in Lines : Outcome(View(r, l), Quoted(r)) = status

\* What r has read is what is there; having moved its line, it has counted
\* the lines as they are.
Current(r) ==
  /\ tx[r].loaded \in {"none", cardStatus}
  /\ Kind(r) # "upload" /\ tx[r].draft # NoLines =>
       /\ pc[r] \in {"syncing", "deciding", "writing", "ready"}
       /\ pc[r] = "deciding" =>
            tx[r].read.status = cardStatus /\ tx[r].read.reworked = Quoted(r)
       /\ pc[r] = "writing" =>
            \A status \in Statuses : AgreedFor(r, status) => status = tx[r].want
       /\ pc[r] = "ready" =>
            \A status \in Statuses : AgreedFor(r, status) =>
               status = IF tx[r].card = "none" THEN cardStatus ELSE tx[r].card

\* While requests have run one at a time, the one that is open is current.
SerialInv ==
  ~overlapped =>
    /\ \A r, s \in Requests : Open(r) /\ Open(s) => r = s
    /\ \A r \in Requests : Open(r) => Current(r)

LEMMA SerialStep ==
  ASSUME TypeOK, TypeOK', EarlyInv, DraftInv, QuotingInv, LastInv, LoadedInv, SerialInv,
         ~overlapped, NEW r \in Requests, Load(r) \/ Step(r) \/ Crash(r), Open(r)'
  PROVE  Current(r)'
<1>1. ~End(r) /\ UNCHANGED database
  BY StepFrame DEF Open, End, Commit, TypeOK
<1>2. tx[r] \in Memory
  BY RequestType
<1>3. CASE Load(r)
  <2>1. tx[r] = Blank
    BY <1>3 DEF Load, EarlyInv
  <2>2. \/ \E k : tx'[r] = [Blank EXCEPT !.todo[k] = stage[k]]
        \/ tx'[r] = [Blank EXCEPT !.loaded = cardStatus]
    BY <1>3, <2>1 DEF Load, Remember, TypeOK
  <2> QED
    BY <1>1, <2>2 DEF Blank, Current, database
<1>4. CASE ~Load(r)
  <2>1. tx'[r].loaded = tx[r].loaded /\ req' = req /\ Kind(r)' = Kind(r)
    BY <1>1, <1>4, LoadedKept DEF Kind
  <2>2. Open(r)
    BY <1>4
       DEF Open, Step, Advance, SyncReadCard, SyncDecide, WriteCard, ReadPrevious,
           InsertQuotation, ListLines, CloseUpload, CancelCard, PatchCard, Commit, Crash
  <2>3. tx'[r].loaded \in {"none", cardStatus'}
    BY <1>1, <2>1, <2>2 DEF SerialInv, Current, database
  <2> SUFFICES ASSUME Kind(r) # "upload", tx'[r].draft # NoLines
               PROVE  /\ pc'[r] \in {"syncing", "deciding", "writing", "ready"}
                      /\ pc'[r] = "deciding" =>
                           /\ tx'[r].read.status = cardStatus'
                           /\ tx'[r].read.reworked = Quoted(r)'
                      /\ pc'[r] = "writing" =>
                           \A status \in Statuses :
                             AgreedFor(r, status)' => status = tx'[r].want
                      /\ pc'[r] = "ready" =>
                           \A status \in Statuses : AgreedFor(r, status)' =>
                             status = IF tx'[r].card = "none" THEN cardStatus' ELSE tx'[r].card
    BY <2>1, <2>3 DEF Current
  <2>4. Quoted(r)' = Quoted(r)
    BY <1>1, <2>1 DEF Quoted, Inserted, database
  <2>5. CASE \E l \in LineNos : Move(r, l)
    BY <2>5 DEF Move, Goto, TypeOK
  <2>6. CASE ~\E l \in LineNos : Move(r, l)
    <3>1. tx'[r].draft = tx[r].draft
      BY <1>1, <2>6, MovesKept
    <3>2. /\ pc[r] \in {"syncing", "deciding", "writing", "ready"}
          /\ pc[r] = "deciding" =>
               tx[r].read.status = cardStatus /\ tx[r].read.reworked = Quoted(r)
          /\ pc[r] = "writing" =>
               \A status \in Statuses : AgreedFor(r, status) => status = tx[r].want
      BY <2>2, <3>1 DEF SerialInv, Current
    <3>3. \A status : AgreedFor(r, status)' <=> AgreedFor(r, status)
      BY <1>1, <2>4, <3>1 DEF AgreedFor, Lines, View, database
    <3>4. CASE SyncReadCard(r)
      <4>1. tx[r].card = "none"
        BY <3>4 DEF SyncReadCard, LastInv
      <4>2. tx'[r] = [tx[r] EXCEPT !.read = [status |-> cardStatus, reworked |-> Quoted(r)]]
        BY <3>4, <4>1 DEF SyncReadCard, Remember, TypeOK
      <4>3. tx'[r].read = [status |-> cardStatus, reworked |-> Quoted(r)]
        BY <1>2, <4>2 DEF Memory
      <4>4. tx'[r].read.status = cardStatus /\ tx'[r].read.reworked = Quoted(r)
        BY <4>3
      <4>5. pc'[r] = "deciding"
        BY <3>4 DEF SyncReadCard, Goto, TypeOK
      <4>6. cardStatus' = cardStatus
        BY <1>1 DEF database
      <4> QED
        BY <2>4, <4>4, <4>5, <4>6
    <3>5. CASE SyncDecide(r)
      <4>1. ASSUME NEW status \in Statuses, AgreedFor(r, status)
            PROVE  Outcomes(r) = {status}
        <5>1. tx[r].read.reworked = Quoted(r)
          BY <3>2, <3>5 DEF SyncDecide
        <5> QED
          BY <4>1, <5>1 DEF AgreedFor, Outcomes
      <4>2. tx[r].card = "none" /\ tx[r].read.status = cardStatus
        BY <3>2, <3>5 DEF SyncDecide, LastInv
      <4>3. CASE pc'[r] = "writing" /\ Outcomes(r) = {tx'[r].want}
        BY <3>3, <4>1, <4>3
      <4>4. CASE tx' = tx /\ pc'[r] = "ready"
                 /\ ~\E outcome \in Statuses \ {tx[r].read.status} : Outcomes(r) = {outcome}
        <5>1. ASSUME NEW status \in Statuses, AgreedFor(r, status)
              PROVE  status = cardStatus
          BY <4>1, <4>2, <4>4, <5>1
        <5>2. cardStatus' = cardStatus
          BY <1>1 DEF database
        <5> QED
          BY <3>3, <4>2, <4>4, <5>1, <5>2
      <4>5. ASSUME NEW outcome \in Statuses, Outcomes(r) = {outcome},
                   tx'[r] = [tx[r] EXCEPT !.want = outcome, !.lines = Lines]
            PROVE  Outcomes(r) = {tx'[r].want}
        BY <1>2, <4>5 DEF Memory
      <4>6. \/ pc'[r] = "writing" /\ Outcomes(r) = {tx'[r].want}
            \/ tx' = tx /\ pc'[r] = "ready"
               /\ ~\E outcome \in Statuses \ {tx[r].read.status} : Outcomes(r) = {outcome}
        BY <3>5, <4>5 DEF SyncDecide, Resume, Remember, Goto, TypeOK
      <4> QED
        BY <4>3, <4>4, <4>6
    <3>6. CASE WriteCard(r)
      <4>1. pc[r] = "writing" /\ pc'[r] = "ready"
        BY <3>2, <3>6 DEF WriteCard, Resume, Goto, TypeOK
      <4>2. tx'[r] = [tx[r] EXCEPT !.card = tx[r].want]
        BY <3>6 DEF WriteCard, Remember, TypeOK
      <4>3. tx'[r].card = tx[r].want
        BY <1>2, <4>2 DEF Memory
      <4>4. tx[r].want \in Statuses \/ tx[r].want = "none"
        BY <1>2, MemoryFields
      <4>5. \A status \in Statuses : AgreedFor(r, status) => status = tx[r].want
        BY <3>2, <4>1
      <4>6. "none" \notin Statuses
        BY DEF Statuses
      <4> QED
        BY <3>3, <4>1, <4>3, <4>4, <4>5, <4>6
    <3> QED
      BY <1>1, <1>4, <3>2, <3>4, <3>5, <3>6
         DEF Step, Advance, ReadPrevious, InsertQuotation, ListLines, CloseUpload,
             CancelCard, PatchCard, Commit, Crash, Refuse
  <2> QED
    BY <2>5, <2>6
<1> QED
  BY <1>3, <1>4

LEMMA NextSerial ==
  ASSUME TypeOK, TypeOK', EarlyInv, DraftInv, QuotingInv, LastInv, LoadedInv, SerialInv,
         [HistoryNext]_historyVars
  PROVE  SerialInv'
<1> SUFFICES ASSUME ~overlapped'
             PROVE  /\ \A r, s \in Requests : Open(r)' /\ Open(s)' => r = s
                    /\ \A r \in Requests : Open(r)' => Current(r)'
  BY DEF SerialInv
<1>1. CASE UNCHANGED historyVars
  BY <1>1
     DEF historyVars, vars, database, SerialInv, Current, Open, Kind, AgreedFor, Lines, View,
         Quoted, Inserted
<1>2. CASE HistoryNext
  <2>1. /\ Next /\ ~overlapped
        /\ ~(Cardinality(OpenRequests') > 1) /\ ~LineAddedMeanwhile
    BY <1>2 DEF HistoryNext
  <2>2. IsFiniteSet(OpenRequests')
    <3>1. OpenRequests' \in SUBSET Requests
      BY DEF OpenRequests
    <3> QED
      BY <3>1, CardAssumption, FS_Subset
  <2>3. ASSUME NEW r \in Requests, NEW s \in Requests, Open(r)', Open(s)'
        PROVE  r = s
    <3>1. r \in OpenRequests' /\ s \in OpenRequests'
      BY <2>3 DEF OpenRequests
    <3> QED
      BY <2>1, <2>2, <3>1, AtMostOne
  <2>4. ASSUME NEW r \in Requests, Load(r) \/ Step(r) \/ Crash(r),
               NEW s \in Requests, Open(s)', s # r
        PROVE  Open(s) /\ UNCHANGED database /\ pc'[s] = pc[s] /\ req'[s] = req[s]
                 /\ tx'[s] = tx[s]
    <3>1. ~Open(r)' /\ Open(s)
      BY <2>3, <2>4, StepFrame DEF Open
    <3>2. ~Open(r)
      BY <2>1, <2>4, <3>1 DEF SerialInv
    <3> QED
      BY <2>4, <3>1, <3>2, StepFrame DEF Commit, Open
  <2>5. CASE UNCHANGED <<pc, req, tx>> /\ (AddLine \/ UNCHANGED database)
    <3>1. ASSUME AddLine PROVE \A r \in Requests : ~Open(r)
      <4>1. stage' # stage
        BY <3>1, GraphAssumption, CardAssumption
           DEF AddLine, Lines, TypeOK, LineStages
      <4> QED
        BY <2>1, <2>5, <4>1 DEF LineAddedMeanwhile, OpenRequests
    <3>2. CASE UNCHANGED database
      BY <2>1, <2>5, <3>2
         DEF database, SerialInv, Current, Open, Kind, AgreedFor, Lines, View, Quoted, Inserted
    <3> QED
      BY <2>5, <3>1, <3>2 DEF Open
  <2>6. CASE \E r \in Requests : Load(r) \/ Step(r) \/ Crash(r)
    <3>1. PICK r \in Requests : Load(r) \/ Step(r) \/ Crash(r)
      BY <2>6
    <3>2. ASSUME NEW s \in Requests, Open(s)', s # r
          PROVE  Current(s)'
      <4>1. Open(s) /\ UNCHANGED database /\ pc'[s] = pc[s] /\ req'[s] = req[s]
              /\ tx'[s] = tx[s]
        BY <2>4, <3>1, <3>2
      <4>2. Kind(s)' = Kind(s) /\ Quoted(s)' = Quoted(s)
        BY <4>1 DEF Kind, Quoted, Inserted, database
      <4>3. \A status : AgreedFor(s, status)' <=> AgreedFor(s, status)
        BY <4>1, <4>2 DEF AgreedFor, Lines, View, database
      <4> QED
        BY <2>1, <4>1, <4>2, <4>3 DEF SerialInv, Current, database
    <3> QED
      BY <2>1, <2>3, <3>1, <3>2, SerialStep
  <2> QED
    BY <2>1, <2>5, <2>6, NextFrame
<1> QED
  BY <1>1, <1>2

LEMMA CommitKeepsSerially ==
  ASSUME TypeOK, TypeOK', EarlyInv, DraftInv, QuotingInv, LastInv, LoadedInv, ClosingInv,
         SerialInv, QuoteDecidesNothing, ~overlapped, NEW r \in Requests, Commit(r)
  PROVE  KeepsInStep /\ KeepsClosed /\ CancelsOpen
<1>1. Open(r) /\ pc[r] = "ready" /\ tx[r] \in Memory
  BY RequestType DEF Commit, Open
<1>2. tx[r].loaded \in {"none", cardStatus}
  BY <1>1 DEF SerialInv, Current
<1>3. KeepsInStep
  <2> SUFFICES ASSUME NEW l \in Lines, stage'[l] # stage[l],
                      NEW status \in Statuses, AgreedOn(status)'
               PROVE  cardStatus' = status
    BY DEF KeepsInStep, LineMoved
  <2>1. l \in LineNos /\ stage'[l] = View(r, l) /\ tx[r].draft[l] # NoStage
    BY DEF Commit, Lines, View
  <2>2. \A k \in LineNos : stage'[k] = View(r, k)
    BY DEF Commit
  <2>3. Lines' = Lines
    BY <2>2 DEF Lines, View, DraftInv
  <2>4. CASE Kind(r) = "upload"
    <3>1. PICK rule \in Rules : rule.action = "quote" /\ rule.to = tx[r].draft[l]
      BY <1>1, <2>1, <2>4 DEF QuotingInv
    <3>2. Outcome(stage'[l], revisions' > 0) = "none"
      BY <2>1, <3>1 DEF View, Outcome, QuoteDecidesNothing
    <3> QED
      BY <2>3, <3>2 DEF AgreedOn, Statuses
  <2>5. CASE Kind(r) # "upload"
    <3>1. revisions' = revisions /\ (Quoted(r) <=> revisions > 0)
      BY <2>5 DEF Commit, Inserted, Quoted
    <3>2. AgreedFor(r, status)
      <4>1. \A k \in Lines : Outcome(View(r, k), revisions > 0) = status
        BY <2>2, <2>3, <3>1 DEF AgreedOn, Lines
      <4>2. Quoted(r) = (revisions > 0)
        BY <3>1 DEF Quoted
      <4> QED
        BY <4>1, <4>2 DEF AgreedFor
    <3>3. tx[r].draft # NoLines
      BY <2>1 DEF NoLines
    <3>4. status = IF tx[r].card = "none" THEN cardStatus ELSE tx[r].card
      BY <1>1, <2>5, <3>2, <3>3 DEF SerialInv, Current
    <3> QED
      BY <3>4 DEF Commit
  <2> QED
    BY <2>4, <2>5
<1>4. KeepsClosed
  <2> SUFFICES ASSUME revisions' > revisions, cardStatus' # cardStatus
               PROVE  cardStatus \in {"open", "rework"}
    BY DEF KeepsClosed
  <2>1. Kind(r) = "upload" /\ tx[r].card # "none"
    BY DEF Commit, Inserted, TypeOK
  <2> QED
    BY <1>2, <2>1 DEF ClosingInv, Quotable
<1>5. CancelsOpen
  <2> SUFFICES ASSUME notes' > notes PROVE cardStatus # "cancelled"
    BY DEF CancelsOpen
  <2>1. Kind(r) = "cancel"
    BY DEF Commit, TypeOK
  <2> QED
    BY <1>1, <1>2, <2>1 DEF ClosingInv, Statuses
<1> QED
  BY <1>3, <1>4, <1>5

LEMMA HistoryIsSpec == HistorySpec => Spec
<1>1. HistoryInit => Init
  BY DEF HistoryInit
<1>2. [HistoryNext]_historyVars => [Next]_vars
  BY DEF HistoryNext, historyVars
<1> QED
  BY <1>1, <1>2, PTL DEF HistorySpec, Spec

LEMMA SerialInvariant ==
  ASSUME QuoteDecidesNothing
  PROVE  HistorySpec => [](LoadedInv /\ ClosingInv /\ SerialInv)
<1>1. HistoryInit => LoadedInv /\ ClosingInv /\ SerialInv
  BY DEF HistoryInit, Init, LoadedInv, ClosingInv, SerialInv, Open, Blank, Writing
<1>2. TypeOK /\ TypeOK' /\ EarlyInv /\ DraftInv /\ QuotingInv /\ LastInv
        /\ LoadedInv /\ ClosingInv /\ SerialInv /\ [HistoryNext]_historyVars
      => LoadedInv' /\ ClosingInv' /\ SerialInv'
  <2> SUFFICES ASSUME TypeOK, TypeOK', EarlyInv, DraftInv, QuotingInv, LastInv,
                      LoadedInv, ClosingInv, SerialInv, [HistoryNext]_historyVars
               PROVE  LoadedInv' /\ ClosingInv'
    BY NextSerial
  <2>1. [Next]_vars
    BY DEF HistoryNext, historyVars
  <2>2. CASE UNCHANGED <<pc, req, tx>>
    BY <2>2 DEF LoadedInv, ClosingInv, Kind, Open, Quotable
  <2> QED
    BY <2>1, <2>2, NextFrame, StepLoaded, StepClosing
<1> QED
  BY <1>1, <1>2, HistoryIsSpec, LastInvariant, NextType, InitType, PTL DEF HistorySpec, Spec

\* As long as requests run one at a time the docstrings hold: the cascade
\* keeps the card in step with its lines, an upload leaves a decided card
\* alone, and a cancelled card is not cancelled again.
THEOREM SerialCardIsKept ==
  ASSUME QuoteDecidesNothing
  PROVE  HistorySpec => KeptSerially
<1>1. ASSUME TypeOK, TypeOK', EarlyInv, DraftInv, QuotingInv, LastInv, LoadedInv,
             ClosingInv, SerialInv, [HistoryNext]_historyVars
      PROVE  [overlapped' \/ (KeepsInStep /\ KeepsClosed /\ CancelsOpen)]_historyVars
  <2> SUFFICES ASSUME HistoryNext, ~overlapped'
               PROVE  KeepsInStep /\ KeepsClosed /\ CancelsOpen
    BY <1>1
  <2>1. ~overlapped /\ [Next]_vars
    BY DEF HistoryNext
  <2>2. CASE \E r \in Requests : Commit(r)
    BY <1>1, <2>1, <2>2, CommitKeepsSerially
  <2>3. CASE UNCHANGED <<cardStatus, revisions, notes>> /\ \A l \in Lines : stage'[l] = stage[l]
    BY <1>1, <2>3 DEF KeepsInStep, LineMoved, KeepsClosed, CancelsOpen, TypeOK
  <2>4. \/ \E r \in Requests : Commit(r)
        \/ UNCHANGED <<cardStatus, revisions, notes>> /\ \A l \in Lines : stage'[l] = stage[l]
    BY <1>1, <2>1, NextFrame, StepFrame
       DEF AddLine, database, Lines, TypeOK, LineStages
  <2> QED
    BY <2>2, <2>3, <2>4
<1> QED
  BY <1>1, HistoryIsSpec, LastInvariant, SerialInvariant, NextType, InitType, PTL
     DEF HistorySpec, Spec, KeptSerially
=============================================================================
