----------------------- MODULE TransitionEngineProofs -----------------------
(***************************************************************************)
(* What TransitionEngine guarantees for every number of lines, users and   *)
(* concurrent requests, and every stage graph.                             *)
(***************************************************************************)
EXTENDS TransitionEngine, FiniteSetTheorems, TLAPS

---------------------------------------------------------------------------
\* The inductive invariant, in parts.

\* A request past _serialise_on holds its line's FOR UPDATE lock, and
\* KEY SHARE is only ever held under FOR UPDATE.
LockInv ==
  /\ \A r \in Requests : pc[r] \in Locking => owner[Line(r)] = r
  /\ \A l \in Lines : \A r \in sharers[l] : owner[l] = r

\* Past the trigger, the line stands where the request saw it.
AppliedInv ==
  \A r \in Requests : pc[r] = "applied" => stage[Line(r)] = seen[r]

\* A request that has not committed has written no row.
FreshInv ==
  \A r \in Requests : pc[r] \in Open \cup {"idle"} =>
    \A l \in Lines : \A i \in 1..Len(history[l]) : history[l][i].id # r

\* A permitted move keeps the rule that permits it: nothing takes a PDF off
\* a card, and the request's own reads do not change.
JudgedInv ==
  \A r \in Requests : pc[r] \in Locking \cup {"permitted"} =>
    \E rule \in Candidates(r) : dest[r] = rule.to /\ Judged(r, rule) = "permit"

\* Ids are drawn under the line's lock: a row about to be committed has a
\* larger one than any row its line has.
SerialInv ==
  /\ \A r \in Requests : serial[r] <= drawn
  /\ \A r \in Requests : pc[r] \in {"inserting", "applied"} =>
       \A i \in 1..Len(history[Line(r)]) : serial[history[Line(r)][i].id] < serial[r]

\* The stage a request saw is one its line has stood at, and at some moment
\* since, the mover it read had made the last move, unless that move was
\* overtaken.
SawAt(r, n) == \E m \in 0..n : StageAfter(Line(r), m) = seen[r]

MoverAt(r, n) ==
  \/ n = 0
  \/ mover[r] = history[Line(r)][n].by
  \/ Overtaken(Line(r), n)

VisitInv ==
  \A r \in Requests :
    /\ pc[r] \in Looked => SawAt(r, Len(history[Line(r)]))
    /\ pc[r] \in Looked \ {"loaded"} =>
         \E n \in 0..Len(history[Line(r)]) : SawAt(r, n) /\ MoverAt(r, n)

---------------------------------------------------------------------------
\* Type correctness.

LEMMA RefuseType ==
  ASSUME TypeOK, NEW r \in Requests, NEW answer \in Refusals, Refuse(r, answer)
  PROVE  TypeOK'
BY DEF TypeOK, Refuse, Release, database, order, times, ids, Points

LEMMA InitType == Init => TypeOK
<1> SUFFICES ASSUME Init PROVE TypeOK
  OBVIOUS
<1>1. AnyInput \in Input
  BY EngineAssumption DEF AnyInput
<1>2. <<>> \in Seq(Move)
  OBVIOUS
<1> QED
  BY <1>1, <1>2, GraphAssumption DEF Init, TypeOK, Points

LEMMA LineType ==
  ASSUME TypeOK, NEW r \in Requests
  PROVE  Line(r) \in Lines
BY DEF TypeOK, Line, Input

LEMMA NewRowType ==
  ASSUME TypeOK, NEW r \in Requests
  PROVE  NewRow(r) \in Move
BY DEF TypeOK, NewRow, Move, Input

LEMMA RowType ==
  ASSUME TypeOK, NEW l \in Lines
  PROVE  /\ Len(history[l]) \in Nat /\ DOMAIN history[l] = 1..Len(history[l])
         /\ \A i \in DOMAIN history[l] : history[l][i] \in Move /\ history[l][i].id \in Requests
<1>1. history[l] \in Seq(Move)
  BY DEF TypeOK
<1>2. \A i \in DOMAIN history[l] : history[l][i] \in Move
  BY <1>1
<1> QED
  BY <1>1, <1>2 DEF Move

LEMMA MoverType ==
  ASSUME TypeOK, NEW l \in Lines
  PROVE  LatestMover(l) \in Users \cup {NoOne}
<1>2. CASE Newest(l) # {}
  <2>1. PICK i \in Newest(l) : i = CHOOSE k \in Newest(l) : TRUE
    BY <1>2
  <2>2. history[l][i] \in Move
    BY <2>1, RowType DEF Newest
  <2> QED
    BY <1>2, <2>1, <2>2 DEF LatestMover, Move
<1> QED
  BY <1>2 DEF LatestMover

LEMMA CandidateType ==
  ASSUME NEW r \in Requests, NEW rule \in Candidates(r)
  PROVE  rule \in Rules /\ rule \in Rule /\ rule.to \in Stages
BY GraphAssumption DEF Candidates, CandidateRules, Rule

\* What a request's step can be, with the refusals of every action in one
\* case.
LEMMA StepCases ==
  ASSUME NEW r \in Requests, Step(r) \/ Crash(r)
  PROVE  \/ pc[r] \in Open /\ \E answer \in Refusals : Refuse(r, answer)
         \/ Begin(r)
         \/ Load(r)
         \/ pc[r] = "loaded" /\ ReadMover(r)
         \/ /\ pc[r] = "judging"
            /\ \E rule \in Candidates(r) : Judged(r, rule) = "permit" /\ Permit(r, rule)
         \/ SerialiseOn(r)
         \/ InsertRow(r)
         \/ pc[r] = "inserting" /\ CanForUpdate(r, Line(r)) /\ ~Stale(r) /\ Accept(r)
         \/ Commit(r)
         \/ Answer(r)
BY DEF Step, Crash, FindRules, Judge, ApplyTransition, Refusals, Open

LEMMA StepType ==
  ASSUME TypeOK, NEW r \in Requests, Step(r) \/ Crash(r)
  PROVE  TypeOK'
<1> USE DEF TypeOK, database, locks, order, times, ids, Points
<1>1. CASE \E answer \in Refusals : Refuse(r, answer)
  BY <1>1, RefuseType
<1>2. CASE Load(r)
  BY <1>2, EngineAssumption DEF Load, Input
<1>3. CASE ReadMover(r)
  <2>1. LatestMover(Line(r)) \in Users \cup {NoOne}
    BY MoverType, LineType
  <2> QED
    BY <1>3, <2>1 DEF ReadMover
<1>4. CASE \E rule \in Candidates(r) : Permit(r, rule)
  BY <1>4, CandidateType DEF Permit
<1>5. CASE SerialiseOn(r)
  BY <1>5, LineType DEF SerialiseOn
<1>6. CASE InsertRow(r)
  BY <1>6, LineType DEF InsertRow
<1>7. CASE Accept(r)
  BY <1>7, LineType DEF Accept
<1>8. CASE Commit(r)
  <2>1. Line(r) \in Lines /\ dest[r] \in Stages
    BY LineType
  <2>2. Append(history[Line(r)], NewRow(r)) \in Seq(Move)
    BY <2>1, NewRowType
  <2> QED
    BY <1>8, <2>1, <2>2 DEF Commit, Release
<1>9. CASE Answer(r)
  BY <1>9 DEF Answer, Refusals
<1>10. CASE Begin(r)
  BY <1>10 DEF Begin
<1> QED
  BY <1>1, <1>2, <1>3, <1>4, <1>5, <1>6, <1>7, <1>8, <1>9, <1>10, StepCases

LEMMA NextType == TypeOK /\ [Next]_vars => TypeOK'
<1> SUFFICES ASSUME TypeOK, [Next]_vars PROVE TypeOK'
  OBVIOUS
<1>1. CASE \E l \in Lines : AttachPdf(l)
  BY <1>1 DEF TypeOK, AttachPdf, locks, order, times, ids
<1>2. CASE UNCHANGED vars
  BY <1>2 DEF TypeOK, vars, database, locks, order, times, ids
<1> QED
  BY <1>1, <1>2, StepType DEF Next, Finished

\* Every variable keeps its type: in particular only users perform moves,
\* and only requests hold locks.
THEOREM TypeCorrect == Spec => []TypeOK
BY InitType, NextType, PTL DEF Spec

---------------------------------------------------------------------------
\* Locks.

\* A request that leaves the locking phase releases what it holds, and
\* nobody else's lock.
LEMMA ReleaseLock ==
  ASSUME TypeOK, LockInv, NEW r \in Requests, Release(r), req' = req,
         NEW point \in {"answering", "done"}, pc' = [pc EXCEPT ![r] = point]
  PROVE  LockInv'
<1>1. \A s \in Requests : pc'[s] \in Locking => owner'[Line(s)'] = s
  <2> SUFFICES ASSUME NEW s \in Requests, pc'[s] \in Locking
               PROVE  owner'[Line(s)'] = s
    OBVIOUS
  <2>1. s # r /\ pc[s] \in Locking
    BY DEF TypeOK, Locking
  <2>2. owner[Line(s)] = s /\ Line(s)' = Line(s)
    BY <2>1 DEF LockInv, Line
  <2> QED
    BY <2>1, <2>2, LineType DEF Release
<1>2. \A l \in Lines : \A s \in sharers'[l] : owner'[l] = s
  BY DEF Release, LockInv
<1> QED
  BY <1>1, <1>2 DEF LockInv

LEMMA RefuseLock ==
  ASSUME TypeOK, LockInv, NEW r \in Requests, NEW answer \in Refusals, Refuse(r, answer)
  PROVE  LockInv'
BY ReleaseLock DEF Refuse

LEMMA StepLock ==
  ASSUME TypeOK, LockInv, NEW r \in Requests, Step(r) \/ Crash(r)
  PROVE  LockInv'
<1> USE DEF TypeOK, LockInv, database, locks, Points, Locking
<1>1. CASE \E answer \in Refusals : Refuse(r, answer)
  BY <1>1, RefuseLock
<1>2. CASE Load(r)
  BY <1>2 DEF Load, Line
<1>3. CASE ReadMover(r)
  BY <1>3 DEF ReadMover, Line
<1>4. CASE \E rule \in Candidates(r) : Permit(r, rule)
  BY <1>4 DEF Permit, Line
<1>5. CASE SerialiseOn(r)
  <2>1. \A s \in Requests : pc[s] \in Locking /\ Line(s) = Line(r) => s = r
    BY <1>5, EngineAssumption DEF SerialiseOn, CanForUpdate
  <2> QED
    BY <1>5, <2>1, LineType DEF SerialiseOn, CanForUpdate, Line
<1>6. CASE InsertRow(r)
  BY <1>6, LineType DEF InsertRow, Line
<1>7. CASE pc[r] = "inserting" /\ Accept(r)
  BY <1>7, LineType DEF Accept, Line
<1>8. CASE Commit(r)
  BY <1>8, ReleaseLock DEF Commit
<1>9. CASE Answer(r)
  BY <1>9 DEF Answer, Line
<1>10. CASE Begin(r)
  BY <1>10 DEF Begin, Line
<1> QED
  BY <1>1, <1>2, <1>3, <1>4, <1>5, <1>6, <1>7, <1>8, <1>9, <1>10, StepCases

LEMMA InitLock == Init => LockInv
BY DEF Init, LockInv, Locking

LEMMA NextLock == TypeOK /\ LockInv /\ [Next]_vars => LockInv'
<1> SUFFICES ASSUME TypeOK, LockInv, [Next]_vars PROVE LockInv'
  OBVIOUS
<1>1. CASE \E l \in Lines : AttachPdf(l)
  BY <1>1 DEF LockInv, AttachPdf, locks, Line
<1>2. CASE UNCHANGED vars
  BY <1>2 DEF LockInv, vars, locks, Line
<1> QED
  BY <1>1, <1>2, StepLock DEF Next, Finished

LEMMA LockInvariant == Spec => [](TypeOK /\ LockInv)
BY InitType, NextType, InitLock, NextLock, PTL DEF Spec

\* Two writers of one line queue on FOR UPDATE: the trigger's own FOR UPDATE
\* never has to wait, so the KEY SHARE upgrade cannot deadlock.
THEOREM NoUpgradeDeadlock == Spec => []TriggerNeverWaits
<1>1. TypeOK /\ LockInv => TriggerNeverWaits
  <2> SUFFICES ASSUME TypeOK, LockInv, NEW r \in Requests, pc[r] = "inserting"
               PROVE  CanForUpdate(r, Line(r))
    BY DEF TriggerNeverWaits
  <2>1. owner[Line(r)] = r
    BY DEF LockInv, Locking
  <2>2. sharers[Line(r)] \subseteq {r}
    BY <2>1, LineType DEF LockInv, TypeOK
  <2> QED
    BY <2>1, <2>2 DEF CanForUpdate
<1> QED
  BY <1>1, LockInvariant, PTL

---------------------------------------------------------------------------
\* What a commit does to the history.

LEMMA OnlyCommitWrites ==
  ASSUME [Next]_vars
  PROVE  UNCHANGED <<stage, history>> \/ \E r \in Requests : Commit(r)
<1>1. ASSUME NEW r \in Requests, Step(r) \/ Crash(r)
      PROVE  UNCHANGED <<stage, history>> \/ Commit(r)
  BY <1>1, StepCases
     DEF Refuse, Begin, Load, ReadMover, Permit, SerialiseOn, InsertRow, Accept, Answer, database
<1> QED
  BY <1>1 DEF Next, AttachPdf, Finished, vars, database

LEMMA CommitEffect ==
  ASSUME TypeOK, NEW r \in Requests, Commit(r)
  PROVE  /\ Len(history'[Line(r)]) = Len(history[Line(r)]) + 1
         /\ history'[Line(r)][Len(history[Line(r)]) + 1] = NewRow(r)
         /\ \A i \in 1..Len(history[Line(r)]) :
               history'[Line(r)][i] = history[Line(r)][i]
         /\ \A l \in Lines \ {Line(r)} :
               history'[l] = history[l] /\ stage'[l] = stage[l]
         /\ stage'[Line(r)] = dest[r]
         /\ \A l \in Lines : Len(history[l]) \in Nat
<1>1. Line(r) \in Lines
  BY LineType
<1>2. history[Line(r)] \in Seq(Move) /\ NewRow(r) \in Move
  BY <1>1, NewRowType DEF TypeOK
<1>3. history'[Line(r)] = Append(history[Line(r)], NewRow(r))
  BY <1>1 DEF Commit, TypeOK
<1>4. \A l \in Lines : Len(history[l]) \in Nat
  BY DEF TypeOK
<1>5. \A l \in Lines \ {Line(r)} : history'[l] = history[l] /\ stage'[l] = stage[l]
  BY <1>1 DEF Commit, TypeOK
<1>6. stage'[Line(r)] = dest[r]
  BY <1>1 DEF Commit, TypeOK
<1> QED
  BY <1>2, <1>3, <1>4, <1>5, <1>6

LEMMA CommitKeepsPast ==
  ASSUME TypeOK, NEW r \in Requests, Commit(r), NEW l \in Lines,
         NEW i \in 0..Len(history[l])
  PROVE  /\ StageAfter(l, i)' = StageAfter(l, i)
         /\ i # 0 => history'[l][i] = history[l][i]
         /\ i \in 0..Len(history'[l])
BY CommitEffect DEF StageAfter

---------------------------------------------------------------------------
\* A request that has not committed is not on record.

LEMMA NextFresh == TypeOK /\ FreshInv /\ [Next]_vars => FreshInv'
<1> SUFFICES ASSUME TypeOK, FreshInv, [Next]_vars,
                    NEW s \in Requests, pc'[s] \in Open \cup {"idle"},
                    NEW l \in Lines, NEW i \in 1..Len(history'[l])
             PROVE  history'[l][i].id # s
  BY DEF FreshInv
<1> USE DEF TypeOK, FreshInv, Open
<1>1. ASSUME NEW r \in Requests, Commit(r) PROVE history'[l][i].id # s
  <2>1. s # r /\ pc[s] \in Open \cup {"idle"}
    BY <1>1 DEF Commit
  <2>2. CASE i \in 1..Len(history[l])
    <3>1. history[l][i].id # s
      BY <2>1, <2>2
    <3>2. history'[l][i] = history[l][i]
      <4> HIDE DEF TypeOK, FreshInv
      <4> QED
        BY <1>1, <2>2, CommitEffect
    <3> QED
      BY <3>1, <3>2
  <2>3. CASE i = Len(history[l]) + 1 /\ l = Line(r)
    <3>1. history'[l][i] = NewRow(r)
      BY <1>1, <2>3, CommitEffect
    <3> QED
      BY <2>1, <3>1 DEF NewRow
  <2>4. Len(history[l]) \in Nat
    OBVIOUS
  <2>5. i \in 1..Len(history[l]) \/ (i = Len(history[l]) + 1 /\ l = Line(r))
    <3>1. CASE l = Line(r)
      BY <1>1, <2>4, <3>1, CommitEffect
    <3>2. CASE l # Line(r)
      BY <1>1, <3>2, CommitEffect
    <3> QED
      BY <3>1, <3>2
  <2> QED
    BY <2>2, <2>3, <2>5
<1>2. ASSUME UNCHANGED <<stage, history>> PROVE history'[l][i].id # s
  <2>1. ASSUME NEW r \in Requests, Step(r) \/ Crash(r)
        PROVE  pc[s] \in Open \cup {"idle"}
    BY <2>1, StepCases
       DEF Refuse, Begin, Load, ReadMover, Permit, SerialiseOn, InsertRow, Accept, Commit, Answer
  <2>2. pc[s] \in Open \cup {"idle"}
    BY <2>1 DEF Next, AttachPdf, Finished, vars
  <2> QED
    BY <1>2, <2>2
<1> QED
  BY <1>1, <1>2, OnlyCommitWrites

LEMMA FreshInvariant == Spec => [](TypeOK /\ FreshInv)
<1>1. Init => FreshInv
  BY DEF Init, FreshInv
<1> QED
  BY <1>1, InitType, NextType, NextFresh, PTL DEF Spec

\* What is on record keeps its place in the order the code reads it in.
LEMMA OrderKept ==
  ASSUME TypeOK, FreshInv, [Next]_vars, NEW l \in Lines, NEW i \in 1..Len(history[l])
  PROVE  /\ history[l][i].id \in Requests
         /\ stamp'[history[l][i].id] = stamp[history[l][i].id]
         /\ serial'[history[l][i].id] = serial[history[l][i].id]
<1> DEFINE id == history[l][i].id
<1>1. id \in Requests
  BY RowType
<1>2. ASSUME NEW r \in Requests, Begin(r) \/ InsertRow(r) PROVE id # r
  BY <1>2 DEF FreshInv, Begin, InsertRow, Open
<1>3. ASSUME NEW r \in Requests, Step(r) \/ Crash(r)
      PROVE  stamp'[id] = stamp[id] /\ serial'[id] = serial[id]
  <2>1. CASE Begin(r)
    BY <1>1, <1>2, <2>1 DEF Begin, TypeOK, ids
  <2>3. CASE InsertRow(r)
    BY <1>1, <1>2, <2>3 DEF InsertRow, TypeOK, times
  <2>2. CASE ~(Begin(r) \/ InsertRow(r))
    BY <1>3, <2>2, StepCases
       DEF Refuse, Load, ReadMover, Permit, SerialiseOn, Accept, Commit, Answer,
           order, times, ids
  <2> QED
    BY <2>1, <2>2, <2>3
<1> QED
  BY <1>1, <1>3 DEF Next, AttachPdf, Finished, vars, order, times, ids

---------------------------------------------------------------------------
\* The history is a walk.

LEMMA NextApplied ==
  TypeOK /\ LockInv /\ AppliedInv /\ [Next]_vars => AppliedInv'
<1> SUFFICES ASSUME TypeOK, LockInv, AppliedInv, [Next]_vars,
                    NEW s \in Requests, pc'[s] = "applied"
             PROVE  stage'[Line(s)'] = seen'[s]
  BY DEF AppliedInv
<1> USE DEF TypeOK, AppliedInv, database, locks, Points, Line
<1>1. ASSUME NEW r \in Requests, Commit(r) PROVE stage'[Line(s)'] = seen'[s]
  <2>1. s # r /\ pc[s] = "applied" /\ pc[r] = "applied"
    BY <1>1 DEF Commit
  <2>2. Line(s) # Line(r)
    BY <2>1 DEF LockInv, Locking
  <2>3. stage'[Line(s)] = stage[Line(s)]
    BY <1>1, <2>2, LineType, CommitEffect
  <2> QED
    BY <1>1, <2>1, <2>3 DEF Commit
<1>2. ASSUME NEW r \in Requests, pc[r] = "inserting", ~Stale(r), Accept(r)
      PROVE  stage'[Line(s)'] = seen'[s]
  BY <1>2 DEF Accept, Stale
<1>3. ASSUME NEW r \in Requests, Step(r) \/ Crash(r)
      PROVE  stage'[Line(s)'] = seen'[s]
  <2>1. CASE Begin(r)
    BY <2>1 DEF Begin
  <2>3. CASE Load(r)
    BY <2>3 DEF Load
  <2>2. CASE ~(Begin(r) \/ Load(r))
    <3>1. pc \in [Requests -> Points] /\ (pc[s] = "applied" => stage[Line(s)] = seen[s])
      OBVIOUS
    <3> HIDE DEF TypeOK, AppliedInv
    <3> QED
      BY <1>1, <1>2, <1>3, <2>2, <3>1, StepCases
         DEF Refuse, ReadMover, Permit, SerialiseOn, InsertRow, Answer
  <2> QED
    BY <2>1, <2>2, <2>3
<1> QED
  BY <1>3 DEF Next, AttachPdf, Finished, vars

\* HistoryIsWalk in its two parts.
Chained ==
  \A l \in Lines :
    /\ \A i \in 1..Len(history[l]) : history[l][i].from = StageAfter(l, i - 1)
    /\ stage[l] = StageAfter(l, Len(history[l]))

IdsGrow ==
  \A l \in Lines : \A i \in 1..Len(history[l]) : \A j \in 1..(i - 1) :
    serial[history[l][j].id] < serial[history[l][i].id]

LEMMA NextWalk ==
  TypeOK /\ AppliedInv /\ Chained /\ [Next]_vars => Chained'
<1> SUFFICES ASSUME TypeOK, AppliedInv, Chained, [Next]_vars
             PROVE  Chained'
  OBVIOUS
<1>1. CASE UNCHANGED <<stage, history>>
  BY <1>1 DEF Chained, StageAfter
<1>2. ASSUME NEW r \in Requests, Commit(r) PROVE Chained'
  <2> SUFFICES ASSUME NEW l \in Lines
               PROVE  /\ \A i \in 1..Len(history'[l]) :
                            history'[l][i].from = StageAfter(l, i - 1)'
                      /\ stage'[l] = StageAfter(l, Len(history[l]))'
    BY DEF Chained
  <2>1. CASE l # Line(r)
    BY <1>2, <2>1, CommitEffect DEF Chained, StageAfter
  <2>2. CASE l = Line(r)
    <3> DEFINE n == Len(history[l])
    <3>1. n \in Nat /\ Len(history'[l]) = n + 1
      BY <1>2, <2>2, CommitEffect
    <3>2. history'[l][n + 1] = NewRow(r)
      BY <1>2, <2>2, CommitEffect
    <3>3. NewRow(r).from = StageAfter(l, n)
      BY <1>2, <2>2 DEF NewRow, AppliedInv, Chained, Commit
    <3>4. \A i \in 0..n : StageAfter(l, i)' = StageAfter(l, i)
      BY <1>2, CommitKeepsPast
    <3>5. \A i \in 1..n : history'[l][i] = history[l][i]
      BY <1>2, <2>2, CommitEffect
    <3>6. ASSUME NEW i \in 1..(n + 1)
          PROVE  history'[l][i].from = StageAfter(l, i - 1)'
      <4>1. CASE i = n + 1
        BY <3>1, <3>2, <3>3, <3>4, <4>1
      <4>2. CASE i \in 1..n
        <5>1. history[l][i].from = StageAfter(l, i - 1) /\ i - 1 \in 0..n
          BY <3>1, <4>2 DEF Chained
        <5> QED
          BY <3>4, <3>5, <4>2, <5>1
      <4> QED
        BY <3>1, <4>1, <4>2
    <3>7. stage'[l] = StageAfter(l, Len(history[l]))'
      BY <1>2, <2>2, <3>1, <3>2, CommitEffect DEF StageAfter, NewRow
    <3> QED
      BY <3>1, <3>6, <3>7
  <2> QED
    BY <2>1, <2>2
<1> QED
  BY <1>1, <1>2, OnlyCommitWrites

\* How a request comes to hold an id, and nobody writes to its line while it
\* waits to commit.
LEMMA NextSerial ==
  TypeOK /\ LockInv /\ FreshInv /\ SerialInv /\ [Next]_vars => SerialInv'
<1> SUFFICES ASSUME TypeOK, LockInv, FreshInv, SerialInv, [Next]_vars PROVE SerialInv'
  OBVIOUS
<1>1. ASSUME NEW r \in Requests, Step(r) \/ Crash(r), NEW s \in Requests
      PROVE  serial'[s] <= drawn' /\ drawn <= drawn'
  <2>1. CASE InsertRow(r)
    BY <2>1 DEF InsertRow, SerialInv, TypeOK
  <2>2. CASE ~InsertRow(r)
    <3>1. UNCHANGED ids
      BY <1>1, <2>2, StepCases
         DEF Refuse, Begin, Load, ReadMover, Permit, SerialiseOn, Accept, Commit, Answer,
             order
    <3> QED
      BY <3>1 DEF ids, SerialInv, TypeOK
  <2> QED
    BY <2>1, <2>2
<1>2. \A s \in Requests : serial'[s] <= drawn'
  BY <1>1 DEF Next, AttachPdf, Finished, vars, order, ids, SerialInv
<1>3. ASSUME NEW s \in Requests, pc'[s] \in {"inserting", "applied"}
      PROVE  /\ req'[s] = req[s]
             /\ UNCHANGED <<stage, history>> \/ (\E r \in Requests \ {s} : Commit(r))
             /\ \/ pc[s] \in {"inserting", "applied"} /\ serial'[s] = serial[s]
                \/ serial'[s] = drawn + 1 /\ UNCHANGED <<stage, history>>
  <2>1. ASSUME NEW r \in Requests, Step(r) \/ Crash(r)
        PROVE  /\ req'[s] = req[s]
               /\ UNCHANGED <<stage, history>> \/ (Commit(r) /\ r # s)
               /\ \/ pc[s] \in {"inserting", "applied"} /\ serial'[s] = serial[s]
                  \/ serial'[s] = drawn + 1 /\ UNCHANGED <<stage, history>>
    BY <1>3, <2>1, StepCases
       DEF Refuse, Begin, Load, ReadMover, Permit, SerialiseOn, InsertRow, Accept, Commit,
           Answer, TypeOK, database, order, ids
  <2> QED
    BY <1>3, <2>1 DEF Next, AttachPdf, Finished, vars, database, order, ids
<1>4. ASSUME NEW s \in Requests, pc'[s] \in {"inserting", "applied"},
             NEW i \in 1..Len(history'[Line(s)'])
      PROVE  serial'[history'[Line(s)'][i].id] < serial'[s]
  <2>1. Line(s)' = Line(s) /\ Line(s) \in Lines
    BY <1>3, <1>4, LineType DEF Line
  <2>2. CASE UNCHANGED <<stage, history>>
    <3>1. i \in 1..Len(history[Line(s)])
      BY <1>4, <2>1, <2>2
    <3> DEFINE id == history[Line(s)][i].id
    <3>2. id \in Requests /\ serial'[id] = serial[id]
      BY <2>1, <3>1, OrderKept
    <3>3. serial[id] <= drawn /\ serial[id] \in Nat /\ drawn \in Nat
      BY <3>2 DEF SerialInv, TypeOK
    <3>4. serial[id] < serial'[s]
      BY <1>3, <1>4, <3>1, <3>3 DEF SerialInv
    <3> QED
      BY <2>1, <2>2, <3>2, <3>4
  <2>3. CASE \E r \in Requests \ {s} : Commit(r)
    <3>1. PICK r \in Requests \ {s} : Commit(r)
      BY <2>3
    <3>2. pc[s] \in {"inserting", "applied"} /\ pc[r] = "applied"
      BY <1>4, <3>1 DEF Commit, TypeOK
    <3>3. Line(s) # Line(r)
      BY <3>1, <3>2 DEF LockInv, Locking
    <3>4. history'[Line(s)] = history[Line(s)] /\ i \in 1..Len(history[Line(s)])
      BY <1>4, <2>1, <3>1, <3>3, CommitEffect
    <3>5. serial[history[Line(s)][i].id] < serial[s]
      BY <3>2, <3>4 DEF SerialInv
    <3>6. UNCHANGED serial
      BY <3>1 DEF Commit, order, ids
    <3> QED
      BY <2>1, <3>4, <3>5, <3>6
  <2> QED
    BY <1>3, <1>4, <2>2, <2>3
<1> QED
  BY <1>2, <1>4 DEF SerialInv

LEMMA NextIds ==
  TypeOK /\ FreshInv /\ SerialInv /\ IdsGrow /\ [Next]_vars => IdsGrow'
<1> SUFFICES ASSUME TypeOK, FreshInv, SerialInv, IdsGrow, [Next]_vars,
                    NEW l \in Lines, NEW i \in 1..Len(history'[l]), NEW j \in 1..(i - 1)
             PROVE  serial'[history'[l][j].id] < serial'[history'[l][i].id]
  BY DEF IdsGrow
<1>1. Len(history[l]) \in Nat /\ Len(history'[l]) \in Nat
  BY NextType DEF TypeOK
<1>2. ASSUME i \in 1..Len(history[l]), history'[l][i] = history[l][i],
             history'[l][j] = history[l][j]
      PROVE  serial'[history'[l][j].id] < serial'[history'[l][i].id]
  <2>1. i \in 1..Len(history[l]) /\ j \in 1..Len(history[l])
    BY <1>1, <1>2
  <2>2. serial'[history[l][i].id] = serial[history[l][i].id]
    BY <2>1, OrderKept
  <2>3. serial'[history[l][j].id] = serial[history[l][j].id]
    BY <2>1, OrderKept
  <2> QED
    BY <1>2, <2>2, <2>3 DEF IdsGrow
<1>3. CASE UNCHANGED <<stage, history>>
  BY <1>2, <1>3
<1>4. ASSUME NEW r \in Requests, Commit(r)
      PROVE  serial'[history'[l][j].id] < serial'[history'[l][i].id]
  <2>1. CASE l # Line(r)
    BY <1>2, <1>4, <2>1, CommitEffect
  <2>2. CASE i \in 1..Len(history[l])
    <3>1. i \in 1..Len(history[l]) /\ j \in 1..Len(history[l])
      BY <1>1, <2>2
    <3>2. \A k \in 1..Len(history[l]) : history'[l][k] = history[l][k]
      BY <1>4, CommitEffect
    <3> QED
      BY <1>2, <2>2, <3>1, <3>2
  <2>3. CASE l = Line(r) /\ i = Len(history[l]) + 1
    <3>1. history'[l][i] = NewRow(r) /\ j \in 1..Len(history[l])
      BY <1>1, <1>4, <2>3, CommitEffect
    <3>2. history'[l][j] = history[l][j]
      BY <1>4, <3>1, CommitEffect
    <3>3. serial[history[l][j].id] < serial[r]
      BY <1>4, <2>3, <3>1 DEF SerialInv, Commit
    <3>4. UNCHANGED serial
      BY <1>4 DEF Commit, order, ids
    <3>5. history'[l][i].id = r
      BY <3>1 DEF NewRow
    <3> QED
      BY <3>2, <3>3, <3>4, <3>5
  <2> QED
    BY <1>1, <1>4, <2>1, <2>2, <2>3, CommitEffect
<1> QED
  BY <1>3, <1>4, OnlyCommitWrites

WalkInv == LockInv /\ AppliedInv /\ FreshInv /\ SerialInv /\ Chained /\ IdsGrow

LEMMA WalkInvariant == Spec => [](TypeOK /\ WalkInv)
<1>1. Init => AppliedInv /\ FreshInv /\ SerialInv /\ Chained /\ IdsGrow
  BY DEF Init, AppliedInv, FreshInv, SerialInv, Chained, IdsGrow, StageAfter
<1>2. Init => TypeOK /\ WalkInv
  BY <1>1, InitType, InitLock DEF WalkInv
<1>3. TypeOK /\ WalkInv /\ [Next]_vars => TypeOK' /\ WalkInv'
  BY NextType, NextLock, NextApplied, NextFresh, NextSerial, NextWalk, NextIds DEF WalkInv
<1> QED
  BY <1>2, <1>3, PTL DEF Spec

\* However many requests race and in whatever order they began, the rows of a
\* line are by their ids a walk on the graph that ends where the line stands.
THEOREM HistoryWalks == Spec => []HistoryIsWalk
<1>1. WalkInv => HistoryIsWalk
  BY DEF WalkInv, Chained, IdsGrow, HistoryIsWalk
<1> QED
  BY <1>1, WalkInvariant, PTL

---------------------------------------------------------------------------
\* What the engine decided still stands when it commits.

Decided == Locking \cup {"permitted"}

\* A rule that permits goes on permitting while quotations only arrive.
LEMMA PermitLasts ==
  ASSUME NEW rule \in Rule, NEW user, NEW m, NEW note, NEW q \in BOOLEAN,
         NEW p \in BOOLEAN, q => p, Verdict(rule, user, m, note, q) = "permit"
  PROVE  Verdict(rule, user, m, note, p) = "permit"
BY DEF Verdict, ConditionVerdict, Rule, Conditions

\* What a permitting verdict says, one condition at a time.
LEMMA PermitMeans ==
  ASSUME NEW rule \in Rule, NEW user, NEW m, NEW note, NEW q \in BOOLEAN,
         Verdict(rule, user, m, note, q) = "permit"
  PROVE  /\ ~NoteMissing(rule, note)
         /\ ~SelfApproved(rule, user, m)
         /\ rule.condition = "none" \/ (rule.condition = "quoted" /\ q)
BY DEF Verdict, ConditionVerdict, Rule, Conditions

LEMMA QuotedGrows ==
  ASSUME TypeOK, [Next]_vars, NEW l \in Lines, quoted[l]
  PROVE  quoted'[l]
<1>1. ASSUME NEW r \in Requests, Step(r) \/ Crash(r) PROVE quoted' = quoted
  BY <1>1, StepCases
     DEF Refuse, Begin, Load, ReadMover, Permit, SerialiseOn, InsertRow, Accept, Commit,
         Answer, database
<1>2. ASSUME NEW k \in Lines, AttachPdf(k) PROVE quoted'[l]
  BY <1>2 DEF AttachPdf, TypeOK
<1> QED
  BY <1>1, <1>2 DEF Next, Finished, vars, database

\* A decision is made by Permit, and then kept until the request ends.
LEMMA DecisionKept ==
  ASSUME TypeOK, [Next]_vars, NEW s \in Requests, pc'[s] \in Decided
  PROVE  \/ /\ pc[s] \in Decided
            /\ dest'[s] = dest[s] /\ req'[s] = req[s]
            /\ seen'[s] = seen[s] /\ mover'[s] = mover[s]
         \/ /\ UNCHANGED <<database, req, seen, mover>>
            /\ \E rule \in Candidates(s) :
                  Judged(s, rule) = "permit" /\ dest'[s] = rule.to
<1> USE DEF TypeOK, database, locks, Points, Decided, Locking
<1>1. ASSUME NEW r \in Requests, r # s, Step(r) \/ Crash(r)
      PROVE  /\ pc[s] \in Decided
             /\ dest'[s] = dest[s] /\ req'[s] = req[s]
             /\ seen'[s] = seen[s] /\ mover'[s] = mover[s]
  BY <1>1, StepCases
     DEF Refuse, Begin, Load, ReadMover, Permit, SerialiseOn, InsertRow, Accept, Commit, Answer
<1>2. CASE Step(s) \/ Crash(s)
  <2>1. CASE \E rule \in Candidates(s) : Judged(s, rule) = "permit" /\ Permit(s, rule)
    BY <2>1 DEF Permit
  <2>2. CASE ~\E rule \in Candidates(s) : Judged(s, rule) = "permit" /\ Permit(s, rule)
    BY <1>2, <2>2, StepCases
       DEF Refuse, Begin, Load, ReadMover, SerialiseOn, InsertRow, Accept, Commit, Answer
  <2> QED
    BY <2>1, <2>2
<1>3. ASSUME NEW l \in Lines, AttachPdf(l)
      PROVE  UNCHANGED <<pc, dest, req, seen, mover>>
  BY <1>3 DEF AttachPdf
<1> QED
  BY <1>1, <1>2, <1>3 DEF Next, Finished, vars

LEMMA NextJudged == TypeOK /\ JudgedInv /\ [Next]_vars => JudgedInv'
<1> SUFFICES ASSUME TypeOK, JudgedInv, [Next]_vars, NEW s \in Requests, pc'[s] \in Decided
             PROVE  \E rule \in Candidates(s)' :
                       dest'[s] = rule.to /\ Judged(s, rule)' = "permit"
  BY DEF JudgedInv, Decided
<1>1. CASE /\ pc[s] \in Decided
           /\ dest'[s] = dest[s] /\ req'[s] = req[s]
           /\ seen'[s] = seen[s] /\ mover'[s] = mover[s]
  <2>1. PICK rule \in Candidates(s) : dest[s] = rule.to /\ Judged(s, rule) = "permit"
    BY <1>1 DEF JudgedInv, Decided
  <2>2. rule \in Rule /\ Line(s) \in Lines
    BY CandidateType, LineType
  <2>3. quoted[Line(s)] \in BOOLEAN /\ quoted'[Line(s)] \in BOOLEAN
        /\ (quoted[Line(s)] => quoted'[Line(s)])
    BY <2>2, QuotedGrows, NextType DEF TypeOK
  <2>4. Judged(s, rule)' = "permit"
    BY <1>1, <2>1, <2>2, <2>3, PermitLasts DEF Judged, Line
  <2>5. rule \in Candidates(s)'
    BY <1>1, <2>1 DEF Candidates
  <2> QED
    BY <1>1, <2>1, <2>4, <2>5
<1>2. CASE /\ UNCHANGED <<database, req, seen, mover>>
           /\ \E rule \in Candidates(s) :
                 Judged(s, rule) = "permit" /\ dest'[s] = rule.to
  BY <1>2 DEF Candidates, Judged, Line, database
<1> QED
  BY <1>1, <1>2, DecisionKept

\* The rule behind the row a commit writes.
LEMMA CommitRule ==
  ASSUME TypeOK, JudgedInv, NEW r \in Requests, Commit(r)
  PROVE  \E rule \in Candidates(r) :
           /\ rule \in Rules /\ rule \in Rule
           /\ dest[r] = rule.to
           /\ ~NoteMissing(rule, req[r].note)
           /\ ~SelfApproved(rule, req[r].user, mover[r])
           /\ rule.condition = "none" \/ (rule.condition = "quoted" /\ quoted[Line(r)])
<1>1. PICK rule \in Candidates(r) : dest[r] = rule.to /\ Judged(r, rule) = "permit"
  BY DEF JudgedInv, Commit, Locking
<1>2. rule \in Rules /\ rule \in Rule
  BY CandidateType
<1>3. quoted[Line(r)] \in BOOLEAN
  BY LineType DEF TypeOK
<1> QED
  BY <1>1, <1>2, <1>3, PermitMeans DEF Judged

---------------------------------------------------------------------------
\* Every move on record was authorised.

Authorised(row, q) ==
  \E rule \in Rules :
    /\ rule.from = row.from /\ rule.to = row.to /\ rule.action = row.action
    /\ rule.role \in RolesOf[row.by]
    /\ rule.needsNote => row.note
    /\ rule.condition = "none" \/ (rule.condition = "quoted" /\ q)

LEMMA NextAuthorised ==
  TypeOK /\ JudgedInv /\ MovesAuthorised /\ [Next]_vars => MovesAuthorised'
<1> SUFFICES ASSUME TypeOK, JudgedInv, MovesAuthorised, [Next]_vars,
                    NEW l \in Lines, NEW i \in 1..Len(history'[l])
             PROVE  Authorised(history'[l][i], quoted'[l])
  BY DEF MovesAuthorised, Authorised
<1>1. ASSUME NEW j \in 1..Len(history[l]) PROVE Authorised(history[l][j], quoted'[l])
  <2>1. Authorised(history[l][j], quoted[l])
    BY <1>1 DEF MovesAuthorised, Authorised
  <2> QED
    BY <2>1, QuotedGrows DEF Authorised
<1>2. CASE UNCHANGED <<stage, history>>
  BY <1>1, <1>2
<1>3. ASSUME NEW r \in Requests, Commit(r)
      PROVE  Authorised(history'[l][i], quoted'[l])
  <2>1. CASE l # Line(r)
    BY <1>1, <1>3, <2>1, CommitEffect
  <2>2. CASE l = Line(r) /\ i \in 1..Len(history[l])
    BY <1>1, <1>3, <2>2, CommitEffect
  <2>3. CASE l = Line(r) /\ i = Len(history[l]) + 1
    <3>1. history'[l][i] = NewRow(r) /\ quoted' = quoted
      BY <1>3, <2>3, CommitEffect DEF Commit
    <3>2. Authorised(NewRow(r), quoted[l])
      BY <1>3, <2>3, CommitRule
         DEF Authorised, NewRow, Candidates, CandidateRules, NoteMissing
    <3> QED
      BY <3>1, <3>2
  <2>4. Len(history[l]) \in Nat
    BY DEF TypeOK
  <2> QED
    BY <1>3, <2>1, <2>2, <2>3, <2>4, CommitEffect
<1> QED
  BY <1>2, <1>3, OnlyCommitWrites

LEMMA JudgedInvariant == Spec => [](TypeOK /\ JudgedInv)
<1>1. Init => JudgedInv
  BY DEF Init, JudgedInv, Locking
<1> QED
  BY <1>1, InitType, NextType, NextJudged, PTL DEF Spec

\* No interleaving records a move its user's roles, note and quotation did
\* not allow, although the decision is made before the line is locked.
THEOREM EveryMoveAuthorised == Spec => []MovesAuthorised
<1>1. Init => MovesAuthorised
  BY DEF Init, MovesAuthorised
<1> QED
  BY <1>1, JudgedInvariant, NextAuthorised, PTL DEF Spec

---------------------------------------------------------------------------
\* The engine implements LineHistory.

\* A commit is a move of the abstract specification.
LEMMA CommitIsAdvance ==
  ASSUME TypeOK, AppliedInv, JudgedInv, FreshInv, NEW r \in Requests, Commit(r)
  PROVE  LH!Next
<1> DEFINE l == Line(r)
<1>1. l \in Lines /\ req[r].user \in Users /\ req[r].action \in Actions
      /\ req[r].note \in BOOLEAN
  BY LineType DEF TypeOK, Input
<1>2. stage[l] = seen[r]
  BY DEF AppliedInv, Commit
<1>3. ~LH!Used(r)
  BY DEF LH!Used, FreshInv, Commit, Open
<1>4. PICK rule \in Candidates(r) :
        /\ dest[r] = rule.to
        /\ ~NoteMissing(rule, req[r].note)
        /\ rule.condition = "none" \/ (rule.condition = "quoted" /\ quoted[l])
  BY CommitRule
<1>5. rule \in LH!CandidateRules(req[r].user, stage[l], req[r].action)
  BY <1>2, <1>4 DEF Candidates, CandidateRules, LH!CandidateRules
<1>6. rule.condition # "broken" /\ ~LH!NoteMissing(rule, req[r].note)
  BY <1>4 DEF NoteMissing, LH!NoteMissing
<1>7. stage' = [stage EXCEPT ![l] = rule.to]
  BY <1>4 DEF Commit
<1>8. history' = [history EXCEPT ![l] = Append(@,
        [id |-> r, from |-> stage[l], to |-> rule.to, action |-> req[r].action,
         by |-> req[r].user, note |-> req[r].note])]
  BY <1>2, <1>4 DEF Commit, NewRow
<1>9. LH!Advance(l, r, req[r].user, req[r].action, req[r].note)
  BY <1>3, <1>5, <1>6, <1>7, <1>8 DEF LH!Advance
<1> QED
  BY <1>1, <1>9 DEF LH!Next

\* Seen through its committed rows the engine makes atomic moves: every
\* step is a move of LineHistory or changes nothing it speaks of.
THEOREM ImplementsAtomicMoves == Spec => AtomicMoves
<1>1. Init => LH!Init
  BY DEF Init, LH!Init
<1>2. TypeOK /\ AppliedInv /\ JudgedInv /\ FreshInv /\ [Next]_vars
        => [LH!Next]_LH!vars
  <2> SUFFICES ASSUME TypeOK, AppliedInv, JudgedInv, FreshInv, [Next]_vars
               PROVE  LH!Next \/ UNCHANGED <<stage, history>>
    BY DEF LH!vars
  <2> QED
    BY OnlyCommitWrites, CommitIsAdvance
<1>3. WalkInv => AppliedInv
  BY DEF WalkInv
<1> QED
  BY <1>1, <1>2, <1>3, WalkInvariant, JudgedInvariant, FreshInvariant, PTL
     DEF Spec, AtomicMoves, LH!Spec

---------------------------------------------------------------------------
\* Nothing moves a line out of a stage no rule leaves, however stale the
\* request that tries.
THEOREM DeadEndsStay == Spec => DeadEndsAreFinal
<1>1. TypeOK /\ AppliedInv /\ JudgedInv /\ [Next]_vars =>
        [\A l \in Lines : stage[l] \in DeadEnds => stage'[l] = stage[l]]_vars
  <2> SUFFICES ASSUME TypeOK, AppliedInv, JudgedInv, [Next]_vars,
                      NEW l \in Lines, stage[l] \in DeadEnds
               PROVE  stage'[l] = stage[l]
    OBVIOUS
  <2>1. ASSUME NEW r \in Requests, Commit(r) PROVE stage'[l] = stage[l]
    <3>1. CASE l # Line(r)
      BY <2>1, <3>1, CommitEffect
    <3>2. CASE l = Line(r)
      <4>1. PICK rule \in Candidates(r) : rule \in Rules
        BY <2>1, CommitRule
      <4>2. rule.from = stage[l]
        BY <2>1, <3>2, <4>1 DEF AppliedInv, Commit, Candidates, CandidateRules
      <4> QED
        BY <4>1, <4>2 DEF DeadEnds
    <3> QED
      BY <3>1, <3>2
  <2> QED
    BY <2>1, OnlyCommitWrites
<1>2. WalkInv => AppliedInv
  BY DEF WalkInv
<1> QED
  BY <1>1, <1>2, WalkInvariant, JudgedInvariant, PTL DEF Spec, DeadEndsAreFinal

---------------------------------------------------------------------------
\* The two-person rule.

\* Unless a line's last row was overtaken, it is the one the code reads.
LEMMA MoverRead ==
  ASSUME TypeOK, Chained, IdsGrow, NEW l \in Lines, Len(history[l]) # 0
  PROVE  LatestMover(l) = history[l][Len(history[l])].by \/ Overtaken(l, Len(history[l]))
<1> DEFINE n == Len(history[l])
           Id(i) == history[l][i].id
<1> SUFFICES ASSUME ~Overtaken(l, n) PROVE LatestMover(l) = history[l][n].by
  OBVIOUS
<1>1. n \in Nat /\ n \in 1..n /\ DOMAIN history[l] = 1..n
  BY DEF TypeOK
<1>2. \A i \in 1..n : Id(i) \in Requests
  BY RowType
<1>3. ASSUME NEW j \in 1..n, j # n
      PROVE  Newer(history[l][n], history[l][j]) /\ ~Newer(history[l][j], history[l][n])
  <2>1. j \in 1..(n - 1)
    BY <1>1, <1>3
  <2>2. ~(stamp[Id(j)] > stamp[Id(n)]) /\ serial[Id(j)] < serial[Id(n)]
    BY <1>1, <2>1 DEF Overtaken, IdsGrow
  <2>3. /\ stamp[Id(j)] \in Nat /\ stamp[Id(n)] \in Nat
        /\ serial[Id(j)] \in Nat /\ serial[Id(n)] \in Nat
    BY <1>1, <1>2, <1>3 DEF TypeOK
  <2> QED
    BY <2>2, <2>3 DEF Newer
<1>4. Newest(l) = {n}
  <2>1. n \in Newest(l)
    BY <1>1, <1>3 DEF Newest
  <2>2. ASSUME NEW i \in Newest(l) PROVE i = n
    <3> SUFFICES ASSUME i # n PROVE FALSE
      OBVIOUS
    <3>1. i \in 1..n /\ Newer(history[l][i], history[l][n])
      BY <1>1 DEF Newest
    <3> QED
      BY <1>3, <3>1
  <2> QED
    BY <2>1, <2>2
<1> QED
  BY <1>4 DEF LatestMover

\* What was true of a line's past stays true as its history grows.
LEMMA PastKept ==
  ASSUME TypeOK, [Next]_vars, NEW l \in Lines, NEW i \in 0..Len(history[l])
  PROVE  /\ StageAfter(l, i)' = StageAfter(l, i)
         /\ i # 0 => history'[l][i] = history[l][i]
         /\ i \in 0..Len(history'[l])
<1>1. CASE UNCHANGED <<stage, history>>
  BY <1>1 DEF StageAfter
<1> QED
  BY <1>1, OnlyCommitWrites, CommitKeepsPast

LEMMA OvertakenKept ==
  ASSUME TypeOK, FreshInv, [Next]_vars, NEW l \in Lines, NEW n \in 1..Len(history[l])
  PROVE  Overtaken(l, n)' <=> Overtaken(l, n)
<1>1. Len(history[l]) \in Nat
  BY DEF TypeOK
<1>2. ASSUME NEW j \in 1..n
      PROVE  /\ history'[l][j] = history[l][j]
             /\ stamp'[history[l][j].id] = stamp[history[l][j].id]
  <2>1. j \in 1..Len(history[l]) /\ j \in 0..Len(history[l]) /\ j # 0
    BY <1>1
  <2> QED
    BY <2>1, PastKept, OrderKept
<1>3. \A j \in 1..(n - 1) : j \in 1..n
  BY <1>1
<1>4. n \in 1..n
  BY <1>1
<1> QED
  BY <1>2, <1>3, <1>4 DEF Overtaken

LEMMA SawKept ==
  ASSUME TypeOK, [Next]_vars, NEW s \in Requests, req'[s] = req[s], seen'[s] = seen[s],
         NEW n \in 0..Len(history[Line(s)]), SawAt(s, n)
  PROVE  SawAt(s, n)'
<1>1. Line(s) \in Lines /\ Line(s)' = Line(s)
  BY LineType DEF Line
<1>2. Len(history[Line(s)]) \in Nat
  BY <1>1 DEF TypeOK
<1>3. PICK m \in 0..n : StageAfter(Line(s), m) = seen[s]
  BY DEF SawAt
<1>4. StageAfter(Line(s), m)' = seen[s]
  BY <1>1, <1>2, <1>3, PastKept
<1> QED
  BY <1>1, <1>3, <1>4 DEF SawAt, StageAfter

\* A request that has begun keeps what it asked for and what it saw.
LEMMA BegunKept ==
  ASSUME TypeOK, [Next]_vars, NEW s \in Requests, pc[s] \notin {"idle", "begun"}
  PROVE  req'[s] = req[s] /\ seen'[s] = seen[s]
<1>1. ASSUME NEW r \in Requests, Step(r) \/ Crash(r)
      PROVE  req'[s] = req[s] /\ seen'[s] = seen[s]
  BY <1>1, StepCases
     DEF Refuse, Begin, Load, ReadMover, Permit, SerialiseOn, InsertRow, Accept, Commit,
         Answer, TypeOK
<1> QED
  BY <1>1 DEF Next, AttachPdf, Finished, vars

\* How a request comes to be open, and past its second read.
LEMMA OpenFrom ==
  ASSUME TypeOK, [Next]_vars, NEW s \in Requests, pc'[s] \in Looked
  PROVE  pc[s] \in Looked \/ (Load(s) /\ pc'[s] = "loaded")
<1>1. ASSUME NEW r \in Requests, Step(r) \/ Crash(r)
      PROVE  pc[s] \in Looked \/ (Load(s) /\ pc'[s] = "loaded")
  BY <1>1, StepCases
     DEF Refuse, Begin, Load, ReadMover, Permit, SerialiseOn, InsertRow, Accept, Commit,
         Answer, TypeOK, Open, Looked
<1> QED
  BY <1>1 DEF Next, AttachPdf, Finished, vars

LEMMA JudgingFrom ==
  ASSUME TypeOK, [Next]_vars, NEW s \in Requests, pc'[s] \in Looked \ {"loaded"}
  PROVE  \/ pc[s] \in Looked \ {"loaded"} /\ mover'[s] = mover[s]
         \/ pc[s] = "loaded" /\ ReadMover(s)
<1>1. ASSUME NEW r \in Requests, Step(r) \/ Crash(r)
      PROVE  \/ pc[s] \in Looked \ {"loaded"} /\ mover'[s] = mover[s]
             \/ pc[s] = "loaded" /\ ReadMover(s)
  BY <1>1, StepCases
     DEF Refuse, Begin, Load, ReadMover, Permit, SerialiseOn, InsertRow, Accept, Commit,
         Answer, TypeOK, Open, Looked
<1> QED
  BY <1>1 DEF Next, AttachPdf, Finished, vars

\* VisitInv of one request as its line stands at length n.
VisitAt(r, n) == SawAt(r, n) /\ MoverAt(r, n)

LEMMA VisitKept ==
  ASSUME TypeOK, FreshInv, [Next]_vars, NEW s \in Requests,
         req'[s] = req[s], seen'[s] = seen[s], mover'[s] = mover[s],
         NEW n \in 0..Len(history[Line(s)]), VisitAt(s, n)
  PROVE  VisitAt(s, n)'
<1>1. Line(s) \in Lines /\ Line(s)' = Line(s)
  BY LineType DEF Line
<1>2. SawAt(s, n)'
  BY SawKept DEF VisitAt
<1>3. MoverAt(s, n)'
  <2>1. CASE n = 0
    BY <2>1 DEF MoverAt
  <2>2. CASE n # 0
    <3>1. n \in 1..Len(history[Line(s)])
      BY <1>1, <2>2 DEF TypeOK
    <3>2. history'[Line(s)][n] = history[Line(s)][n]
      BY <1>1, <2>2, PastKept
    <3>3. Overtaken(Line(s), n)' <=> Overtaken(Line(s), n)
      BY <1>1, <3>1, OvertakenKept
    <3>4. mover[s] = history[Line(s)][n].by \/ Overtaken(Line(s), n)
      BY <2>2 DEF VisitAt, MoverAt
    <3> QED
      BY <1>1, <3>2, <3>3, <3>4 DEF MoverAt, Overtaken
  <2> QED
    BY <2>1, <2>2
<1> QED
  BY <1>2, <1>3 DEF VisitAt

LEMMA NextVisit ==
  TypeOK /\ WalkInv /\ VisitInv /\ [Next]_vars => VisitInv'
<1> SUFFICES ASSUME TypeOK, WalkInv, VisitInv, [Next]_vars, NEW s \in Requests
             PROVE  /\ pc'[s] \in Looked => SawAt(s, Len(history[Line(s)]))'
                    /\ pc'[s] \in Looked \ {"loaded"} =>
                         (\E n \in 0..Len(history[Line(s)]) : VisitAt(s, n))'
  BY DEF VisitInv, VisitAt
<1>0. FreshInv /\ Chained /\ IdsGrow
  BY DEF WalkInv
<1>1. ASSUME pc[s] \in Looked, NEW n \in 0..Len(history[Line(s)])
      PROVE  /\ Line(s)' = Line(s) /\ Line(s) \in Lines
             /\ req'[s] = req[s] /\ seen'[s] = seen[s]
             /\ n \in 0..Len(history'[Line(s)])
             /\ SawAt(s, n) => SawAt(s, n)' /\ SawAt(s, Len(history[Line(s)]))'
  <2>1. req'[s] = req[s] /\ seen'[s] = seen[s] /\ Line(s) \in Lines
    BY <1>1, BegunKept, LineType DEF Open, Looked
  <2>2. n \in 0..Len(history'[Line(s)]) /\ (SawAt(s, n) => SawAt(s, n)')
    BY <1>1, <2>1, SawKept, PastKept
  <2>3. Len(history'[Line(s)]) \in Nat
    BY <2>1, NextType DEF TypeOK
  <2> QED
    BY <2>1, <2>2, <2>3 DEF SawAt, Line
<1>2. Len(history[Line(s)]) \in Nat /\ Line(s) \in Lines
  BY LineType DEF TypeOK
<1>3. pc'[s] \in Looked => SawAt(s, Len(history[Line(s)]))'
  <2>1. CASE pc[s] \in Looked
    <3>1. SawAt(s, Len(history[Line(s)]))
      BY <2>1 DEF VisitInv
    <3> QED
      BY <1>1, <1>2, <2>1, <3>1
  <2>2. CASE Load(s)
    <3>1. Line(s)' \in Lines /\ seen'[s] = stage[Line(s)'] /\ history' = history
      BY <2>2, EngineAssumption DEF Load, Line, Input, TypeOK, database
    <3>2. seen'[s] = StageAfter(Line(s)', Len(history[Line(s)']))
          /\ Len(history[Line(s)']) \in Nat
      BY <1>0, <3>1 DEF Chained, TypeOK
    <3> QED
      BY <3>1, <3>2 DEF SawAt, StageAfter
  <2> QED
    BY <2>1, <2>2, OpenFrom
<1>4. ASSUME pc'[s] \in Looked \ {"loaded"}
      PROVE  (\E n \in 0..Len(history[Line(s)]) : VisitAt(s, n))'
  <2>1. CASE pc[s] \in Looked \ {"loaded"} /\ mover'[s] = mover[s]
    <3>1. PICK n \in 0..Len(history[Line(s)]) : VisitAt(s, n)
      BY <2>1 DEF VisitInv, VisitAt
    <3>2. VisitAt(s, n)'
      BY <1>0, <1>1, <2>1, <3>1, VisitKept
    <3> QED
      BY <1>1, <2>1, <3>1, <3>2
  <2>2. CASE pc[s] = "loaded" /\ ReadMover(s)
    <3>0. PICK n \in 0..Len(history[Line(s)]) : n = Len(history[Line(s)])
      BY <1>2
    <3>1. UNCHANGED <<history, stamp, req, seen>> /\ mover'[s] = LatestMover(Line(s))
      BY <2>2 DEF ReadMover, TypeOK, database, order, times
    <3>2. SawAt(s, n)'
      BY <1>1, <2>2, <3>0 DEF VisitInv, Looked, Open
    <3>3. n = 0 \/ mover'[s] = history[Line(s)][n].by \/ Overtaken(Line(s), n)
      BY <1>0, <1>2, <3>0, <3>1, MoverRead
    <3>4. Line(s)' = Line(s)
      BY <3>1 DEF Line
    <3>5. MoverAt(s, n)'
      BY <3>1, <3>3, <3>4 DEF MoverAt, Overtaken
    <3> QED
      BY <3>0, <3>1, <3>2, <3>4, <3>5 DEF VisitAt
  <2> QED
    BY <1>4, <2>1, <2>2, JudgingFrom
<1> QED
  BY <1>3, <1>4

\* A row of the same hands, behind a gate: what its writer had missed.
LEMMA CommitOverlapped ==
  ASSUME TypeOK, JudgedInv, VisitInv, NEW r \in Requests, Commit(r),
         Len(history[Line(r)]) >= 1, Gated(NewRow(r)),
         NewRow(r).by = history[Line(r)][Len(history[Line(r)])].by
  PROVE  \/ \E j \in 0..(Len(history[Line(r)]) - 1) :
               StageAfter(Line(r), j) = NewRow(r).from
         \/ Overtaken(Line(r), Len(history[Line(r)]))
<1> DEFINE l == Line(r)
           n == Len(history[l])
<1>1. l \in Lines /\ n \in Nat
  BY LineType DEF TypeOK
<1>2. mover[r] # req[r].user
  <2>1. PICK rule \in Candidates(r) : ~SelfApproved(rule, req[r].user, mover[r])
    BY CommitRule
  <2>2. rule \in CandidateRules(NewRow(r).by, NewRow(r).from, NewRow(r).action)
    BY <2>1 DEF Candidates, NewRow
  <2> QED
    BY <2>1, <2>2 DEF Gated, SelfApproved
<1>3. PICK k \in 0..n : SawAt(r, k) /\ MoverAt(r, k)
  BY DEF VisitInv, Commit, Open, Looked
<1>4. CASE k = n
  BY <1>1, <1>2, <1>3, <1>4 DEF MoverAt, NewRow
<1>5. CASE k # n
  <2>1. PICK m \in 0..k : StageAfter(l, m) = seen[r]
    BY <1>3 DEF SawAt
  <2> QED
    BY <1>1, <1>3, <1>5, <2>1 DEF NewRow
<1> QED
  BY <1>4, <1>5

\* TwoPersonUnlessOverlapped of one row.
Excused(l, i) ==
  \/ \E j \in 0..(i - 2) : StageAfter(l, j) = history[l][i].from
  \/ Overtaken(l, i - 1)

LEMMA NextTwoPerson ==
  TypeOK /\ FreshInv /\ JudgedInv /\ VisitInv /\ TwoPersonUnlessOverlapped /\ [Next]_vars
    => TwoPersonUnlessOverlapped'
<1> SUFFICES ASSUME TypeOK, FreshInv, JudgedInv, VisitInv, TwoPersonUnlessOverlapped,
                    [Next]_vars, NEW l \in Lines, NEW i \in 2..Len(history'[l]),
                    Gated(history'[l][i]), SameHands(l, i)'
             PROVE  Excused(l, i)'
  BY DEF TwoPersonUnlessOverlapped, Gated, Excused
<1>1. Len(history[l]) \in Nat
  BY DEF TypeOK
<1>2. ASSUME i \in 2..Len(history[l]), history'[l][i] = history[l][i],
             history'[l][i - 1] = history[l][i - 1]
      PROVE  Excused(l, i)'
  <2>1. Gated(history[l][i]) /\ SameHands(l, i)
    BY <1>2 DEF SameHands
  <2>2. CASE \E j \in 0..(i - 2) : StageAfter(l, j) = history[l][i].from
    <3>1. PICK j \in 0..(i - 2) : StageAfter(l, j) = history[l][i].from
      BY <2>2
    <3>2. StageAfter(l, j)' = StageAfter(l, j)
      BY <1>1, <1>2, <3>1, PastKept
    <3> QED
      BY <1>2, <3>1, <3>2 DEF Excused
  <2>3. CASE Overtaken(l, i - 1)
    <3>1. i - 1 \in 1..Len(history[l])
      BY <1>1, <1>2
    <3>2. Overtaken(l, i - 1)'
      BY <2>3, <3>1, OvertakenKept
    <3> QED
      BY <3>2 DEF Excused
  <2> QED
    BY <1>2, <2>1, <2>2, <2>3 DEF TwoPersonUnlessOverlapped
<1>3. CASE UNCHANGED <<stage, history>>
  BY <1>2, <1>3
<1>4. ASSUME NEW r \in Requests, Commit(r)
      PROVE  Excused(l, i)'
  <2>1. CASE l # Line(r)
    BY <1>2, <1>4, <2>1, CommitEffect
  <2>2. CASE i \in 2..Len(history[l])
    <3>1. i \in 1..Len(history[l]) /\ i - 1 \in 1..Len(history[l])
      BY <1>1, <2>2
    <3>2. \A k \in 1..Len(history[l]) : history'[l][k] = history[l][k]
      BY <1>4, CommitEffect
    <3> QED
      BY <1>2, <2>2, <3>1, <3>2
  <2>3. CASE l = Line(r) /\ i = Len(history[l]) + 1
    <3>1. history'[l][i] = NewRow(r) /\ Len(history[l]) >= 1
      BY <1>4, <2>3, CommitEffect
    <3>2. history'[l][i - 1] = history[l][Len(history[l])]
      BY <1>1, <1>4, <2>3, <3>1, CommitEffect
    <3>3. \/ \E j \in 0..(Len(history[l]) - 1) : StageAfter(l, j) = NewRow(r).from
          \/ Overtaken(l, Len(history[l]))
      BY <1>4, <2>3, <3>1, <3>2, CommitOverlapped DEF SameHands
    <3>4. CASE \E j \in 0..(Len(history[l]) - 1) : StageAfter(l, j) = NewRow(r).from
      <4>1. PICK j \in 0..(Len(history[l]) - 1) : StageAfter(l, j) = NewRow(r).from
        BY <3>4
      <4>2. StageAfter(l, j)' = StageAfter(l, j) /\ j \in 0..(i - 2)
        BY <1>1, <2>3, <4>1, PastKept
      <4> QED
        BY <3>1, <4>1, <4>2 DEF Excused
    <3>5. CASE Overtaken(l, Len(history[l]))
      <4>1. i - 1 = Len(history[l]) /\ i - 1 \in 1..Len(history[l])
        BY <1>1, <2>3, <3>1
      <4>2. Overtaken(l, i - 1)'
        BY <3>5, <4>1, OvertakenKept
      <4> QED
        BY <4>2 DEF Excused
    <3> QED
      BY <3>3, <3>4, <3>5
  <2> QED
    BY <1>1, <1>4, <2>1, <2>2, <2>3, CommitEffect
<1> QED
  BY <1>3, <1>4, OnlyCommitWrites

\* The same hands take a line into and out of a gated stage only when the
\* line had been there before, or when the move in began before one that was
\* recorded before it: the gate holds wherever requests do not overlap.
THEOREM GateHoldsUnlessOverlapped == Spec => []TwoPersonUnlessOverlapped
<1>1. Init => VisitInv /\ TwoPersonUnlessOverlapped
  BY DEF Init, VisitInv, TwoPersonUnlessOverlapped, Looked, Open
<1>2. WalkInv => FreshInv
  BY DEF WalkInv
<1> QED
  BY <1>1, <1>2, WalkInvariant, JudgedInvariant, NextVisit, NextTwoPerson, PTL DEF Spec

---------------------------------------------------------------------------
\* What a request is told.

\* A request is answered once, after the fact; until then nothing is said,
\* and between COMMIT and the answer its one row is there.
ReplyInv ==
  \A r \in Requests :
    /\ pc[r] # "done" => reply[r] = "none"
    /\ pc[r] = "answering" \/ reply[r] = "201" => \E row : RowsOf(r) = {row}
    /\ reply[r] \in {"403", "422", "409", "config"} => RowsOf(r) = {}

LEMMA RowsKept ==
  ASSUME TypeOK, [Next]_vars, NEW s \in Requests, ~Commit(s)
  PROVE  RowsOf(s)' = RowsOf(s)
<1>1. CASE UNCHANGED history
  BY <1>1 DEF RowsOf
<1>2. ASSUME NEW r \in Requests, Commit(r)
      PROVE  \A l \in Lines : {i \in DOMAIN history'[l] : history'[l][i].id = s}
                              = {i \in DOMAIN history[l] : history[l][i].id = s}
  <2> SUFFICES ASSUME NEW l \in Lines
               PROVE  {i \in DOMAIN history'[l] : history'[l][i].id = s}
                        = {i \in DOMAIN history[l] : history[l][i].id = s}
    OBVIOUS
  <2>1. CASE l # Line(r)
    BY <1>2, <2>1, CommitEffect
  <2>2. CASE l = Line(r)
    <3> DEFINE n == Len(history[l])
    <3>1. n \in Nat /\ DOMAIN history[l] = 1..n
      BY RowType
    <3>2. DOMAIN history'[l] = 1..(n + 1)
      <4>1. TypeOK'
        BY NextType
      <4>2. DOMAIN history'[l] = 1..Len(history'[l])
        BY <4>1 DEF TypeOK
      <4> QED
        BY <1>2, <2>2, <4>2, CommitEffect
    <3>3. \A i \in 1..n : history'[l][i] = history[l][i]
      BY <1>2, <2>2, CommitEffect
    <3>4. history'[l][n + 1].id # s
      <4>1. history'[l][n + 1] = NewRow(r) /\ r # s
        BY <1>2, <2>2, CommitEffect
      <4> QED
        BY <4>1 DEF NewRow
    <3>5. \A i \in 1..(n + 1) : i \in 1..n \/ i = n + 1
      BY <3>1
    <3> QED
      BY <3>1, <3>2, <3>3, <3>4, <3>5
  <2> QED
    BY <2>1, <2>2
<1> QED
  BY <1>1, <1>2, OnlyCommitWrites DEF RowsOf

LEMMA FirstRow ==
  ASSUME TypeOK, FreshInv, NEW s \in Requests, Commit(s)
  PROVE  RowsOf(s)' = {<<Line(s), Len(history[Line(s)]) + 1>>}
<1> DEFINE Ids(l) == {i \in DOMAIN history'[l] : history'[l][i].id = s}
<1>1. Line(s) \in Lines
  BY LineType
<1>2. [Next]_vars
  BY DEF Next, Step
<1>3. \A l \in Lines : \A i \in 1..Len(history[l]) : history[l][i].id # s
  BY DEF FreshInv, Commit, Open
<1>4. \A l \in Lines : Len(history[l]) \in Nat /\ DOMAIN history[l] = 1..Len(history[l])
                       /\ DOMAIN history'[l] = 1..Len(history'[l])
  BY <1>2, NextType DEF TypeOK
<1>5. ASSUME NEW l \in Lines, l # Line(s) PROVE Ids(l) = {}
  BY <1>3, <1>4, <1>5, CommitEffect
<1>6. Ids(Line(s)) = {Len(history[Line(s)]) + 1}
  <2> DEFINE l == Line(s)
             n == Len(history[l])
  <2>1. DOMAIN history'[l] = 1..(n + 1)
    BY <1>1, <1>4, CommitEffect
  <2>2. \A i \in 1..n : history'[l][i].id # s
    BY <1>1, <1>3, CommitEffect
  <2>3. history'[l][n + 1].id = s
    <3>1. history'[l][n + 1] = NewRow(s)
      BY CommitEffect
    <3> QED
      BY <3>1 DEF NewRow
  <2>4. n \in Nat
    BY <1>1, <1>4
  <2>5. n + 1 \in 1..(n + 1) /\ \A i \in 1..(n + 1) : i \in 1..n \/ i = n + 1
    BY <2>4
  <2> QED
    BY <2>1, <2>2, <2>3, <2>5
<1>7. RowsOf(s)' = UNION {{<<l, i>> : i \in Ids(l)} : l \in Lines}
  BY DEF RowsOf
<1> HIDE DEF Ids
<1>8. ASSUME NEW row PROVE row \in RowsOf(s)' <=> row = <<Line(s), Len(history[Line(s)]) + 1>>
  <2>1. row \in RowsOf(s)' <=> \E l \in Lines : \E i \in Ids(l) : row = <<l, i>>
    BY <1>7
  <2> QED
    BY <1>1, <1>5, <1>6, <2>1
<1> QED
  BY <1>8

LEMMA NextReply == TypeOK /\ FreshInv /\ ReplyInv /\ [Next]_vars => ReplyInv'
<1> SUFFICES ASSUME TypeOK, FreshInv, ReplyInv, [Next]_vars, NEW s \in Requests
             PROVE  /\ pc'[s] # "done" => reply'[s] = "none"
                    /\ pc'[s] = "answering" \/ reply'[s] = "201" => \E row : RowsOf(s)' = {row}
                    /\ reply'[s] \in {"403", "422", "409", "config"} => RowsOf(s)' = {}
  BY DEF ReplyInv
<1> DEFINE Said == pc'[s] = pc[s] /\ reply'[s] = reply[s]
           Working == pc[s] # "done" /\ pc'[s] \notin {"answering", "done"} /\ reply'[s] = reply[s]
           Refused == pc[s] \in Open /\ pc'[s] = "done" /\ reply'[s] \in Refusals
           Answered == pc[s] = "answering" /\ pc'[s] = "done" /\ reply'[s] \in {"201", "lost"}
           Committed == Commit(s) /\ pc'[s] = "answering" /\ reply'[s] = reply[s] /\ pc[s] # "done"
<1>1. Said \/ Working \/ Refused \/ Answered \/ Committed
  <2>1. ASSUME NEW r \in Requests, Step(r) \/ Crash(r)
        PROVE  Said \/ Working \/ Refused \/ Answered \/ Committed
    BY <2>1, StepCases
       DEF Refuse, Begin, Load, ReadMover, Permit, SerialiseOn, InsertRow, Accept, Commit,
           Answer, TypeOK
  <2> QED
    BY <2>1 DEF Next, AttachPdf, Finished, vars
<1>2. CASE Committed
  <2>1. reply'[s] = "none"
    BY <1>2 DEF ReplyInv
  <2> QED
    BY <1>2, <2>1, FirstRow
<1>3. CASE ~Commit(s)
  <2>1. RowsOf(s)' = RowsOf(s)
    BY <1>3, RowsKept
  <2>2. ASSUME pc[s] \in Open PROVE RowsOf(s) = {}
    <3>1. \A l \in Lines : DOMAIN history[l] = 1..Len(history[l])
      BY DEF TypeOK
    <3>2. \A l \in Lines : {n \in DOMAIN history[l] : history[l][n].id = s} = {}
      BY <2>2, <3>1 DEF FreshInv
    <3> QED
      BY <3>2 DEF RowsOf
  <2>3. CASE Refused
    BY <2>1, <2>2, <2>3 DEF Refusals
  <2> QED
    BY <1>1, <1>2, <2>1, <2>3 DEF ReplyInv
<1>4. Commit(s) => Committed
  BY DEF Commit, TypeOK
<1> QED
  BY <1>2, <1>3, <1>4

\* A 201 means the move is on record once, and an error answer that it is
\* not, whatever happened to the other requests meanwhile.
THEOREM AnswersTrue == Spec => []AnswersAreTrue
<1>1. Init => ReplyInv
  BY DEF Init, ReplyInv
<1>2. ReplyInv => AnswersAreTrue
  <2> SUFFICES ASSUME ReplyInv, NEW r \in Requests
               PROVE  /\ reply[r] = "201" => Cardinality(RowsOf(r)) = 1
                      /\ reply[r] \in {"403", "422", "409", "config"} => RowsOf(r) = {}
    BY DEF AnswersAreTrue
  <2>1. ASSUME NEW row PROVE Cardinality({row}) = 1
    BY FS_Singleton
  <2> QED
    BY <2>1 DEF ReplyInv
<1> QED
  BY <1>1, <1>2, FreshInvariant, NextReply, PTL DEF Spec
=============================================================================
