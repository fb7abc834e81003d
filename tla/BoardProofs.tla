----------------------------- MODULE BoardProofs -----------------------------
(***************************************************************************)
(* Theorems of Board, for any graph, lines and viewers.  The strengthening *)
(* is BoardInv: what a browser has read, or shows, is true of the version  *)
(* of the line it was read at; and HiddenInv: a line left out is settled.  *)
(***************************************************************************)
EXTENDS Board, FiniteSetTheorems, WellFoundedInduction, TLAPS

---------------------------------------------------------------------------
\* The board's questions of the graph.

\* Of several rules one leads to the first place.
LEMMA FirstIsOne ==
  ASSUME GraphAssumption, BoardAssumption, NEW S \in SUBSET Rules, S # {}
  PROVE  First(S) \in S
<1> DEFINE places == {SequenceNo[rule.to] : rule \in S}
<1>1. \A rule \in S : rule.to \in Stages /\ SequenceNo[rule.to] \in Nat
  BY DEF GraphAssumption, BoardAssumption, Rule
<1>2. places \subseteq Nat /\ places # {}  BY <1>1
<1>3. PICK n \in places : \A m \in places : ~(<<m, n>> \in OpToRel(<, Nat))
  <2> HIDE DEF places
  <2> QED  BY <1>2, NatLessThanWellFounded, WFMin
<1>4. \A m \in places : ~(m < n)
  <2>1. ASSUME NEW m \in places, m < n  PROVE FALSE
    <3>1. m \in Nat /\ n \in Nat  BY <1>2
    <3>2. <<m, n>> \in OpToRel(<, Nat)  BY <2>1, <3>1 DEF OpToRel
    <3> QED  BY <1>3, <3>2
  <2> QED  BY <2>1
<1>5. PICK rule \in S : n = SequenceNo[rule.to]  OBVIOUS
<1>6. ASSUME NEW other \in S  PROVE SequenceNo[rule.to] <= SequenceNo[other.to]
  <2>1. SequenceNo[other.to] \in places /\ n \in Nat /\ SequenceNo[other.to] \in Nat
    BY <1>1, <1>2
  <2>2. ~(SequenceNo[other.to] < n)  BY <1>4, <2>1
  <2> QED  BY <1>5, <2>1, <2>2
<1> QED  BY <1>6 DEF First

LEMMA AllAlike ==
  ASSUME GraphAssumption, NEW S \in SUBSET Rules, ~Conflicting(S),
         NEW a \in S, NEW b \in S
  PROVE  a.to = b.to
<1> DEFINE tos == {rule.to : rule \in S}
<1>2. IsFiniteSet(tos) /\ Cardinality(tos) \in Nat
  <2>1. tos \in SUBSET Stages  BY DEF GraphAssumption, Rule
  <2> HIDE DEF tos
  <2> QED  BY <2>1, FS_Subset, FS_CardinalityType DEF GraphAssumption
<1>3. ASSUME a.to # b.to  PROVE FALSE
  <2>1. {a.to, b.to} \subseteq tos  OBVIOUS
  <2>2. Cardinality({a.to, b.to}) = 2
    <3>1. IsFiniteSet({b.to}) /\ Cardinality({b.to}) = 1  BY FS_Singleton
    <3>2. a.to \notin {b.to} /\ {b.to} \cup {a.to} = {a.to, b.to}  BY <1>3
    <3>3. Cardinality({b.to} \cup {a.to}) = 1 + 1  BY <3>1, <3>2, FS_AddElement
    <3>4. Cardinality({a.to, b.to}) = 1 + 1  BY <3>2, <3>3, Zenon
    <3> QED  BY <3>4
  <2>3. 2 <= Cardinality(tos)
    <3> HIDE DEF tos
    <3> QED  BY <1>2, <2>1, <2>2, FS_Subset
  <2> QED  BY <1>2, <2>3 DEF Conflicting
<1> QED  BY <1>3

\* What one button says of the rules behind it.
LEMMA OneOffer ==
  ASSUME GraphAssumption, BoardAssumption, NEW user, NEW at, NEW by, NEW pdf,
         NEW action, NEW rules, rules = CandidateRules(user, at, action),
         rules # {}
  PROVE  LET offer == Best(rules, user, by, pdf)
         IN /\ offer \in Offer /\ offer.action = action
            /\ offer.available <=> \E rule \in rules : ~Blocked(rule, user, by, pdf)
            /\ \E rule \in rules : offer.to = rule.to
<1> DEFINE open == {rule \in rules : ~Blocked(rule, user, by, pdf)}
           some == IF open # {} THEN open ELSE rules
           kept == First(some)
<1>1. rules \subseteq Rules /\ some \in SUBSET Rules /\ some # {} /\ some \subseteq rules
  BY DEF CandidateRules
<1>2. kept \in rules
  <2> HIDE DEF some
  <2> QED  BY <1>1, FirstIsOne
<1>3. kept.action = action /\ kept.action \in Actions /\ kept.to \in Stages
  <2> HIDE DEF kept
  <2>1. kept \in Rule  BY <1>1, <1>2 DEF GraphAssumption
  <2> QED  BY <1>2, <2>1 DEF CandidateRules, Rule
<1>4. Best(rules, user, by, pdf) =
        [action |-> kept.action, to |-> kept.to, available |-> open # {}]
  BY DEF Best
<1>5. open # {} <=> \E rule \in rules : ~Blocked(rule, user, by, pdf)  OBVIOUS
<1> DEFINE works == open # {}
           offer == [action |-> kept.action, to |-> kept.to, available |-> works]
<1>6. works \in BOOLEAN  OBVIOUS
<1> HIDE DEF kept, open, works
<1>7. /\ offer \in Offer /\ offer.action = kept.action /\ offer.to = kept.to
      /\ offer.available = works
  BY <1>3, <1>6 DEF Offer
<1>8. Best(rules, user, by, pdf) = offer  BY <1>4 DEF works
<1>9. works <=> \E rule \in rules : ~Blocked(rule, user, by, pdf)
  BY <1>5 DEF works
<1> HIDE DEF offer
<1> QED  BY <1>2, <1>3, <1>7, <1>8, <1>9

LEMMA OffersTyped ==
  ASSUME GraphAssumption, BoardAssumption, NEW user, NEW at, NEW by, NEW pdf
  PROVE  Offers(user, at, by, pdf) \subseteq Offer
<1> SUFFICES ASSUME NEW rule \in Rules, rule.from = at, rule.role \in RolesOf[user]
             PROVE  Best(CandidateRules(user, at, rule.action), user, by, pdf) \in Offer
  BY DEF Offers
<1>1. rule \in CandidateRules(user, at, rule.action)  BY DEF CandidateRules
<1> QED  BY <1>1, OneOffer

\* A button works exactly when the engine would let some rule through, and
\* then shows the destination of all that agree.
LEMMA OffersTrue ==
  ASSUME GraphAssumption, BoardAssumption, NEW user, NEW l \in Lines,
         NEW offer \in Offers(user, stage[l], mover[l], quoted[l])
  PROVE  /\ offer.available = Granted(user, l, offer.action)
         /\ offer.available /\ Sound(user, l, offer.action) =>
              \A rule \in CandidateRules(user, stage[l], offer.action) :
                rule.to = offer.to
<1>1. PICK r \in Rules :
         /\ r.from = stage[l] /\ r.role \in RolesOf[user]
         /\ offer = Best(CandidateRules(user, stage[l], r.action), user, mover[l], quoted[l])
  BY DEF Offers
<1> DEFINE rules == CandidateRules(user, stage[l], r.action)
<1>2. r \in rules /\ rules \in SUBSET Rules  BY <1>1 DEF CandidateRules
<1>3. /\ offer \in Offer /\ offer.action = r.action
      /\ offer.available <=> \E rule \in rules : ~Blocked(rule, user, mover[l], quoted[l])
      /\ \E rule \in rules : offer.to = rule.to
  <2> HIDE DEF rules
  <2>1. rules = CandidateRules(user, stage[l], r.action) /\ rules # {}
        /\ offer = Best(rules, user, mover[l], quoted[l])
    BY <1>1, <1>2 DEF rules
  <2> QED  BY <2>1, OneOffer
<1>4. \A rule \in rules :
         ~Blocked(rule, user, mover[l], quoted[l]) <=>
           Verdict(rule, user, mover[l], TRUE, quoted[l]) = "permit"
  BY DEF Blocked, Verdict, NoteMissing
<1>5. offer.available = Granted(user, l, offer.action)
  <2>1. offer.available \in BOOLEAN  BY <1>3 DEF Offer
  <2>2. Granted(user, l, offer.action) =
          \E rule \in rules : Verdict(rule, user, mover[l], TRUE, quoted[l]) = "permit"
    BY <1>3 DEF Granted
  <2> QED  BY <1>3, <1>4, <2>1, <2>2
<1>6. ASSUME Sound(user, l, offer.action)
      PROVE  \A rule \in CandidateRules(user, stage[l], offer.action) : rule.to = offer.to
  <2>1. ~Conflicting(rules)  BY <1>3, <1>6 DEF Sound
  <2> QED
    <3> HIDE DEF rules
    <3>1. CandidateRules(user, stage[l], offer.action) = rules  BY <1>3 DEF rules
    <3> QED  BY <1>2, <1>3, <2>1, <3>1, AllAlike
<1> QED  BY <1>5, <1>6

---------------------------------------------------------------------------
\* The inductive invariants.

\* A version that has not moved on stands for the line as it was read.
ReadInv(v) ==
  fetch[v] # Nothing =>
    \A l \in Lines :
      /\ own[v][l] <= fetch[v].version[l] /\ fetch[v].version[l] <= version[l]
      /\ fetch[v].version[l] = version[l] =>
           /\ fetch[v].seen[l] = stage[l] /\ fetch[v].by[l] = mover[l]
           /\ fetch[v].pdf[l] = quoted[l]

ShownInv(v) ==
  shown[v] # Nothing =>
    \A l \in DOMAIN shown[v] :
      /\ l \in Lines /\ shown[v][l].version <= version[l]
      /\ ~invalid[v] => own[v][l] <= shown[v][l].version
      /\ shown[v][l].version = version[l] =>
           /\ shown[v][l].stage = stage[l]
           /\ shown[v][l].offers = Offers(UserOf[v], stage[l], mover[l], quoted[l])

OwnInv(v) == \A l \in Lines : own[v][l] <= version[l]

BoardInv ==
  BoardTypeOK /\ \A v \in Viewers : ReadInv(v) /\ ShownInv(v) /\ OwnInv(v)

\* A line left out is settled, and one seen in a hiding stage is there still.
Settled(l) == stage[l] \in Hiding /\ old[l]

HiddenInv(v) ==
  /\ fetch[v] # Nothing =>
       /\ \A l \in Lines : fetch[v].seen[l] \in Hiding => stage[l] = fetch[v].seen[l]
       /\ \A l \in InScope[v] \ fetch[v].lines : Settled(l)
  /\ shown[v] # Nothing => \A l \in InScope[v] \ DOMAIN shown[v] : Settled(l)

\* What a step may do to the database: every change of a line is counted,
\* and a line at a dead end stays and grows old.
Advance ==
  \A l \in Lines :
    /\ version[l] <= version'[l]
    /\ version'[l] = version[l] =>
         stage'[l] = stage[l] /\ mover'[l] = mover[l] /\ quoted'[l] = quoted[l]
    /\ stage[l] \in DeadEnds => stage'[l] = stage[l] /\ (old[l] => old'[l])

DatabaseTypes ==
  /\ stage \in [Lines -> Stages]
  /\ mover \in [Lines -> Users \cup {NoUser}]
  /\ old \in [Lines -> BOOLEAN] /\ quoted \in [Lines -> BOOLEAN]
  /\ version \in [Lines -> 0..MaxVersion]

---------------------------------------------------------------------------

LEMMA MovedAdvances ==
  ASSUME GraphAssumption, BoardAssumption, DatabaseTypes,
         NEW user \in Users, NEW m \in Lines, NEW action, Moved(user, m, action)
  PROVE  Advance /\ DatabaseTypes'
<1> DEFINE rules == CandidateRules(user, stage[m], action)
<1>1. PICK rule \in rules : stage' = [stage EXCEPT ![m] = rule.to]
  BY DEF Moved
<1>2. /\ version[m] < MaxVersion /\ mover' = [mover EXCEPT ![m] = user]
      /\ old' = [old EXCEPT ![m] = FALSE]
      /\ version' = [version EXCEPT ![m] = @ + 1] /\ quoted' = quoted
  BY DEF Moved
<1>3. rule.to \in Stages /\ rule \in Rules /\ rule.from = stage[m]
  BY DEF CandidateRules, GraphAssumption, Rule
<1>4. stage[m] \notin DeadEnds  BY <1>3 DEF DeadEnds
<1>5. version[m] \in 0..MaxVersion /\ MaxVersion \in Nat
      /\ \A l \in Lines : version[l] \in Nat
  BY DEF DatabaseTypes, BoardAssumption
<1>6. Advance  BY <1>1, <1>2, <1>4, <1>5 DEF Advance, DatabaseTypes
<1>7. DatabaseTypes'  BY <1>1, <1>2, <1>3, <1>5 DEF DatabaseTypes
<1> QED  BY <1>6, <1>7

LEMMA DatabaseAdvances ==
  ASSUME GraphAssumption, BoardAssumption, DatabaseTypes, BoardTypeOK, [BoardNext]_boardVars
  PROVE  Advance /\ DatabaseTypes'
<1>1. \A l \in Lines : version[l] \in Nat  BY DEF DatabaseTypes, BoardAssumption
<1>2. ASSUME UNCHANGED database  PROVE Advance /\ DatabaseTypes'
  BY <1>1, <1>2 DEF Advance, DatabaseTypes, database
<1>3. CASE UNCHANGED boardVars  BY <1>2, <1>3 DEF boardVars
<1>4. ASSUME NEW v \in Viewers,
             \/ FetchLines(v) \/ DropHidden(v) \/ FetchMovers(v) \/ FetchPdfs(v)
             \/ ShowBoard(v) \/ FetchFails(v) \/ GoesStale(v)
             \/ Click(v) \/ Confirm(v) \/ Decline(v)
             \/ RefuseMove(v) \/ LoseAnswer(v) \/ HearAnswer(v)
      PROVE  Advance /\ DatabaseTypes'
  <2>1. UNCHANGED database
    BY <1>4 DEF FetchLines, DropHidden, FetchMovers, FetchPdfs, Read, ShowBoard,
      FetchFails, GoesStale, Click, Confirm, Decline, RefuseMove, LoseAnswer, HearAnswer
  <2> QED  BY <1>2, <2>1
<1>5. ASSUME NEW v \in Viewers, MoveLine(v)  PROVE Advance /\ DatabaseTypes'
  <2>1. post[v] \in Post /\ UserOf[v] \in Users
    BY <1>5 DEF MoveLine, BoardTypeOK, BoardAssumption
  <2>2. post[v].line \in Lines  BY <2>1 DEF Post
  <2> QED  BY <1>5, <2>1, <2>2, MovedAdvances DEF MoveLine
<1>6. ASSUME NEW l \in Lines, NEW user \in Users, OtherMoves(user, l)
      PROVE  Advance /\ DatabaseTypes'
  BY <1>6, MovedAdvances DEF OtherMoves
<1>7. ASSUME NEW l \in Lines, AttachPdf(l)  PROVE Advance /\ DatabaseTypes'
  <2>1. version[l] \in 0..MaxVersion /\ MaxVersion \in Nat
    BY DEF DatabaseTypes, BoardAssumption
  <2>2. /\ quoted' = [quoted EXCEPT ![l] = TRUE]
        /\ version' = [version EXCEPT ![l] = @ + 1] /\ version[l] < MaxVersion
        /\ UNCHANGED <<stage, mover, old>>
    BY <1>7 DEF AttachPdf
  <2>3. \A m \in Lines : version'[m] = IF m = l THEN version[m] + 1 ELSE version[m]
    BY <2>2 DEF DatabaseTypes
  <2>5. \A m \in Lines : m # l => quoted'[m] = quoted[m]  BY <2>2 DEF DatabaseTypes
  <2>6. ASSUME NEW m \in Lines
        PROVE  /\ version[m] <= version'[m]
               /\ version'[m] = version[m] => quoted'[m] = quoted[m]
    <3>1. version[m] \in Nat  BY <1>1
    <3>2. CASE m = l  BY <2>3, <3>1, <3>2
    <3>3. CASE m # l  BY <2>3, <2>5, <3>1, <3>3
    <3> QED  BY <3>2, <3>3
  <2>7. Advance  BY <2>2, <2>6 DEF Advance
  <2>4. DatabaseTypes'  BY <2>1, <2>2 DEF DatabaseTypes
  <2> QED  BY <2>4, <2>7
<1>8. ASSUME NEW l \in Lines, Elapse(l)  PROVE Advance /\ DatabaseTypes'
  BY <1>1, <1>8 DEF Elapse, Advance, DatabaseTypes
<1> QED  BY <1>3, <1>4, <1>5, <1>6, <1>7, <1>8 DEF BoardNext

---------------------------------------------------------------------------
\* Types.

LEMMA AnsweredIsBoard ==
  ASSUME GraphAssumption, BoardAssumption, BoardTypeOK, NEW v \in Viewers,
         fetch[v] # Nothing
  PROVE  /\ IsBoard(Answered(v)) /\ Answered(v) # Nothing
         /\ DOMAIN Answered(v) = fetch[v].lines
<1>1. fetch[v] \in Fetch  BY DEF BoardTypeOK
<1>2. fetch[v].lines \in SUBSET Lines  BY <1>1 DEF Fetch
<1>3. ASSUME NEW l \in fetch[v].lines  PROVE Answered(v)[l] \in Column
  <2>1. fetch[v].seen[l] \in Stages /\ fetch[v].version[l] \in 0..MaxVersion
    BY <1>1, <1>2 DEF Fetch
  <2>2. Offers(UserOf[v], fetch[v].seen[l], fetch[v].by[l], fetch[v].pdf[l]) \in SUBSET Offer
    BY OffersTyped
  <2> QED  BY <2>1, <2>2 DEF Answered, Column
<1>4. Answered(v) \in [fetch[v].lines -> Column]  BY <1>3 DEF Answered
<1>5. IsBoard(Answered(v))  BY <1>2, <1>4 DEF IsBoard
<1>6. DOMAIN Answered(v) = fetch[v].lines  BY DEF Answered
<1> QED  BY <1>5, <1>6 DEF BoardAssumption

BrowserTypes ==
  /\ invalid \in [Viewers -> BOOLEAN]
  /\ own \in [Viewers -> [Lines -> 0..MaxVersion]]
  /\ fetch \in [Viewers -> Fetch \cup {Nothing}]
  /\ DOMAIN shown = Viewers /\ \A v \in Viewers : shown[v] = Nothing \/ IsBoard(shown[v])
  /\ dialog \in [Viewers -> Dialog \cup {Nothing}]
  /\ post \in [Viewers -> Post \cup {Nothing}]

LEMMA TypesInTwo == BoardTypeOK <=> DatabaseTypes /\ BrowserTypes
BY DEF BoardTypeOK, DatabaseTypes, BrowserTypes

LEMMA BrowserKeepsTypes ==
  ASSUME GraphAssumption, BoardAssumption, BoardTypeOK, [BoardNext]_boardVars
  PROVE  BrowserTypes'
<1> USE TypesInTwo
<1>1. ASSUME UNCHANGED tabs  PROVE BrowserTypes'
  BY <1>1 DEF BrowserTypes, tabs
<1>2. CASE UNCHANGED boardVars  BY <1>1, <1>2 DEF boardVars
<1>3. ASSUME NEW v \in Viewers, NEW next \in Fetch \cup {Nothing}, Read(v, next)
      PROVE  BrowserTypes'
  BY <1>3 DEF Read, BrowserTypes
<1>4. ASSUME NEW v \in Viewers, fetch[v] # Nothing
      PROVE  /\ fetch[v] \in Fetch
             /\ [fetch[v] EXCEPT !.pc = "visible", !.lines = @ \ Dropped(v)] \in Fetch
             /\ [fetch[v] EXCEPT !.pc = "movers", !.by = mover] \in Fetch
             /\ [fetch[v] EXCEPT !.pc = "answered", !.pdf = quoted] \in Fetch
  <2>1. fetch[v] \in Fetch  BY <1>4 DEF BrowserTypes
  <2>2. [fetch[v] EXCEPT !.pc = "visible", !.lines = @ \ Dropped(v)] \in Fetch
    BY <2>1 DEF Fetch
  <2>3. [fetch[v] EXCEPT !.pc = "movers", !.by = mover] \in Fetch
    <3>1. mover \in [Lines -> Users \cup {NoUser}]  BY DEF DatabaseTypes
    <3> QED  BY <2>1, <3>1 DEF Fetch
  <2>4. [fetch[v] EXCEPT !.pc = "answered", !.pdf = quoted] \in Fetch
    <3>1. quoted \in [Lines -> BOOLEAN]  BY DEF DatabaseTypes
    <3> QED  BY <2>1, <3>1 DEF Fetch
  <2> QED  BY <2>1, <2>2, <2>3, <2>4
<1>5. ASSUME NEW v \in Viewers,
             FetchLines(v) \/ DropHidden(v) \/ FetchMovers(v) \/ FetchPdfs(v) \/ FetchFails(v)
      PROVE  BrowserTypes'
  <2>1. CASE FetchLines(v)
    <3>1. [pc |-> "lines", lines |-> InScope[v], seen |-> stage,
           version |-> version, by |-> mover, pdf |-> quoted] \in Fetch
      BY DEF BoardAssumption, DatabaseTypes, Fetch
    <3> QED  BY <1>3, <2>1, <3>1 DEF FetchLines
  <2>2. CASE DropHidden(v)  BY <1>3, <1>4, <2>2 DEF DropHidden, At
  <2>3. CASE FetchMovers(v)  BY <1>3, <1>4, <2>3 DEF FetchMovers, At
  <2>4. CASE FetchPdfs(v)  BY <1>3, <1>4, <2>4 DEF FetchPdfs, At
  <2>5. CASE FetchFails(v)  BY <1>3, <2>5 DEF FetchFails
  <2> QED  BY <1>5, <2>1, <2>2, <2>3, <2>4, <2>5
<1>6. ASSUME NEW v \in Viewers, ShowBoard(v)  PROVE BrowserTypes'
  <2>1. IsBoard(Answered(v))  BY <1>6, AnsweredIsBoard DEF ShowBoard, At
  <2>2. shown' = [shown EXCEPT ![v] = Answered(v)]  BY <1>6 DEF ShowBoard
  <2>3. DOMAIN shown' = Viewers /\ \A w \in Viewers : shown'[w] = Nothing \/ IsBoard(shown'[w])
    BY <2>1, <2>2 DEF BrowserTypes
  <2>4. /\ invalid' = [invalid EXCEPT ![v] = FALSE] /\ fetch' = [fetch EXCEPT ![v] = Nothing]
        /\ dialog'[v] \in {dialog[v], Nothing}
        /\ dialog' = [dialog EXCEPT ![v] = dialog'[v]]
        /\ UNCHANGED <<post, own>>
    BY <1>6 DEF ShowBoard, BrowserTypes
  <2> QED  BY <2>3, <2>4 DEF BrowserTypes
<1>7. ASSUME NEW v \in Viewers, GoesStale(v)  PROVE BrowserTypes'
  BY <1>7 DEF GoesStale, BrowserTypes
<1>8. ASSUME NEW v \in Viewers, Click(v)  PROVE BrowserTypes'
  <2>1. PICK l \in DOMAIN shown[v] : \E offer \in shown[v][l].offers :
          dialog' = [dialog EXCEPT ![v] =
                       [line |-> l, action |-> offer.action, from |-> shown[v][l].stage]]
    BY <1>8 DEF Click
  <2>2. PICK offer \in shown[v][l].offers :
          dialog' = [dialog EXCEPT ![v] =
                       [line |-> l, action |-> offer.action, from |-> shown[v][l].stage]]
    BY <2>1
  <2>3. shown[v][l] \in Column /\ l \in Lines
    BY <1>8 DEF Click, BrowserTypes, IsBoard
  <2>4. [line |-> l, action |-> offer.action, from |-> shown[v][l].stage] \in Dialog
    BY <2>2, <2>3 DEF Column, Offer, Dialog
  <2> QED  BY <1>8, <2>2, <2>4 DEF Click, BrowserTypes
<1>9. ASSUME NEW v \in Viewers, Confirm(v)  PROVE BrowserTypes'
  <2>1. dialog[v] \in Dialog  BY <1>9 DEF Confirm, BrowserTypes
  <2>2. [line |-> dialog[v].line, action |-> dialog[v].action, answer |-> "none"] \in Post
    BY <2>1 DEF Dialog, Post, Answers
  <2> QED  BY <1>9, <2>2 DEF Confirm, BrowserTypes
<1>10. ASSUME NEW v \in Viewers, Decline(v)  PROVE BrowserTypes'
  BY <1>10 DEF Decline, BrowserTypes
<1>11. ASSUME NEW v \in Viewers, post[v] # Nothing, NEW answer \in Answers, Reply(v, answer),
              UNCHANGED <<fetch, shown, invalid, dialog, own>>
       PROVE  BrowserTypes'
  <2>1. post[v] \in Post  BY <1>11 DEF BrowserTypes
  <2>2. [post[v] EXCEPT !.answer = answer] \in Post  BY <2>1 DEF Post
  <2>3. post' = [post EXCEPT ![v] = [post[v] EXCEPT !.answer = answer]]
    BY <1>11 DEF Reply
  <2> QED  BY <1>11, <2>2, <2>3 DEF BrowserTypes
<1>12. ASSUME NEW v \in Viewers, MoveLine(v) \/ RefuseMove(v) \/ LoseAnswer(v)
       PROVE  BrowserTypes'
  <2>1. post[v] # Nothing /\ UNCHANGED <<fetch, shown, invalid, dialog, own>>
    BY <1>12 DEF MoveLine, RefuseMove, LoseAnswer
  <2>2. \E answer \in Answers : Reply(v, answer)
    BY <1>12 DEF MoveLine, RefuseMove, LoseAnswer, Answers
  <2> QED  BY <1>11, <2>1, <2>2
<1>13. ASSUME NEW v \in Viewers, HearAnswer(v)  PROVE BrowserTypes'
  <2>1. post[v] \in Post  BY <1>13 DEF HearAnswer, BrowserTypes
  <2>2. post[v].line \in Lines  BY <2>1 DEF Post
  <2>3. own' \in [Viewers -> [Lines -> 0..MaxVersion]]
    BY <1>13, <2>2 DEF HearAnswer, BrowserTypes, DatabaseTypes
  <2>4. dialog' \in [Viewers -> Dialog \cup {Nothing}]
    BY <1>13 DEF HearAnswer, BrowserTypes
  <2> QED  BY <1>13, <2>3, <2>4 DEF HearAnswer, Invalidate, BrowserTypes
<1>14. ASSUME NEW l \in Lines,
              AttachPdf(l) \/ Elapse(l) \/ \E user \in Users : OtherMoves(user, l)
       PROVE  BrowserTypes'
  <2>1. UNCHANGED tabs  BY <1>14 DEF AttachPdf, Elapse, OtherMoves
  <2> QED  BY <1>1, <2>1
<1> QED
  BY <1>2, <1>5, <1>6, <1>7, <1>8, <1>9, <1>10, <1>12, <1>13, <1>14 DEF BoardNext

\* The types of Board, through every order of reads, answers and moves.
THEOREM BoardTypeCorrect ==
  ASSUME GraphAssumption, BoardAssumption PROVE BoardSpec => []BoardTypeOK
<1>1. BoardInit => BoardTypeOK
  BY DEF BoardInit, BoardTypeOK, GraphAssumption, BoardAssumption
<1>2. BoardTypeOK /\ [BoardNext]_boardVars => BoardTypeOK'
  <2> SUFFICES ASSUME BoardTypeOK, [BoardNext]_boardVars  PROVE BoardTypeOK'
    OBVIOUS
  <2>1. DatabaseTypes  BY TypesInTwo
  <2>2. DatabaseTypes' /\ BrowserTypes'  BY <2>1, DatabaseAdvances, BrowserKeepsTypes
  <2> QED  BY <2>2 DEF DatabaseTypes, BrowserTypes, BoardTypeOK
<1> QED  BY <1>1, <1>2, PTL DEF BoardSpec

---------------------------------------------------------------------------
\* What is read, shown and told.

\* A step that leaves a browser alone leaves what it has read as true as it
\* was of a database that only advances.
LEMMA ReadStands ==
  ASSUME BoardAssumption, BoardTypeOK, BoardTypeOK', Advance, NEW v \in Viewers,
         ReadInv(v), fetch'[v] = fetch[v], own'[v] = own[v]
  PROVE  ReadInv(v)'
<1> SUFFICES ASSUME fetch[v] # Nothing, NEW l \in Lines
             PROVE  /\ own[v][l] <= fetch[v].version[l] /\ fetch[v].version[l] <= version'[l]
                    /\ fetch[v].version[l] = version'[l] =>
                         /\ fetch[v].seen[l] = stage'[l] /\ fetch[v].by[l] = mover'[l]
                         /\ fetch[v].pdf[l] = quoted'[l]
  BY DEF ReadInv
<1>1. fetch[v] \in Fetch  BY DEF BoardTypeOK
<1>2. /\ fetch[v].version[l] \in Nat /\ version[l] \in Nat /\ version'[l] \in Nat
      /\ own[v][l] \in Nat
  BY <1>1 DEF Fetch, BoardTypeOK, BoardAssumption
<1>3. version[l] <= version'[l]  BY DEF Advance
<1>4. /\ own[v][l] <= fetch[v].version[l] /\ fetch[v].version[l] <= version[l]
      /\ fetch[v].version[l] = version[l] =>
           /\ fetch[v].seen[l] = stage[l] /\ fetch[v].by[l] = mover[l]
           /\ fetch[v].pdf[l] = quoted[l]
  BY DEF ReadInv
<1>5. CASE fetch[v].version[l] = version'[l]
  <2>1. version'[l] = version[l]  BY <1>2, <1>3, <1>4, <1>5
  <2> QED  BY <1>2, <1>3, <1>4, <1>5, <2>1 DEF Advance
<1>6. CASE fetch[v].version[l] # version'[l]  BY <1>2, <1>3, <1>4, <1>6
<1> QED  BY <1>5, <1>6

LEMMA ShownStands ==
  ASSUME BoardAssumption, BoardTypeOK, BoardTypeOK', Advance, NEW v \in Viewers,
         ShownInv(v), shown'[v] = shown[v],
         ~invalid'[v] => ~invalid[v] /\ own'[v] = own[v]
  PROVE  ShownInv(v)'
<1> SUFFICES ASSUME shown[v] # Nothing, NEW l \in DOMAIN shown[v]
             PROVE  /\ l \in Lines /\ shown[v][l].version <= version'[l]
                    /\ ~invalid'[v] => own'[v][l] <= shown[v][l].version
                    /\ shown[v][l].version = version'[l] =>
                         /\ shown[v][l].stage = stage'[l]
                         /\ shown[v][l].offers =
                              Offers(UserOf[v], stage'[l], mover'[l], quoted'[l])
  BY DEF ShownInv
<1>1. l \in Lines /\ shown[v][l] \in Column
  BY DEF BoardTypeOK, IsBoard, ShownInv
<1>2. /\ shown[v][l].version \in Nat /\ version[l] \in Nat /\ version'[l] \in Nat
  BY <1>1 DEF Column, BoardTypeOK, BoardAssumption
<1>3. version[l] <= version'[l]  BY <1>1 DEF Advance
<1>4. /\ shown[v][l].version <= version[l]
      /\ ~invalid[v] => own[v][l] <= shown[v][l].version
      /\ shown[v][l].version = version[l] =>
           /\ shown[v][l].stage = stage[l]
           /\ shown[v][l].offers = Offers(UserOf[v], stage[l], mover[l], quoted[l])
  BY DEF ShownInv
<1>5. CASE shown[v][l].version = version'[l]
  <2>1. version'[l] = version[l]  BY <1>2, <1>3, <1>4, <1>5
  <2>2. stage'[l] = stage[l] /\ mover'[l] = mover[l] /\ quoted'[l] = quoted[l]
    BY <1>1, <2>1 DEF Advance
  <2> QED  BY <1>1, <1>4, <1>5, <2>1, <2>2
<1>6. CASE shown[v][l].version # version'[l]
  BY <1>1, <1>2, <1>3, <1>4, <1>6
<1> QED  BY <1>5, <1>6

LEMMA OwnStands ==
  ASSUME BoardAssumption, BoardTypeOK, BoardTypeOK', Advance, NEW v \in Viewers,
         OwnInv(v), own'[v] = own[v]
  PROVE  OwnInv(v)'
<1> SUFFICES ASSUME NEW l \in Lines  PROVE own[v][l] <= version'[l]
  BY DEF OwnInv
<1>1. own[v][l] \in Nat /\ version[l] \in Nat /\ version'[l] \in Nat
  BY DEF BoardTypeOK, BoardAssumption
<1> QED  BY <1>1 DEF OwnInv, Advance

\* Only a browser's own steps change what it has read, shows or was told.
LEMMA OthersStand ==
  ASSUME GraphAssumption, BoardAssumption, BoardInv, BoardTypeOK', Advance,
         NEW v \in Viewers, fetch'[v] = fetch[v], shown'[v] = shown[v],
         invalid'[v] = invalid[v] \/ invalid'[v], own'[v] = own[v]
  PROVE  ReadInv(v)' /\ ShownInv(v)' /\ OwnInv(v)'
BY ReadStands, ShownStands, OwnStands DEF BoardInv

BrowserStep(v) ==
  \/ FetchLines(v) \/ DropHidden(v) \/ FetchMovers(v) \/ FetchPdfs(v)
  \/ ShowBoard(v) \/ FetchFails(v) \/ HearAnswer(v)

\* The browser's own steps.
LEMMA BrowserStepKeeps ==
  ASSUME GraphAssumption, BoardAssumption, BoardInv, BoardTypeOK', Advance,
         NEW v \in Viewers, BrowserStep(v)
  PROVE  ReadInv(v)' /\ ShownInv(v)' /\ OwnInv(v)'
<1>1. BoardTypeOK /\ ReadInv(v) /\ ShownInv(v) /\ OwnInv(v)  BY DEF BoardInv
<1>2. ASSUME NEW next, Read(v, next),
             next # Nothing =>
               \A l \in Lines :
                 /\ own[v][l] <= next.version[l] /\ next.version[l] <= version[l]
                 /\ next.version[l] = version[l] =>
                      /\ next.seen[l] = stage[l] /\ next.by[l] = mover[l]
                      /\ next.pdf[l] = quoted[l]
      PROVE  ReadInv(v)' /\ ShownInv(v)' /\ OwnInv(v)'
  <2>1. /\ fetch'[v] = next /\ UNCHANGED <<stage, mover, old, quoted, version>>
        /\ UNCHANGED <<shown, invalid, own>>
    BY <1>1, <1>2 DEF Read, BoardTypeOK, database
  <2>2. ReadInv(v)'  BY <1>2, <2>1 DEF ReadInv
  <2> QED  BY <1>1, <2>1, <2>2, ShownStands, OwnStands
<1>3. CASE FetchLines(v)
  <2> DEFINE next == [pc |-> "lines", lines |-> InScope[v], seen |-> stage,
                      version |-> version, by |-> mover, pdf |-> quoted]
  <2>1. \A l \in Lines : own[v][l] <= version[l] /\ version[l] \in Nat
    BY <1>1 DEF OwnInv, BoardTypeOK, BoardAssumption
  <2>2. Read(v, next)  BY <1>3 DEF FetchLines
  <2>3. /\ next.version = version /\ next.seen = stage
        /\ next.by = mover /\ next.pdf = quoted
    OBVIOUS
  <2> HIDE DEF next
  <2> QED  BY <1>2, <2>1, <2>2, <2>3
<1>4. ASSUME fetch[v] # Nothing  PROVE fetch[v] \in Fetch
  BY <1>1, <1>4 DEF BoardTypeOK
<1>5. CASE DropHidden(v)
  <2> DEFINE next == [fetch[v] EXCEPT !.pc = "visible", !.lines = @ \ Dropped(v)]
  <2>1. fetch[v] # Nothing /\ Read(v, next)  BY <1>5 DEF DropHidden, At
  <2>2. /\ next.version = fetch[v].version /\ next.seen = fetch[v].seen
        /\ next.by = fetch[v].by /\ next.pdf = fetch[v].pdf
    BY <1>4, <2>1 DEF Fetch
  <2> HIDE DEF next
  <2> QED  BY <1>1, <1>2, <2>1, <2>2 DEF ReadInv
<1>6. CASE FetchMovers(v)
  <2> DEFINE next == [fetch[v] EXCEPT !.pc = "movers", !.by = mover]
  <2>1. fetch[v] # Nothing /\ Read(v, next)  BY <1>6 DEF FetchMovers, At
  <2>2. /\ next.version = fetch[v].version /\ next.seen = fetch[v].seen
        /\ next.by = mover /\ next.pdf = fetch[v].pdf
    BY <1>4, <2>1 DEF Fetch
  <2> HIDE DEF next
  <2> QED  BY <1>1, <1>2, <2>1, <2>2 DEF ReadInv
<1>7. CASE FetchPdfs(v)
  <2> DEFINE next == [fetch[v] EXCEPT !.pc = "answered", !.pdf = quoted]
  <2>1. fetch[v] # Nothing /\ Read(v, next)  BY <1>7 DEF FetchPdfs, At
  <2>2. /\ next.version = fetch[v].version /\ next.seen = fetch[v].seen
        /\ next.by = fetch[v].by /\ next.pdf = quoted
    BY <1>4, <2>1 DEF Fetch
  <2> HIDE DEF next
  <2> QED  BY <1>1, <1>2, <2>1, <2>2 DEF ReadInv
<1>8. CASE FetchFails(v)  BY <1>2, <1>8 DEF FetchFails
<1>9. CASE ShowBoard(v)
  <2>1. /\ fetch[v] # Nothing /\ fetch'[v] = Nothing /\ shown'[v] = Answered(v)
        /\ UNCHANGED <<stage, mover, old, quoted, version, own>>
    BY <1>1, <1>9 DEF ShowBoard, At, BoardTypeOK, database
  <2>2. fetch[v] \in Fetch  BY <1>4, <2>1
  <2>3. ReadInv(v)'  BY <2>1 DEF ReadInv
  <2>4. OwnInv(v)'  BY <1>1, <2>1, OwnStands
  <2>5. ShownInv(v)'
    <3> SUFFICES ASSUME NEW l \in fetch[v].lines
                 PROVE  /\ l \in Lines /\ Answered(v)[l].version <= version[l]
                        /\ own[v][l] <= Answered(v)[l].version
                        /\ Answered(v)[l].version = version[l] =>
                             /\ Answered(v)[l].stage = stage[l]
                             /\ Answered(v)[l].offers =
                                  Offers(UserOf[v], stage[l], mover[l], quoted[l])
      BY <1>1, <2>1, AnsweredIsBoard DEF ShownInv
    <3>1. l \in Lines  BY <2>2 DEF Fetch
    <3>2. /\ own[v][l] <= fetch[v].version[l] /\ fetch[v].version[l] <= version[l]
          /\ fetch[v].version[l] = version[l] =>
               /\ fetch[v].seen[l] = stage[l] /\ fetch[v].by[l] = mover[l]
               /\ fetch[v].pdf[l] = quoted[l]
      BY <1>1, <2>1, <3>1 DEF ReadInv
    <3>3. /\ Answered(v)[l].version = fetch[v].version[l]
          /\ Answered(v)[l].stage = fetch[v].seen[l]
          /\ Answered(v)[l].offers =
               Offers(UserOf[v], fetch[v].seen[l], fetch[v].by[l], fetch[v].pdf[l])
      BY DEF Answered
    <3> QED  BY <3>1, <3>2, <3>3
  <2> QED  BY <2>3, <2>4, <2>5
<1>10. CASE HearAnswer(v)
  <2>1. /\ invalid'[v] /\ fetch'[v] = Nothing /\ shown'[v] = shown[v]
        /\ UNCHANGED <<stage, mover, old, quoted, version>>
        /\ \A l \in Lines : own'[v][l] \in {own[v][l], version[l]}
    BY <1>1, <1>10 DEF HearAnswer, Invalidate, BoardTypeOK, database
  <2>2. ReadInv(v)'  BY <2>1 DEF ReadInv
  <2>3. ShownInv(v)'  BY <1>1, <2>1, ShownStands
  <2>4. OwnInv(v)'
    <3>1. \A l \in Lines : version[l] \in Nat  BY <1>1 DEF BoardTypeOK, BoardAssumption
    <3> QED  BY <1>1, <2>1, <3>1 DEF OwnInv
  <2> QED  BY <2>2, <2>3, <2>4
<1> QED  BY <1>3, <1>5, <1>6, <1>7, <1>8, <1>9, <1>10 DEF BrowserStep

\* A step is one of a browser's own, or leaves every reading alone.
LEMMA StepsApart ==
  ASSUME BoardAssumption, BoardTypeOK, [BoardNext]_boardVars, NEW w \in Viewers,
         ~BrowserStep(w)
  PROVE  /\ fetch'[w] = fetch[w] /\ shown'[w] = shown[w] /\ own'[w] = own[w]
         /\ invalid'[w] = invalid[w] \/ invalid'[w]
<1>1. CASE UNCHANGED tabs  BY <1>1 DEF tabs
<1>2. CASE UNCHANGED boardVars  BY <1>1, <1>2 DEF boardVars
<1>3. ASSUME NEW v \in Viewers,
             \/ GoesStale(v) \/ Click(v) \/ Confirm(v) \/ Decline(v)
             \/ MoveLine(v) \/ RefuseMove(v) \/ LoseAnswer(v)
      PROVE  /\ UNCHANGED <<fetch, shown, own>>
             /\ invalid'[w] = invalid[w] \/ invalid'[w]
  BY <1>3 DEF GoesStale, Click, Confirm, Decline, MoveLine, RefuseMove, LoseAnswer, BoardTypeOK
<1>4. ASSUME NEW v \in Viewers, BrowserStep(v), v # w
      PROVE  /\ fetch'[w] = fetch[w] /\ shown'[w] = shown[w] /\ own'[w] = own[w]
             /\ invalid'[w] = invalid[w]
  BY <1>4 DEF BrowserStep, FetchLines, DropHidden, FetchMovers, FetchPdfs, Read,
    ShowBoard, FetchFails, HearAnswer, Invalidate, BoardTypeOK
<1>5. ASSUME NEW l \in Lines,
             AttachPdf(l) \/ Elapse(l) \/ \E user \in Users : OtherMoves(user, l)
      PROVE  UNCHANGED tabs
  BY <1>5 DEF AttachPdf, Elapse, OtherMoves
<1> QED  BY <1>1, <1>2, <1>3, <1>4, <1>5 DEF BoardNext, BrowserStep

LEMMA BoardAlways ==
  ASSUME GraphAssumption, BoardAssumption PROVE BoardSpec => []BoardInv
<1>1. BoardInit => BoardInv
  <2> SUFFICES ASSUME BoardInit  PROVE BoardInv
    OBVIOUS
  <2>1. BoardTypeOK
    BY DEF BoardInit, BoardTypeOK, GraphAssumption, BoardAssumption
  <2> QED  BY <2>1 DEF BoardInit, BoardInv, ReadInv, ShownInv, OwnInv
<1>2. BoardInv /\ [BoardNext]_boardVars => BoardInv'
  <2> SUFFICES ASSUME BoardInv, [BoardNext]_boardVars  PROVE BoardInv'
    OBVIOUS
  <2>1. BoardTypeOK /\ DatabaseTypes  BY TypesInTwo DEF BoardInv
  <2>2. Advance /\ DatabaseTypes' /\ BrowserTypes'
    BY <2>1, DatabaseAdvances, BrowserKeepsTypes
  <2>3. BoardTypeOK'  BY <2>2 DEF DatabaseTypes, BrowserTypes, BoardTypeOK
  <2>4. ASSUME NEW v \in Viewers  PROVE ReadInv(v)' /\ ShownInv(v)' /\ OwnInv(v)'
    <3>1. CASE BrowserStep(v)  BY <2>2, <2>3, <3>1, BrowserStepKeeps
    <3>2. CASE ~BrowserStep(v)  BY <2>1, <2>2, <2>3, <3>2, StepsApart, OthersStand
    <3> QED  BY <3>1, <3>2
  <2> QED  BY <2>3, <2>4 DEF BoardInv
<1> QED  BY <1>1, <1>2, PTL DEF BoardSpec

\* For every graph, user and line: a line that has not changed since the
\* board read it is offered what the engine would grant, and shown where it
\* would go.
THEOREM AdviceIsTrue ==
  ASSUME GraphAssumption, BoardAssumption PROVE BoardSpec => []OffersAreTrue
<1>1. BoardInv => OffersAreTrue
  <2> SUFFICES ASSUME BoardInv, NEW v \in Viewers, shown[v] # Nothing,
                      NEW l \in DOMAIN shown[v], shown[v][l].version = version[l],
                      NEW offer \in shown[v][l].offers
               PROVE  /\ offer.available = Granted(UserOf[v], l, offer.action)
                      /\ offer.available /\ Sound(UserOf[v], l, offer.action) =>
                           \A rule \in CandidateRules(UserOf[v], stage[l], offer.action) :
                             rule.to = offer.to
    BY DEF OffersAreTrue
  <2>1. l \in Lines /\ offer \in Offers(UserOf[v], stage[l], mover[l], quoted[l])
    BY DEF BoardInv, ShownInv
  <2> QED  BY <2>1, OffersTrue
<1> QED  BY <1>1, BoardAlways, PTL

\* No answer begun before one's own move lands on the board after it.
THEOREM OwnMoveStays ==
  ASSUME GraphAssumption, BoardAssumption PROVE BoardSpec => []OwnMoveShown
<1>1. BoardInv => OwnMoveShown
  <2> SUFFICES ASSUME BoardInv, NEW v \in Viewers, shown[v] # Nothing, ~invalid[v],
                      NEW l \in DOMAIN shown[v]
               PROVE  shown[v][l].version >= own[v][l]
    BY DEF OwnMoveShown
  <2>1. l \in Lines /\ shown[v][l] \in Column /\ own[v][l] <= shown[v][l].version
    BY DEF BoardInv, ShownInv, BoardTypeOK, IsBoard
  <2>2. own[v][l] \in Nat /\ shown[v][l].version \in Nat
    BY <2>1 DEF BoardInv, BoardTypeOK, Column, BoardAssumption
  <2> QED  BY <2>1, <2>2
<1> QED  BY <1>1, BoardAlways, PTL

---------------------------------------------------------------------------
\* What is left out.

LEMMA SettledStands ==
  ASSUME Hiding \subseteq DeadEnds, Advance, NEW l \in Lines, Settled(l)
  PROVE  Settled(l)'
BY DEF Settled, Advance

\* When only dead ends hide their lines, a line a board leaves out is closed
\* and old, at whatever moments its GET read the stages and their times.
THEOREM LeftOutIsSettled ==
  ASSUME GraphAssumption, BoardAssumption, Hiding \subseteq DeadEnds
  PROVE  BoardSpec => []HiddenIsSettled
<1> DEFINE Inv == \A v \in Viewers : HiddenInv(v)
<1>1. BoardInit => Inv
  BY DEF BoardInit, HiddenInv
<1>2. Inv /\ BoardTypeOK /\ BoardTypeOK' /\ [BoardNext]_boardVars => Inv'
  <2> SUFFICES ASSUME Inv, BoardTypeOK, BoardTypeOK', [BoardNext]_boardVars,
                      NEW v \in Viewers
               PROVE  HiddenInv(v)'
    OBVIOUS
  <2>1. Advance  BY TypesInTwo, DatabaseAdvances
  <2>2. HiddenInv(v) /\ InScope[v] \subseteq Lines  BY DEF BoardAssumption
  <2> HIDE DEF Inv
  <2>3. fetch[v] # Nothing => fetch[v] \in Fetch  BY DEF BoardTypeOK
  <2>4. fetch[v] # Nothing =>
          \A l \in Lines : fetch[v].seen[l] \in Hiding => stage'[l] = fetch[v].seen[l]
    BY <2>1, <2>2 DEF HiddenInv, Advance
  <2>5. /\ fetch[v] # Nothing => \A l \in InScope[v] \ fetch[v].lines : Settled(l)'
        /\ shown[v] # Nothing => \A l \in InScope[v] \ DOMAIN shown[v] : Settled(l)'
    BY <2>1, <2>2, SettledStands DEF HiddenInv
  <2>6. CASE fetch'[v] \in {fetch[v], Nothing} /\ shown'[v] = shown[v]
    BY <2>4, <2>5, <2>6 DEF HiddenInv
  <2>7. CASE FetchLines(v)
    <3> DEFINE next == [pc |-> "lines", lines |-> InScope[v], seen |-> stage,
                        version |-> version, by |-> mover, pdf |-> quoted]
    <3>1. fetch'[v] = next /\ stage' = stage /\ shown' = shown
      BY <2>7 DEF FetchLines, Read, BoardTypeOK, database
    <3>2. next.lines = InScope[v] /\ next.seen = stage  OBVIOUS
    <3> HIDE DEF next
    <3> QED  BY <2>5, <3>1, <3>2 DEF HiddenInv
  <2>8. CASE DropHidden(v)
    <3> DEFINE next == [fetch[v] EXCEPT !.pc = "visible", !.lines = @ \ Dropped(v)]
    <3>1. fetch[v] # Nothing /\ Read(v, next)  BY <2>8 DEF DropHidden, At
    <3>2. /\ fetch'[v] = next /\ shown' = shown
          /\ stage' = stage /\ old' = old
      BY <3>1 DEF Read, BoardTypeOK, database
    <3>3. next.lines = fetch[v].lines \ Dropped(v) /\ next.seen = fetch[v].seen
      BY <2>3, <3>1 DEF Fetch
    <3>4. \A l \in Dropped(v) : l \in Lines /\ Settled(l)
      BY <2>2, <2>3, <3>1 DEF Dropped, Settled, HiddenInv, Fetch
    <3>5. \A l \in Dropped(v) : Settled(l)'  BY <2>1, <3>4, SettledStands
    <3> HIDE DEF next
    <3> QED  BY <2>4, <2>5, <3>1, <3>2, <3>3, <3>5 DEF HiddenInv
  <2>9. ASSUME FetchMovers(v) \/ FetchPdfs(v)
        PROVE  HiddenInv(v)'
    <3>1. /\ fetch[v] # Nothing /\ shown' = shown
          /\ fetch'[v].lines = fetch[v].lines /\ fetch'[v].seen = fetch[v].seen
      <4>1. CASE FetchMovers(v)
        <5>1. /\ fetch[v] # Nothing /\ shown' = shown
              /\ fetch'[v] = [fetch[v] EXCEPT !.pc = "movers", !.by = mover]
          BY <4>1 DEF FetchMovers, At, Read, BoardTypeOK
        <5> QED  BY <2>3, <5>1 DEF Fetch
      <4>2. CASE FetchPdfs(v)
        <5>1. /\ fetch[v] # Nothing /\ shown' = shown
              /\ fetch'[v] = [fetch[v] EXCEPT !.pc = "answered", !.pdf = quoted]
          BY <4>2 DEF FetchPdfs, At, Read, BoardTypeOK
        <5> QED  BY <2>3, <5>1 DEF Fetch
      <4> QED  BY <2>9, <4>1, <4>2
    <3> QED  BY <2>4, <2>5, <3>1 DEF HiddenInv
  <2>10. CASE ShowBoard(v)
    <3>1. /\ fetch[v] # Nothing /\ fetch'[v] = Nothing /\ shown'[v] = Answered(v)
          /\ DOMAIN Answered(v) = fetch[v].lines
      BY <2>10 DEF ShowBoard, At, BoardTypeOK, Answered
    <3> QED  BY <2>5, <3>1 DEF HiddenInv
  <2>11. CASE FetchFails(v) \/ HearAnswer(v)
    <3>1. fetch'[v] = Nothing /\ shown' = shown
      BY <2>11 DEF FetchFails, Read, HearAnswer, Invalidate, BoardTypeOK
    <3> QED  BY <2>6, <3>1
  <2>12. CASE ~BrowserStep(v)  BY <2>6, <2>12, StepsApart
  <2> QED  BY <2>7, <2>8, <2>9, <2>10, <2>11, <2>12 DEF BrowserStep
<1>3. Inv => HiddenIsSettled  BY DEF HiddenInv, HiddenIsSettled, Settled
<1> QED  BY <1>1, <1>2, <1>3, BoardTypeCorrect, PTL DEF BoardSpec
=============================================================================
