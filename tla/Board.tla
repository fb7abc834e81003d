------------------------------- MODULE Board -------------------------------
(***************************************************************************)
(* The board as a browser sees it: GET /api/v1/board read statement by     *)
(* statement, the cache that keeps the answer, the dialog opened from it   *)
(* and the POST the dialog sends.                                          *)
(*                                                                         *)
(* The request runs under READ COMMITTED, so its statements (the lines,    *)
(* the time they entered their stage, who moved them, which cards have a   *)
(* PDF) each see what is committed by then.  A POST is one step here:      *)
(* TransitionEngine shows that its requests are atomic moves.              *)
(***************************************************************************)
EXTENDS StageGraph

CONSTANTS
  Lines,        \* live job lines of live cards
  Viewers,      \* browser tabs
  UserOf,       \* UserOf[v]: who is logged in there
  InScope,      \* InScope[v]: the lines the user's owner scope leaves in
  SequenceNo,   \* SequenceNo[s]: where stage s stands on the board
  Hiding,       \* stages with a board_hide_after_hours
  NoUser,       \* no user
  Nothing,      \* no dialog, no request, no board
  MaxVersion    \* bound: how often a line may change

VARIABLES
  stage,     \* stage[l]: committed current_stage_id
  mover,     \* mover[l]: performed_by of the line's latest transition
  old,       \* old[l]: that transition is more hours ago than its stage hides after
  quoted,    \* quoted[l]: the line's card has a quotation with a PDF
  version,   \* version[l]: how often the line or its quotation changed (history)
  fetch,     \* fetch[v]: the GET v has in flight, as far as it has read
  shown,     \* shown[v]: the board v shows
  invalid,   \* invalid[v]: the cache entry is marked for a refetch
  dialog,    \* dialog[v]: the action v is asked to confirm
  post,      \* post[v]: the POST v has in flight
  own        \* own[v][l]: version of l after v's last move it was told of (history)

database == <<stage, mover, old, quoted, version>>
tabs == <<fetch, shown, invalid, dialog, post, own>>
boardVars == <<database, tabs>>

Offer == [action : Actions, to : Stages, available : BOOLEAN]

Column == [stage : Stages, offers : SUBSET Offer, version : 0..MaxVersion]

Dialog == [line : Lines, action : Actions, from : Stages]

Answers == {"none", "201", "error", "409"}

Post == [line : Lines, action : Actions, answer : Answers]

Fetch == [pc : {"lines", "visible", "movers", "answered"}, lines : SUBSET Lines,
          seen : [Lines -> Stages], version : [Lines -> 0..MaxVersion],
          by : [Lines -> Users \cup {NoUser}], pdf : [Lines -> BOOLEAN]]

IsBoard(b) == \E some \in SUBSET Lines : b \in [some -> Column]

BoardAssumption ==
  /\ UserOf \in [Viewers -> Users] /\ InScope \in [Viewers -> SUBSET Lines]
  /\ SequenceNo \in [Stages -> Nat] /\ Hiding \subseteq Stages
  /\ \A a, b \in Stages : SequenceNo[a] = SequenceNo[b] => a = b
  /\ NoUser \notin Users /\ MaxVersion \in Nat
  /\ Nothing \notin Fetch \cup Dialog \cup Post /\ ~IsBoard(Nothing)

---------------------------------------------------------------------------
\* What the user is offered.

\* Mutant: the last mover is not asked.
Blocked_ConditionOnly(rule, user, by, pdf) ==
  ConditionVerdict(rule, pdf) # "permit"

\* _block_reason: an own move at a gate, or a condition that does not hold;
\* a broken expression only greys the button.
Blocked(rule, user, by, pdf) ==
  \/ SelfApproved(rule, user, by)
  \/ ConditionVerdict(rule, pdf) # "permit"

\* The rules come ordered by the place of their destination; of several for
\* one action the first that is not blocked is kept, or else the first.
First(rules) ==
  CHOOSE rule \in rules :
    \A other \in rules : SequenceNo[rule.to] <= SequenceNo[other.to]

Best(rules, user, by, pdf) ==
  LET open == {rule \in rules : ~Blocked(rule, user, by, pdf)}
      kept == First(IF open # {} THEN open ELSE rules)
  IN [action |-> kept.action, to |-> kept.to, available |-> open # {}]

Offers(user, at, by, pdf) ==
  {Best(CandidateRules(user, at, rule.action), user, by, pdf) :
     rule \in {r \in Rules : r.from = at /\ r.role \in RolesOf[user]}}

---------------------------------------------------------------------------

BoardInit ==
  /\ stage = [l \in Lines |-> InitialStage]
  /\ mover = [l \in Lines |-> NoUser]
  /\ old = [l \in Lines |-> FALSE]
  /\ quoted = [l \in Lines |-> FALSE]
  /\ version = [l \in Lines |-> 0]
  /\ fetch = [v \in Viewers |-> Nothing]
  /\ shown = [v \in Viewers |-> Nothing]
  /\ invalid = [v \in Viewers |-> FALSE]
  /\ dialog = [v \in Viewers |-> Nothing]
  /\ post = [v \in Viewers |-> Nothing]
  /\ own = [v \in Viewers |-> [l \in Lines |-> 0]]

\* How far a GET has got.
At(v, place) == fetch[v] # Nothing /\ fetch[v].pc = place

Read(v, next) ==
  /\ fetch' = [fetch EXCEPT ![v] = next]
  /\ UNCHANGED <<database, shown, invalid, dialog, post, own>>

\* The page is opened, focused or told to refetch: the lines and their
\* stages are one statement.
FetchLines(v) ==
  /\ fetch[v] = Nothing
  /\ shown[v] = Nothing \/ invalid[v]
  /\ Read(v, [pc |-> "lines", lines |-> InScope[v], seen |-> stage,
              version |-> version, by |-> mover, pdf |-> quoted])

\* Mutant: a line is hidden as soon as it is closed.
Dropped_AtOnce(v) ==
  {l \in fetch[v].lines : fetch[v].seen[l] \in Hiding /\ mover[l] # NoUser}

\* board_visible_lines: a line without a transition row stays.
Dropped(v) ==
  {l \in fetch[v].lines :
     fetch[v].seen[l] \in Hiding /\ mover[l] # NoUser /\ old[l]}

DropHidden(v) ==
  /\ At(v, "lines")
  /\ Read(v, [fetch[v] EXCEPT !.pc = "visible", !.lines = @ \ Dropped(v)])

FetchMovers(v) ==
  /\ At(v, "visible")
  /\ Read(v, [fetch[v] EXCEPT !.pc = "movers", !.by = mover])

FetchPdfs(v) ==
  /\ At(v, "movers")
  /\ Read(v, [fetch[v] EXCEPT !.pc = "answered", !.pdf = quoted])

Answered(v) ==
  LET g == fetch[v]
  IN [l \in g.lines |->
        [stage |-> g.seen[l], version |-> g.version[l],
         offers |-> Offers(UserOf[v], g.seen[l], g.by[l], g.pdf[l])]]

\* A line's card lives in its column: a dialog open on it goes with it when
\* the line changes column or leaves the board.
StillThere(d, board) ==
  d # Nothing /\ d.line \in DOMAIN board /\ board[d.line].stage = d.from

ShowBoard(v) ==
  /\ At(v, "answered")
  /\ shown' = [shown EXCEPT ![v] = Answered(v)]
  /\ invalid' = [invalid EXCEPT ![v] = FALSE]
  /\ fetch' = [fetch EXCEPT ![v] = Nothing]
  /\ dialog' = [dialog EXCEPT ![v] = IF StillThere(@, Answered(v)) THEN @ ELSE Nothing]
  /\ UNCHANGED <<database, post, own>>

\* The GET is lost: what was shown stays, and so does its mark.
FetchFails(v) ==
  /\ fetch[v] # Nothing
  /\ Read(v, Nothing)

\* The data is older than staleTime when the window is focused again.
GoesStale(v) ==
  /\ shown[v] # Nothing /\ ~invalid[v] /\ fetch[v] = Nothing
  /\ invalid' = [invalid EXCEPT ![v] = TRUE]
  /\ UNCHANGED <<database, fetch, shown, dialog, post, own>>

---------------------------------------------------------------------------
\* The dialog.

\* A button is there for every offer and works for the available ones.
Click(v) ==
  /\ shown[v] # Nothing /\ dialog[v] = Nothing /\ post[v] = Nothing
  /\ \E l \in DOMAIN shown[v] : \E offer \in shown[v][l].offers :
        /\ offer.available
        /\ dialog' = [dialog EXCEPT ![v] =
                        [line |-> l, action |-> offer.action,
                         from |-> shown[v][l].stage]]
  /\ UNCHANGED <<database, fetch, shown, invalid, post, own>>

\* Confirm sends the action code, with the note the dialog asks for.
Confirm(v) ==
  /\ dialog[v] # Nothing /\ post[v] = Nothing
  /\ shown[v][dialog[v].line].offers # {}
  /\ post' = [post EXCEPT ![v] =
                [line |-> dialog[v].line, action |-> dialog[v].action,
                 answer |-> "none"]]
  /\ UNCHANGED <<database, fetch, shown, invalid, dialog, own>>

Decline(v) ==
  /\ dialog[v] # Nothing /\ post[v] = Nothing
  /\ dialog' = [dialog EXCEPT ![v] = Nothing]
  /\ UNCHANGED <<database, fetch, shown, invalid, post, own>>

Reply(v, answer) == post' = [post EXCEPT ![v].answer = answer]

Judged(rule, user, l) == Verdict(rule, user, mover[l], TRUE, quoted[l])

\* perform_transition from where the line stands now, its note given.
Moved(user, l, action) ==
  LET rules == CandidateRules(user, stage[l], action)
  IN /\ version[l] < MaxVersion /\ ~Conflicting(rules)
     /\ \E rule \in rules :
           /\ Judged(rule, user, l) = "permit"
           /\ stage' = [stage EXCEPT ![l] = rule.to]
     /\ mover' = [mover EXCEPT ![l] = user]
     /\ old' = [old EXCEPT ![l] = FALSE]
     /\ version' = [version EXCEPT ![l] = @ + 1]
     /\ UNCHANGED quoted

MoveLine(v) ==
  /\ post[v] # Nothing /\ post[v].answer = "none"
  /\ Moved(UserOf[v], post[v].line, post[v].action)
  /\ Reply(v, "201")
  /\ UNCHANGED <<fetch, shown, invalid, dialog, own>>

Refused(user, l, action) ==
  LET rules == CandidateRules(user, stage[l], action)
  IN \/ Conflicting(rules)
     \/ \E rule \in rules : Judged(rule, user, l) = "config"
     \/ \A rule \in rules : Judged(rule, user, l) # "permit"

\* 409 when the line moves between the request's read and its lock.
RefuseMove(v) ==
  /\ post[v] # Nothing /\ post[v].answer = "none"
  /\ \/ /\ Refused(UserOf[v], post[v].line, post[v].action)
        /\ Reply(v, "error")
     \/ Reply(v, "409")
  /\ UNCHANGED <<database, fetch, shown, invalid, dialog, own>>

\* The request or its answer is lost; the browser cannot tell which.
LoseAnswer(v) ==
  /\ post[v] # Nothing /\ post[v].answer \in {"none", "201"}
  /\ Reply(v, "error")
  /\ UNCHANGED <<database, fetch, shown, invalid, dialog, own>>

\* Mutant: a GET that began before the answer is let run on.
Invalidate_KeepsInFlight(v) ==
  /\ invalid' = [invalid EXCEPT ![v] = TRUE]
  /\ UNCHANGED fetch

\* invalidateQueries marks the entry and cancels the fetch in flight.
Invalidate(v) ==
  /\ invalid' = [invalid EXCEPT ![v] = TRUE]
  /\ fetch' = [fetch EXCEPT ![v] = Nothing]

\* Whatever the answer, every board is refetched; success and 409 close the
\* dialog, other errors leave it open.
HearAnswer(v) ==
  /\ post[v] # Nothing /\ post[v].answer # "none"
  /\ Invalidate(v)
  /\ post' = [post EXCEPT ![v] = Nothing]
  /\ dialog' = [dialog EXCEPT ![v] = IF post[v].answer = "error" THEN @ ELSE Nothing]
  /\ own' = [own EXCEPT ![v][post[v].line] =
               IF post[v].answer = "201" THEN version[post[v].line] ELSE @]
  /\ UNCHANGED <<database, shown>>

---------------------------------------------------------------------------
\* What else happens to a line.

\* Somebody else's request, from a board of theirs.
OtherMoves(user, l) ==
  /\ \E action \in Actions : Moved(user, l, action)
  /\ UNCHANGED tabs

AttachPdf(l) ==
  /\ ~quoted[l] /\ version[l] < MaxVersion
  /\ quoted' = [quoted EXCEPT ![l] = TRUE]
  /\ version' = [version EXCEPT ![l] = @ + 1]
  /\ UNCHANGED <<stage, mover, old, tabs>>

\* board_hide_after_hours pass.
Elapse(l) ==
  /\ stage[l] \in Hiding /\ ~old[l]
  /\ old' = [old EXCEPT ![l] = TRUE]
  /\ UNCHANGED <<stage, mover, quoted, version, tabs>>

BoardNext ==
  \/ \E v \in Viewers :
        \/ FetchLines(v) \/ DropHidden(v) \/ FetchMovers(v) \/ FetchPdfs(v)
        \/ ShowBoard(v) \/ FetchFails(v) \/ GoesStale(v)
        \/ Click(v) \/ Confirm(v) \/ Decline(v)
        \/ MoveLine(v) \/ RefuseMove(v) \/ LoseAnswer(v) \/ HearAnswer(v)
  \/ \E l \in Lines :
        AttachPdf(l) \/ Elapse(l) \/ \E user \in Users : OtherMoves(user, l)

BoardSpec == BoardInit /\ [][BoardNext]_boardVars
---------------------------------------------------------------------------
\* Properties

BoardTypeOK ==
  /\ stage \in [Lines -> Stages]
  /\ mover \in [Lines -> Users \cup {NoUser}]
  /\ old \in [Lines -> BOOLEAN] /\ quoted \in [Lines -> BOOLEAN]
  /\ version \in [Lines -> 0..MaxVersion]
  /\ invalid \in [Viewers -> BOOLEAN]
  /\ own \in [Viewers -> [Lines -> 0..MaxVersion]]
  /\ fetch \in [Viewers -> Fetch \cup {Nothing}]
  /\ DOMAIN shown = Viewers /\ \A v \in Viewers : shown[v] = Nothing \/ IsBoard(shown[v])
  /\ dialog \in [Viewers -> Dialog \cup {Nothing}]
  /\ post \in [Viewers -> Post \cup {Nothing}]

\* What the engine would do with an action from here, given a note.
Granted(user, l, action) ==
  LET rules == CandidateRules(user, stage[l], action)
  IN \E rule \in rules : Verdict(rule, user, mover[l], TRUE, quoted[l]) = "permit"

Sound(user, l, action) ==
  LET rules == CandidateRules(user, stage[l], action)
  IN ~Conflicting(rules) /\ \A rule \in rules : rule.condition # "broken"

\* Advice and engine agree: for a line unchanged since the board read it, an
\* action is offered as available exactly when some rule would let it
\* through, and then, unless the rules disagree or one is broken, the
\* button shows where the line would go.
OffersAreTrue ==
  \A v \in Viewers : shown[v] # Nothing =>
    \A l \in DOMAIN shown[v] : shown[v][l].version = version[l] =>
      \A offer \in shown[v][l].offers :
        /\ offer.available = Granted(UserOf[v], l, offer.action)
        /\ offer.available /\ Sound(UserOf[v], l, offer.action) =>
             \A rule \in CandidateRules(UserOf[v], stage[l], offer.action) :
               rule.to = offer.to

\* A line missing from a board is one that was closed long enough ago, and
\* it is there still: none that moves, or has just moved, is left out,
\* however the statements of the GET fall among the moves.
HiddenIsSettled ==
  \A v \in Viewers : shown[v] # Nothing =>
    \A l \in InScope[v] \ DOMAIN shown[v] : stage[l] \in Hiding /\ old[l]

\* Once a viewer has been told of their own move and the board is not
\* waiting for a refetch, it shows the line as it was after that move or
\* later: no answer begun before the move lands on top of it.
OwnMoveShown ==
  \A v \in Viewers : shown[v] # Nothing /\ ~invalid[v] =>
    \A l \in DOMAIN shown[v] : shown[v][l].version >= own[v][l]
=============================================================================
