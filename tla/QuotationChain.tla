--------------------------- MODULE QuotationChain ---------------------------
(***************************************************************************)
(* The quotation revisions of job cards: create_quotation_revision, as     *)
(* concurrent requests run it, and the Django admin's Quotation form,      *)
(* which can also file a revision under another card.                      *)
(*                                                                         *)
(* A request is one transaction at READ COMMITTED.  It locks the newest    *)
(* revision it can see, supersedes it, takes a number from the series,     *)
(* whose row it then holds to its end, and inserts the next revision.      *)
(* SELECT ... FOR UPDATE waits for the row it chose and then looks at it   *)
(* again: a row that has left the card is passed over for the next one.    *)
(* It does not look for a newer one, which is why the unique indexes are   *)
(* needed.                                                                 *)
(***************************************************************************)
EXTENDS Integers, FiniteSets

CONSTANTS
  Cards,         \* job cards
  Uploads,       \* uploads; each runs once and makes at most one revision
  CardOf,        \* CardOf[r]: the card of the URL of upload r
  ByHand,        \* id of the row the admin's add form makes
  None,          \* no revision
  MaxSaves       \* bound on saves of the admin's change form

ChainAssumption ==
  /\ ByHand \notin Uploads /\ None \notin Uploads \cup {ByHand}
  /\ CardOf \in [Uploads -> Cards]
  /\ MaxSaves \in Nat

Ids == Uploads \cup {ByHand}

Statuses == {"draft", "superseded"}

Revision ==
  [id : Ids, card : Cards, no : Nat, supersedes : Ids \cup {None}, status : Statuses]

VARIABLES
  quotes,     \* the committed rows of sales_quotations
  uploadPc,   \* uploadPc[r]: how far request r has got
  seen,       \* seen[r]: ids of the rows the SELECT of r has found and not tried
  locked,     \* locked[r]: ids of the rows r holds FOR UPDATE
  previous,   \* previous[r]: id of the revision r supersedes, or None
  draft,      \* draft[r]: {} or the one row r has inserted
  reply,      \* reply[r]: the answer of request r
  saves,      \* saves of the admin's change form
  refiled     \* the cards that form has taken a revision from or given one to

chainVars ==
  <<quotes, uploadPc, seen, locked, previous, draft, reply, saves, refiled>>

Points == {"idle", "chosen", "locked", "demoted", "inserted", "done"}

QuoteOf(id) == CHOOSE q \in quotes : q.id = id

Of(card) == {q \in quotes : q.card = card}

\* ORDER BY revision_no DESC LIMIT 1.
Newest(rows) == {q \in rows : \A other \in rows : other.no <= q.no}

ChainInit ==
  /\ quotes = {}
  /\ uploadPc = [r \in Uploads |-> "idle"]
  /\ seen = [r \in Uploads |-> {}]
  /\ locked = [r \in Uploads |-> {}]
  /\ previous = [r \in Uploads |-> None]
  /\ draft = [r \in Uploads |-> {}]
  /\ reply = [r \in Uploads |-> "none"]
  /\ saves = 0
  /\ refiled = {}

---------------------------------------------------------------------------
\* create_quotation_revision.

Goto(r, point) == uploadPc' = [uploadPc EXCEPT ![r] = point]

\* The transaction ends, and with it its locks.
Release(r) ==
  /\ Goto(r, "done")
  /\ draft' = [draft EXCEPT ![r] = {}]
  /\ locked' = [locked EXCEPT ![r] = {}]

\* It is rolled back: nothing it wrote was visible to others.
Refuse(r, answer) ==
  /\ Release(r)
  /\ reply' = [reply EXCEPT ![r] = answer]
  /\ UNCHANGED <<quotes, seen, previous, saves, refiled>>

\* The SELECT takes its snapshot: the revisions of the card committed by now.
Choose(r) ==
  /\ uploadPc[r] = "idle"
  /\ Goto(r, "chosen")
  /\ seen' = [seen EXCEPT ![r] = {q.id : q \in Of(CardOf[r])}]
  /\ UNCHANGED <<quotes, locked, previous, draft, reply, saves, refiled>>

LockedByOther(r, id) == \E other \in Uploads \ {r} : id \in locked[other]

\* FOR UPDATE: the request waits until nobody else has the newest row it has
\* not tried, and takes it, or, when the row is no longer of the card, goes on
\* to the next.
Lock(r) ==
  /\ uploadPc[r] = "chosen"
  /\ \/ /\ seen[r] = {}
        /\ Goto(r, "locked")
        /\ UNCHANGED <<seen, locked, previous>>
     \/ \E q \in Newest({p \in quotes : p.id \in seen[r]}) :
          /\ ~LockedByOther(r, q.id)
          /\ locked' = [locked EXCEPT ![r] = @ \cup {q.id}]
          /\ \/ /\ q.card = CardOf[r]
                /\ previous' = [previous EXCEPT ![r] = q.id]
                /\ Goto(r, "locked")
                /\ UNCHANGED seen
             \/ /\ q.card # CardOf[r]
                /\ seen' = [seen EXCEPT ![r] = @ \ {q.id}]
                /\ UNCHANGED <<uploadPc, previous>>
  /\ UNCHANGED <<quotes, draft, reply, saves, refiled>>

\* A PDF over the limit, or one storage does not take.
RefusePdf(r) ==
  /\ uploadPc[r] = "locked"
  /\ \E answer \in {"422", "500"} : Refuse(r, answer)

\* previous.status = SUPERSEDED, inside the transaction.
Demote(r) ==
  /\ uploadPc[r] = "locked"
  /\ Goto(r, "demoted")
  /\ UNCHANGED <<quotes, seen, locked, previous, draft, reply, saves, refiled>>

\* The series row is held by the request that took the last number from it.
SeriesFree(r) == \A other \in Uploads \ {r} : draft[other] = {}

NextNo(r) == IF previous[r] = None THEN 0 ELSE QuoteOf(previous[r]).no + 1

\* Mutant: neither index is unique.
Taken_Never(r) == FALSE

\* uk_quotations_revision, uk_quotations_supersedes (NULLs are distinct).
Taken(r) ==
  \E q \in quotes :
    \/ q.card = CardOf[r] /\ q.no = NextNo(r)
    \/ previous[r] # None /\ q.supersedes = previous[r]

NewRow(r) ==
  [id |-> r, card |-> CardOf[r], no |-> NextNo(r), supersedes |-> previous[r],
   status |-> "draft"]

Insert(r) ==
  /\ uploadPc[r] = "demoted"
  /\ SeriesFree(r)
  /\ \/ Taken(r) /\ Refuse(r, "422")
     \/ /\ ~Taken(r)
        /\ draft' = [draft EXCEPT ![r] = {NewRow(r)}]
        /\ Goto(r, "inserted")
        /\ UNCHANGED <<quotes, seen, locked, previous, reply, saves, refiled>>

Superseding(rows, id) ==
  {IF q.id = id THEN [q EXCEPT !.status = "superseded"] ELSE q : q \in rows}

Commit(r) ==
  /\ uploadPc[r] = "inserted"
  /\ quotes' = Superseding(quotes, previous[r]) \cup draft[r]
  /\ Release(r)
  /\ reply' = [reply EXCEPT ![r] = "201"]
  /\ UNCHANGED <<seen, previous, saves, refiled>>

\* The worker or the connection dies before COMMIT.
Crash(r) == uploadPc[r] \notin {"idle", "done"} /\ Refuse(r, "lost")

---------------------------------------------------------------------------
\* The admin.  quotation_no, revision_no and supersedes are read-only in
\* both forms: the add form leaves them at their defaults, and the change
\* form writes back what the row holds.  Its status and its card are those the
\* page showed, or ones chosen there: whatever they were, any may be written.

\* No row of the card has the number.  (A save waits for a transaction that has
\* put in such a row, and the database refuses a second one.)
NumberFree(card, no) ==
  /\ \A q \in quotes : q.card = card => q.no # no
  /\ \A r \in Uploads : \A q \in draft[r] : q.card = card => q.no # no

\* There is one row by hand at most: its quotation_no is empty, which
\* uk_quotations_no lets through once.
AddByHand(card) ==
  /\ NumberFree(card, 0)
  /\ \A q \in quotes : q.id # ByHand
  /\ quotes' = quotes \cup
       {[id |-> ByHand, card |-> card, no |-> 0, supersedes |-> None, status |-> "draft"]}
  /\ UNCHANGED <<uploadPc, seen, locked, previous, draft, reply, saves, refiled>>

\* The UPDATE waits for the request that holds the row.
SaveForm(q) ==
  /\ saves < MaxSaves
  /\ \A r \in Uploads : q.id \notin locked[r]
  /\ \E status \in Statuses, card \in Cards :
        /\ card # q.card => NumberFree(card, q.no)
        /\ quotes' = (quotes \ {q}) \cup {[q EXCEPT !.status = status, !.card = card]}
        /\ refiled' = IF card = q.card THEN refiled ELSE refiled \cup {q.card, card}
  /\ saves' = saves + 1
  /\ UNCHANGED <<uploadPc, seen, locked, previous, draft, reply>>

---------------------------------------------------------------------------

UploadStep(r) == Choose(r) \/ Lock(r) \/ RefusePdf(r) \/ Demote(r) \/ Insert(r) \/ Commit(r)

UploadsFinished == (\A r \in Uploads : uploadPc[r] = "done") /\ UNCHANGED chainVars

ChainNext ==
  \/ \E r \in Uploads : UploadStep(r) \/ Crash(r)
  \/ \E card \in Cards : AddByHand(card)
  \/ \E q \in quotes : SaveForm(q)
  \/ UploadsFinished

ChainSpec == ChainInit /\ [][ChainNext]_chainVars
---------------------------------------------------------------------------
\* Properties

ChainTypeOK ==
  /\ quotes \subseteq Revision
  /\ uploadPc \in [Uploads -> Points]
  /\ seen \in [Uploads -> SUBSET Ids]
  /\ locked \in [Uploads -> SUBSET Ids]
  /\ previous \in [Uploads -> Ids \cup {None}]
  /\ draft \in [Uploads -> SUBSET Revision]
  /\ reply \in [Uploads -> {"none", "201", "422", "500", "lost"}]
  /\ saves \in Nat
  /\ refiled \subseteq Cards

\* The revision is the first of its card, or follows the one of the card that is
\* numbered one less.
Linked(q) ==
  \/ q.no = 0 /\ q.supersedes = None
  \/ \E p \in quotes : p.card = q.card /\ p.id = q.supersedes /\ p.no = q.no - 1

\* The chain is linear (create_quotation_revision's docstring, D7).  However
\* uploads overlap and whatever the admin saves, no two revisions of a card
\* share a number and no two revisions a predecessor, and the revisions of a
\* card follow each other, unless the form has filed one of them under another
\* card or brought one from there.
ChainIsLinear ==
  /\ \A p, q \in quotes :
       \/ p.card = q.card /\ p.no = q.no
       \/ p.supersedes = q.supersedes /\ q.supersedes # None
       => p.id = q.id
  /\ \A q \in quotes : q.card \notin refiled => Linked(q)

\* "The revision that currently counts" (current_quotation) is the one draft,
\* and it is the newest revision, the one the board and the downloads show,
\* as long as nobody has saved a revision by hand.
OneDraft ==
  saves = 0 => \A card \in Cards :
    {q \in Of(card) : q.status = "draft"} = Newest(Of(card))
=============================================================================
