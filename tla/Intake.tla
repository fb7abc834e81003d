------------------------------- MODULE Intake -------------------------------
(***************************************************************************)
(* The New enquiry page of the web client and the endpoints it calls.      *)
(*                                                                         *)
(* The page posts the card first and then each line of the form, one       *)
(* request after the other, and stops at the first that fails.  A request  *)
(* may be refused, may never arrive, and may be carried out although its   *)
(* answer is lost.  After a failure the form is still there, filled in,    *)
(* and the user may save it again.  Meanwhile a colleague adds lines to    *)
(* the cards that are on file, under a number of their own if they like,   *)
(* another edits the clients, and an administrator corrects a line's row.  *)
(***************************************************************************)
EXTENDS Integers, FiniteSets, Sequences

CONSTANTS
  Clients,      \* ids of sales_clients, on file or to be made
  OnFile,       \* the clients on file from the start
  DefaultOf,    \* DefaultOf[c]: the default of a client on file
  Contacts,     \* ids of sales_client_contacts
  HomeOf,       \* HomeOf[k]: the client contact k belongs to, Nobody for none yet
  Policies,     \* dispatch policies; the column's own default is BaseDefault
  BaseDefault,
  NumLines,     \* lines of the form
  Nobody,       \* no client, no contact, no card
  Unset,        \* a form field left empty
  MaxTries,     \* bound on submissions
  AskedNos,     \* the line numbers people ask for
  MaxLineNo,    \* the largest number line_no holds, a smallint
  MaxExtra,     \* bound on the colleague's lines
  MaxEdits      \* bound on edits of clients' defaults and of lines

IntakeAssumption ==
  /\ OnFile \subseteq Clients
  /\ DefaultOf \in [OnFile -> Policies]
  /\ HomeOf \in [Contacts -> OnFile \cup {Nobody}]
  /\ BaseDefault \in Policies
  /\ NumLines \in Nat \ {0}
  /\ Nobody \notin Clients \cup Contacts
  /\ Unset \notin Policies
  /\ AskedNos \subseteq Int \ {0} /\ MaxLineNo \in Nat
  /\ {MaxTries, MaxExtra, MaxEdits} \subseteq Nat

VARIABLES
  default,     \* default[c]: default_dispatch_policy, Unset until c is made
  home,        \* home[k]: the client of contact k, Nobody until k is made
  cards,       \* the job cards, in the order of their numbers
  extra,       \* lines the colleague has added
  edits,       \* edits of a client's default or of a line
  chosen,      \* the cards on which somebody chose a line's number
  moved,       \* the cards a line was moved from or to
  form,        \* the page's state: what the user has filled in
  cache,       \* cache[c]: the default in the query cache, Unset when none
  page,        \* what the page is doing
  posted,      \* lines posted in this submission
  card,        \* position of the card this submission made; 0 before
  flight,      \* the request in flight
  toast,       \* what the last submission told the user
  failures,    \* submissions that told the user of a failure
  had,         \* had[c]: the defaults client c has had
  carried,     \* a contact was left in the form when a client was created
  other        \* the colleague's POST of a line: the card, the number in
               \* the payload and the number it is to have

server == <<default, home, cards, extra, edits, chosen, moved, had>>
browser == <<form, cache, page, posted, card, flight, toast, failures, carried>>
pageVars == <<server, browser, other>>

NoFlight == [kind |-> "none"]
NoOther == [card |-> 0, asked |-> 0, no |-> 0]

PageInit ==
  /\ default = [c \in Clients |-> IF c \in OnFile THEN DefaultOf[c] ELSE Unset]
  /\ home = HomeOf
  /\ cards = <<>>
  /\ extra = 0 /\ edits = 0 /\ chosen = {} /\ moved = {}
  /\ had = [c \in Clients |-> IF c \in OnFile THEN {DefaultOf[c]} ELSE {}]
  /\ form = [client |-> Nobody, contact |-> Nobody, policy |-> Unset, overridden |-> FALSE]
  /\ cache = [c \in Clients |-> Unset]
  /\ page = "editing"
  /\ posted = 0 /\ card = 0
  /\ flight = NoFlight
  /\ toast = "none"
  /\ failures = 0
  /\ carried = FALSE
  /\ other = NoOther

---------------------------------------------------------------------------
\* Filling in the form.

\* The effect that seeds the policy from the client, until the user takes
\* over: it runs whenever the client or its cached detail changes.
Seeded(f, cached) ==
  IF f.overridden THEN f
  ELSE [f EXCEPT !.policy = IF f.client = Nobody THEN Unset ELSE cached[f.client]]

SetForm(f, cached) == form' = Seeded(f, cached) /\ cache' = cached

\* Typing in the client box clears the client, and only the client.
TypeClient ==
  /\ page = "editing" /\ form.client # Nobody
  /\ SetForm([form EXCEPT !.client = Nobody], cache)
  /\ UNCHANGED <<server, page, posted, card, flight, toast, failures, carried, other>>

\* Mutant: the contact of the client before is kept.
SelectClient_KeepsContact(c) ==
  /\ page = "editing" /\ default[c] # Unset
  /\ SetForm([form EXCEPT !.client = c], cache)
  /\ UNCHANGED <<server, page, posted, card, flight, toast, failures, carried, other>>

SelectClient(c) ==
  /\ page = "editing" /\ default[c] # Unset
  /\ SetForm([form EXCEPT !.client = c, !.contact = Nobody], cache)
  /\ UNCHANGED <<server, page, posted, card, flight, toast, failures, carried, other>>

\* GET /clients/{id}: the detail arrives, at first or on a refetch.
FetchClient ==
  /\ page = "editing" /\ form.client # Nobody
  /\ SetForm(form, [cache EXCEPT ![form.client] = default[form.client]])
  /\ UNCHANGED <<server, page, posted, card, flight, toast, failures, carried, other>>

SelectContact(k) ==
  /\ page = "editing" /\ form.client # Nobody
  /\ cache[form.client] # Unset /\ home[k] = form.client
  /\ SetForm([form EXCEPT !.contact = k], cache)
  /\ UNCHANGED <<server, page, posted, card, flight, toast, failures, carried, other>>

ChoosePolicy(p) ==
  /\ page = "editing"
  /\ SetForm([form EXCEPT !.policy = p, !.overridden = TRUE], cache)
  /\ UNCHANGED <<server, page, posted, card, flight, toast, failures, carried, other>>

\* NewClientDialog: POST /clients answers with the client, which goes into
\* the cache; onCreated sets the client and leaves the contact.
CreateClient(c) ==
  /\ page = "editing" /\ default[c] = Unset
  /\ default' = [default EXCEPT ![c] = BaseDefault]
  /\ had' = [had EXCEPT ![c] = {BaseDefault}]
  /\ SetForm([form EXCEPT !.client = c], [cache EXCEPT ![c] = BaseDefault])
  /\ carried' = (carried \/ form.contact # Nobody)
  /\ UNCHANGED <<home, cards, extra, edits, chosen, moved, page, posted, card, flight,
                 toast, failures, other>>

\* NewContactDialog: POST /clients/{id}/contacts, for the client chosen.
CreateContact(k) ==
  /\ page = "editing" /\ form.client # Nobody /\ home[k] = Nobody
  /\ home' = [home EXCEPT ![k] = form.client]
  /\ SetForm([form EXCEPT !.contact = k], cache)
  /\ UNCHANGED <<default, cards, extra, edits, chosen, moved, had, page, posted, card,
                 flight, toast, failures, carried, other>>

---------------------------------------------------------------------------
\* submit().

\* Mutant: the button stays enabled while a submission runs.
Idle_Always == TRUE

Idle == page = "editing"

Submit ==
  /\ Idle /\ form.client # Nobody /\ failures < MaxTries
  /\ page' = "submitting"
  /\ posted' = 0 /\ card' = 0
  /\ flight' = [kind |-> "card", client |-> form.client, contact |-> form.contact,
                policy |-> form.policy]
  /\ UNCHANGED <<server, form, cache, toast, failures, carried, other>>

\* create_job_card: an empty policy is the client's default at this moment.
PolicyFor(request) ==
  IF request.policy = Unset THEN default[request.client] ELSE request.policy

MakeCard ==
  /\ flight.kind = "card"
  /\ cards' = Append(cards,
       [client |-> flight.client, contact |-> flight.contact,
        policy |-> PolicyFor(flight), lines |-> <<>>])
  /\ flight' = [kind |-> "made", card |-> Len(cards) + 1]
  /\ UNCHANGED <<default, home, extra, edits, chosen, moved, had, form, cache, page,
                 posted, card, toast, failures, carried, other>>

Numbers(lines) == {lines[i].no : i \in DOMAIN lines}

\* Mutant: the lines are counted.
NextLineNo_Previous(lines) == Len(lines)

\* _next_line_no: MAX(line_no) + 1, read without a lock.
NextLineNo(lines) ==
  IF lines = <<>> THEN 1
  ELSE 1 + CHOOSE n \in Numbers(lines) : \A m \in Numbers(lines) : m <= n

\* add_job_line takes the number of the payload, when there is one.
LineNoFor(asked, lines) == IF asked # 0 THEN asked ELSE NextLineNo(lines)

\* The page's payload has none.
ReadLineNo ==
  /\ flight.kind = "line"
  /\ flight' = [kind |-> "numbered", item |-> flight.item,
                no |-> LineNoFor(0, cards[card].lines)]
  /\ UNCHANGED <<server, form, cache, page, posted, card, toast, failures, carried, other>>

Line(item, no) == [item |-> item, no |-> no]

\* Mutant: uk_job_lines_line_no is missing.
Vacant_Unchecked(at, no) == TRUE

\* uk_job_lines_line_no.
Vacant(at, no) == no \notin Numbers(cards[at].lines)

\* A row is stored with a number the column holds.
Storable(at, no) == no <= MaxLineNo /\ Vacant(at, no)

InsertLine ==
  /\ flight.kind = "numbered"
  /\ \/ /\ Storable(card, flight.no)
        /\ cards' = [cards EXCEPT ![card].lines = Append(@, Line(flight.item, flight.no))]
        /\ flight' = [kind |-> "added"]
     \/ /\ ~Storable(card, flight.no)
        /\ flight' = [kind |-> "failed"]
        /\ UNCHANGED cards
  /\ UNCHANGED <<default, home, extra, edits, chosen, moved, had, form, cache, page,
                 posted, card, toast, failures, carried, other>>

\* A refusal, a dead worker or connection, before COMMIT or after it: the
\* promise is rejected all the same.
RequestFails ==
  /\ flight.kind \notin {"none", "failed"}
  /\ flight' = [kind |-> "failed"]
  /\ UNCHANGED <<server, form, cache, page, posted, card, toast, failures, carried, other>>

\* Mutant: the loop ends one line early.
NextPost_Short(done) ==
  IF done + 1 < NumLines THEN [kind |-> "line", item |-> done + 1] ELSE NoFlight

\* The next await of the loop, or its end.
NextPost(done) ==
  IF done < NumLines THEN [kind |-> "line", item |-> done + 1] ELSE NoFlight

Continue(done) ==
  /\ posted' = done
  /\ flight' = NextPost(done)
  /\ IF flight' # NoFlight THEN UNCHANGED <<page, toast>>
     ELSE page' = "left" /\ toast' = "created"
  /\ UNCHANGED <<server, form, cache, failures, carried, other>>

CardAnswered ==
  /\ flight.kind = "made"
  /\ card' = flight.card
  /\ Continue(0)

LineAnswered ==
  /\ flight.kind = "added"
  /\ UNCHANGED card
  /\ Continue(posted + 1)

\* catch: one toast whatever it was that failed, and the form stays.
Fail ==
  /\ flight.kind = "failed"
  /\ page' = "editing"
  /\ flight' = NoFlight
  /\ toast' = "not created"
  /\ failures' = failures + 1
  /\ UNCHANGED <<server, form, cache, posted, card, carried, other>>

---------------------------------------------------------------------------
\* Other users.

\* update_client by somebody else.
EditDefault(c) ==
  /\ edits < MaxEdits /\ default[c] # Unset
  /\ \E p \in Policies \ {default[c]} :
        /\ default' = [default EXCEPT ![c] = p]
        /\ had' = [had EXCEPT ![c] = @ \cup {p}]
  /\ edits' = edits + 1
  /\ UNCHANGED <<home, cards, extra, chosen, moved, browser, other>>

\* A colleague's POST of a line to a card they see on the list, with a
\* number of theirs or none.
OtherReads ==
  /\ other = NoOther /\ extra < MaxExtra
  /\ \E at \in DOMAIN cards, asked \in AskedNos \cup {0} :
        other' = [card |-> at, asked |-> asked, no |-> LineNoFor(asked, cards[at].lines)]
  /\ extra' = extra + 1
  /\ UNCHANGED <<default, home, cards, edits, chosen, moved, had, browser>>

OtherInserts ==
  /\ other # NoOther
  /\ IF Storable(other.card, other.no)
     THEN /\ cards' = [cards EXCEPT ![other.card].lines = Append(@, Line(0, other.no))]
          /\ chosen' = IF other.asked # 0 THEN chosen \cup {other.card} ELSE chosen
     ELSE UNCHANGED <<cards, chosen>>
  /\ other' = NoOther
  /\ UNCHANGED <<default, home, extra, edits, moved, had, browser>>

\* Lines without their nth.
Without(lines, n) ==
  [m \in 1..(Len(lines) - 1) |-> IF m < n THEN lines[m] ELSE lines[m + 1]]

\* The admin forms of a line, the inline one of its card too: they save the
\* line's number; the line's own form saves its card as well.
RenumberLine(at, n, no) ==
  /\ Storable(at, no)
  /\ cards' = [cards EXCEPT ![at].lines[n].no = no]
  /\ chosen' = chosen \cup {at}
  /\ UNCHANGED moved

RefileLine(at, n, to, no) ==
  /\ Storable(to, no)
  /\ cards' = [cards EXCEPT ![at].lines = Without(@, n),
                            ![to].lines = Append(@, Line(cards[at].lines[n].item, no))]
  /\ chosen' = chosen \cup {at, to}
  /\ moved' = moved \cup {at, to}

SaveLine ==
  /\ edits < MaxEdits
  /\ \E at, to \in DOMAIN cards : \E n \in DOMAIN cards[at].lines :
     \E no \in AskedNos \cup {cards[at].lines[n].no} :
        IF at = to THEN RenumberLine(at, n, no) ELSE RefileLine(at, n, to, no)
  /\ edits' = edits + 1
  /\ UNCHANGED <<default, home, extra, had, browser, other>>

---------------------------------------------------------------------------

Fill ==
  \/ TypeClient \/ FetchClient
  \/ \E c \in Clients : SelectClient(c) \/ CreateClient(c)
  \/ \E k \in Contacts : SelectContact(k) \/ CreateContact(k)
  \/ \E p \in Policies : ChoosePolicy(p)

Serve == MakeCard \/ ReadLineNo \/ InsertLine \/ RequestFails

PageNext ==
  \/ Fill \/ Submit \/ Serve \/ CardAnswered \/ LineAnswered \/ Fail
  \/ \E c \in Clients : EditDefault(c)
  \/ OtherReads \/ OtherInserts \/ SaveLine

PageSpec == PageInit /\ [][PageNext]_pageVars
---------------------------------------------------------------------------
\* Properties

Flights ==
  {NoFlight, [kind |-> "added"], [kind |-> "failed"]}
    \cup [kind : {"card"}, client : Clients, contact : Contacts \cup {Nobody},
          policy : Policies \cup {Unset}]
    \cup [kind : {"made"}, card : DOMAIN cards]
    \cup [kind : {"line"}, item : 1..NumLines]
    \cup [kind : {"numbered"}, item : 1..NumLines, no : Int]

JobLine == [item : 0..NumLines, no : Int]

JobCard == [client : Clients, contact : Contacts \cup {Nobody}, policy : Policies,
            lines : Seq(JobLine)]

PageTypeOK ==
  /\ default \in [Clients -> Policies \cup {Unset}]
  /\ home \in [Contacts -> Clients \cup {Nobody}]
  /\ cards \in Seq(JobCard)
  /\ extra \in 0..MaxExtra /\ edits \in 0..MaxEdits
  /\ chosen \subseteq DOMAIN cards /\ moved \subseteq chosen
  /\ form \in [client : Clients \cup {Nobody}, contact : Contacts \cup {Nobody},
               policy : Policies \cup {Unset}, overridden : BOOLEAN]
  /\ cache \in [Clients -> Policies \cup {Unset}]
  /\ page \in {"editing", "submitting", "left"}
  /\ posted \in 0..NumLines /\ card \in 0..Len(cards)
  /\ flight \in Flights /\ other \in [card : Nat, asked : Int, no : Int]
  /\ toast \in {"none", "created", "not created"}
  /\ failures \in Nat
  /\ had \in [Clients -> SUBSET Policies]
  /\ carried \in BOOLEAN

\* The lines of the form among a card's lines; the colleague's are no item.
ItemsOf(lines) == {lines[n].item : n \in DOMAIN lines} \ {0}

InOrder(lines) ==
  \A m, n \in DOMAIN lines :
    m < n /\ lines[m].item # 0 /\ lines[n].item # 0 => lines[m].item < lines[n].item

\* "... created" is the truth: the card the toast names has every line of
\* the form, once and in the form's order, whatever failed before, whoever
\* added or renumbered lines in between, unless an administrator moved a line
\* from that card to another or the other way.
CreatedMeansWhole ==
  toast = "created" /\ card \notin moved =>
    ItemsOf(cards[card].lines) = 1..NumLines /\ InOrder(cards[card].lines)

\* No two lines of a card have the same number, although requests read the
\* highest without a lock, name one of their own, or lines are renumbered and
\* moved.  Where nobody chose a number, they run 1, 2, 3, ... without a gap.
NumberedInTurn ==
  \A i \in DOMAIN cards :
    LET lines == cards[i].lines
    IN  /\ \A m, n \in DOMAIN lines : lines[m].no = lines[n].no => m = n
        /\ i \notin chosen => \A n \in DOMAIN lines : lines[n].no = n

\* What the form took over from a client goes to that client's cards only.
\* Without an override a card's policy is one its own client has had as its
\* default, though the client was changed while a detail was loading.  Its
\* contact is one of its client's: nothing on the server looks
\* (create_job_card takes any id), the page clears the contact with the
\* client, except when the client is created from the page.
FormIsTheClients ==
  \A i \in DOMAIN cards :
    /\ ~form.overridden => cards[i].policy \in had[cards[i].client]
    /\ ~carried /\ cards[i].contact # Nobody =>
         home[cards[i].contact] = cards[i].client

\* One enquiry makes one card, and one more for each failure the user was
\* told of: the page never posts the card twice in a submission, and never
\* after it has reported success.
CardsAccountedFor == Len(cards) <= failures + 1
=============================================================================
