----------------------------- MODULE QueryCache -----------------------------
(***************************************************************************)
(* What the pages of the web client show of the server, and how old it may *)
(* be.  A page mounts queries; the query cache (TanStack Query, a library) *)
(* loads them, keeps what it loaded for the next page, and loads again     *)
(* when told that a key is invalid.  Each write of the client's own names  *)
(* the keys it may have made invalid.                                      *)
(*                                                                         *)
(* Only the age of what is shown matters here, so a fact about an enquiry  *)
(* or a customer is a version number, counted up by every change: 0 until  *)
(* there is something.  A GET reads in several statements, each of its own *)
(* snapshot.  An enquiry has one line.                                     *)
(***************************************************************************)
EXTENDS Integers, Sequences

CONSTANTS
  Enquiries,    \* ids of job cards, made or to be made
  Customers,    \* ids of clients, made or to be made
  CustomerOf,   \* CustomerOf[j]: whose enquiry j is
  Slots,        \* writes of this browser tab that may be under way together
  MaxVersion,   \* bound on changes of one fact
  Every         \* the part of a key left out; no id

CacheAssumption ==
  /\ CustomerOf \in [Enquiries -> Customers]
  /\ Every \notin Enquiries \cup Customers \cup {"notes", "attachments", "quotations"}
  /\ Enquiries \cap Customers = {}
  /\ MaxVersion \in Nat

---------------------------------------------------------------------------
\* Facts, writes, and the keys of what shows them.

Facts ==
  ({"card", "status", "lines", "stage", "quotes", "notes", "files"} \X Enquiries)
    \cup ({"client", "contacts"} \X Customers)

Changes(what) ==
  CASE what = "transition" -> {"status", "stage"}
    [] what = "upload"     -> {"quotes", "status", "stage"}
    [] what = "note"       -> {"notes"}
    [] what = "file"       -> {"files"}
    [] what = "create"     -> {"card", "status"}
    [] what = "lines"      -> {"lines", "stage"}
    [] what = "client"     -> {"client"}
    [] what = "contact"    -> {"contacts"}

Writes == {"transition", "upload", "note", "file", "create", "lines", "client", "contact"}

\* A key is a name, an id and a panel.  The key of a list ends in its filters
\* instead: here one list stands for all of its name.
Views ==
  ({"dashboard", "board", "clients", "job-cards"} \X {Every} \X {Every})
    \cup ({"client"} \X Customers \X {Every})
    \cup ({"job-card"} \X Enquiries \X {Every, "notes", "attachments", "quotations"})
    \cup ({"job-line"} \X Enquiries \X {Every})

\* The facts that a row of an answer is made of.
serialize_client     == {"client"}
serialize_contact    == {"contacts"}
serialize_job_card   == {"card", "status"}
serialize_job_line   == {"lines", "stage"}
serialize_quotation  == {"quotes"}
serialize_note       == {"notes"}
serialize_attachment == {"files"}
serialize_board_line == {"card", "lines", "stage"}

\* What each GET reads, statement by statement.
dashboard            == <<serialize_job_card \cup {"lines"}, {"stage"}>>
board                == <<serialize_board_line, serialize_quotation>>
clients              == <<serialize_client>>
client_detail        == <<serialize_client, serialize_contact>>
job_cards            == <<serialize_job_card>>
job_card_detail      == <<serialize_job_card, serialize_job_line, serialize_quotation>>
job_card_notes       == <<serialize_note>>
job_card_attachments == <<serialize_attachment>>
job_card_quotations  == <<serialize_quotation>>
job_line_detail      == <<serialize_board_line, serialize_quotation>>

Reads(name) ==
  CASE name = "dashboard"   -> dashboard
    [] name = "board"       -> board
    [] name = "clients"     -> clients
    [] name = "client"      -> client_detail
    [] name = "job-cards"   -> job_cards
    [] name = "job-card"    -> job_card_detail
    [] name = "notes"       -> job_card_notes
    [] name = "attachments" -> job_card_attachments
    [] name = "quotations"  -> job_card_quotations
    [] name = "job-line"    -> job_line_detail

NameOf(v) == IF v[3] = Every THEN v[1] ELSE v[3]

Statements(v) == Reads(NameOf(v))

\* The facts that statement n of view v reads.
FactsOf(v, n) == {f \in Facts : f[1] \in Statements(v)[n] /\ v[2] \in {Every, f[2]}}

\* Mutant: a key is matched whole.
Covers_Exact(key, v) == key = v

\* invalidateQueries matches every key that the given one is a prefix of.
Covers(key, v) == \A i \in 1..3 : key[i] \in {Every, v[i]}

\* AFFECTED_BY_TRANSITION.
Affected == {"board", "job-card", "job-line", "dashboard"} \X {Every} \X {Every}

\* The keys that a hook, or the form, invalidates when it hears that its write
\* about x succeeded.
useApplyTransition(x) == {<<"job-line", x, Every>>} \cup Affected

useUploadRevision(x) ==
  {<<"job-card", x, "quotations">>, <<"job-card", x, Every>>, <<"board", Every, Every>>,
   <<"dashboard", Every, Every>>}

useAddNote(x) == {<<"job-card", x, "notes">>, <<"job-card", x, Every>>}

\* Removing one invalidates the same.
useUploadAttachment(x) == {<<"job-card", x, "attachments">>, <<"job-card", x, Every>>}

useCreateJobCard == {"job-cards", "board", "dashboard"} \X {Every} \X {Every}

\* The form, once it has posted the last line.
submit(x) == {<<"job-card", x, Every>>, <<"board", Every, Every>>}

useCreateClient == {<<"clients", Every, Every>>}

useCreateContact(x) == {<<"client", x, Every>>}

Invalidates(what, x) ==
  CASE what = "transition" -> useApplyTransition(x)
    [] what = "upload"     -> useUploadRevision(x)
    [] what = "note"       -> useAddNote(x)
    [] what = "file"       -> useUploadAttachment(x)
    [] what = "create"     -> useCreateJobCard
    [] what = "lines"      -> submit(x)
    [] what = "client"     -> useCreateClient
    [] what = "contact"    -> useCreateContact(x)

---------------------------------------------------------------------------
VARIABLES
  version,    \* version[f]: on the server
  held,       \* the views the cache has an answer for
  data,       \* data[v]: the versions that answer carries
  suspect,    \* held views marked invalid
  late,       \* held views whose answer came of a load in joined
  loading,    \* loading[v]: 0 if no GET is under way, else its next statement
  got,        \* got[v]: what that GET has read so far
  joined,     \* loads that an invalidation found under way and left to go on
  here,       \* the page the tab is at
  calls,      \* calls[s]: the write in slot s
  heard       \* heard[what][f]: the latest version whose making was heard

cacheVars == <<version, held, data, suspect, late, loading, got, joined, here, calls, heard>>

Known(f) == version[f] > 0

Pages ==
  ({"dashboard", "board", "job-cards", "clients", "new"} \X {Every})
    \cup ({"new", "client"} \X Customers)
    \cup ({"job-card", "job-line"} \X Enquiries)

\* There is a link to the page of what exists; on the page of a new enquiry
\* the client is picked from the list.
Reachable(p) ==
  CASE p[1] \in {"new", "client"} /\ p[2] # Every -> Known(<<"client", p[2]>>)
    [] p[1] = "job-card" -> Known(<<"card", p[2]>>)
    [] p[1] = "job-line" -> Known(<<"lines", p[2]>>)
    [] OTHER -> TRUE

\* The queries that page p mounts.  The panels of a card, and the enquiries of
\* a client, are drawn once the card or the client is there.
Mounted(p, has) ==
  {v \in Views :
    CASE p[1] = "dashboard" -> v[1] = "dashboard"
      [] p[1] = "board"     -> v[1] \in {"board", "clients"}
      [] p[1] = "job-cards" -> v[1] \in {"job-cards", "clients"}
      [] p[1] = "clients"   -> v[1] = "clients"
      [] p[1] = "new"       -> v[1] = "clients" \/ (v[1] = "client" /\ v[2] = p[2])
      [] p[1] = "client"    -> \/ v = <<"client", p[2], Every>>
                               \/ v[1] = "job-cards" /\ <<"client", p[2], Every>> \in has
      [] p[1] = "job-card"  -> \/ v = <<"job-card", p[2], Every>>
                               \/ /\ v[1] = "job-card" /\ v[2] = p[2]
                                  /\ <<"job-card", p[2], Every>> \in has
      [] p[1] = "job-line"  -> v = <<"job-line", p[2], Every>>}

Shown == Mounted(here, held)

Blank == [f \in {} |-> 0]

Free == [what |-> "none", about |-> Every, stage |-> "free", made |-> Blank]

\* Some of the enquiries and customers are on file.
CacheInit ==
  /\ \E made \in SUBSET Enquiries, known \in SUBSET Customers :
       /\ \A j \in made : CustomerOf[j] \in known
       /\ version = [f \in Facts |->
            IF f[2] \in made \cup known THEN 1 ELSE 0]
  /\ held = {} /\ suspect = {} /\ late = {} /\ joined = {}
  /\ data = [v \in Views |-> Blank] /\ got = [v \in Views |-> Blank]
  /\ \E p \in Pages : Reachable(p) /\ here = p
  /\ loading = [v \in Views |-> IF v \in Mounted(here, {}) THEN 1 ELSE 0]
  /\ calls = [s \in Slots |-> Free]
  /\ heard = [what \in Writes |-> [f \in Facts |-> 0]]

---------------------------------------------------------------------------
\* The loads that go on: loads, but that those of views no longer shown are
\* cancelled, and that a view shown anew begins one if it has no answer or a
\* suspect one.
Loads(loads, has, doubted, page) ==
  [v \in Views |->
    CASE v \notin Mounted(page, has) -> 0
      [] v \in Mounted(page, has) /\ loads[v] > 0 -> loads[v]
      [] OTHER -> IF v \notin Shown /\ (v \notin has \/ v \in doubted) THEN 1 ELSE 0]

\* What goes with a load that ends, or begins, is gone.
LoadsAre(loads) ==
  /\ loading' = loads
  /\ got' = [v \in Views |-> IF loads[v] > 1 THEN got[v] ELSE Blank]

Still(loads) == {v \in joined : loads[v] > 0}

\* The tab goes to page p.
Visit(p) ==
  /\ p # here /\ Reachable(p)
  /\ here' = p
  /\ LET loads == Loads(loading, held, suspect, p)
     IN LoadsAre(loads) /\ joined' = Still(loads)
  /\ UNCHANGED <<version, held, data, suspect, late, calls, heard>>

\* The window has the focus again, or the page is mounted, and the answer is
\* older than staleTime; or a load that failed is tried again.
BeginLoad(v) ==
  /\ v \in Shown /\ loading[v] = 0
  /\ LoadsAre([loading EXCEPT ![v] = 1])
  /\ UNCHANGED <<version, held, data, suspect, late, joined, here, calls, heard>>

\* The next statement of the GET.  What two statements read is as old as the
\* first.
ReadNext(v) ==
  /\ loading[v] \in DOMAIN Statements(v)
  /\ got' = [got EXCEPT ![v] =
       [f \in DOMAIN @ \cup FactsOf(v, loading[v]) |->
          IF f \in DOMAIN @ THEN @[f] ELSE version[f]]]
  /\ loading' = [loading EXCEPT ![v] = @ + 1]
  /\ UNCHANGED <<version, held, data, suspect, late, joined, here, calls, heard>>

\* The answer arrives: it is the entry, and the entry is no longer suspect.
Arrive(v) ==
  /\ loading[v] = Len(Statements(v)) + 1
  /\ held' = held \cup {v}
  /\ data' = [data EXCEPT ![v] = got[v]]
  /\ suspect' = suspect \ {v}
  /\ late' = IF v \in joined THEN late \cup {v} ELSE late \ {v}
  /\ joined' = joined \ {v}
  /\ LoadsAre(Loads([loading EXCEPT ![v] = 0], held', suspect', here))
  /\ UNCHANGED <<version, here, calls, heard>>

\* The GET fails.  It is sent again, up to twice; or an answer the entry had
\* stays, as suspect as it was.
LoadFails(v) ==
  /\ loading[v] > 0
  /\ \E next \in {0, 1} : LoadsAre([loading EXCEPT ![v] = next])
  /\ joined' = joined \ {v}
  /\ UNCHANGED <<version, held, data, suspect, late, here, calls, heard>>

\* gcTime after the last page that showed it, an entry is dropped.
Forget(v) ==
  /\ v \in held \ Shown
  /\ held' = held \ {v} /\ suspect' = suspect \ {v} /\ late' = late \ {v}
  /\ data' = [data EXCEPT ![v] = Blank]
  /\ UNCHANGED <<version, loading, got, joined, here, calls, heard>>

---------------------------------------------------------------------------
\* invalidateQueries.

\* Mutant: a GET under way is left to go on, its entry's too.
Again_Joined(hit) == {}

\* Of the views hit, those shown with an answer: their GET is cancelled and
\* begun again.
Again(hit) == hit \cap Shown \cap held

\* A first GET has nothing to go back to, and goes on.
Joins(hit) == {v \in hit \cap Shown : v \notin held /\ loading[v] > 0}

Begun(hit) == Again(hit) \cup {v \in hit \cap Shown : loading[v] = 0}

\* The keys are invalidated and the tab is then at page p; has, doubted are
\* the entries once the keys' views are marked.
Refresh(hit, has, doubted, p) ==
  /\ here' = p
  /\ suspect' = doubted
  /\ LET loads == Loads([v \in Views |-> IF v \in Begun(hit) THEN 1 ELSE loading[v]],
                        has, doubted, p)
     IN LoadsAre(loads) /\ joined' = {v \in (joined \ Again(hit)) \cup Joins(hit) : loads[v] > 0}

Hit(keys) == {v \in Views : \E key \in keys : Covers(key, v)}

Invalidate(keys, p) ==
  /\ Refresh(Hit(keys), held, suspect \cup (Hit(keys) \cap held), p)
  /\ UNCHANGED <<held, data, late>>

\* The refresh button of the top bar.
RefreshAll ==
  /\ Invalidate({<<Every, Every, Every>>}, here)
  /\ UNCHANGED <<version, calls, heard>>

---------------------------------------------------------------------------
\* Writes.

\* The facts that a write changes.  An upload moves the lines there are.
Touched(what, x) ==
  {f \in Facts : /\ f[1] \in Changes(what) /\ f[2] = x
                 /\ what = "upload" /\ f[1] = "stage" => Known(<<"lines", x>>)}

\* What a write is about exists, or is made by it.
Valid(what, x) ==
  CASE what = "client"     -> x \in Customers /\ ~Known(<<"client", x>>)
    [] what = "contact"    -> x \in Customers /\ Known(<<"client", x>>)
    [] what = "create"     -> x \in Enquiries /\ ~Known(<<"card", x>>)
    [] what = "lines"      -> x \in Enquiries /\ Known(<<"card", x>>) /\ ~Known(<<"lines", x>>)
    [] what = "transition" -> x \in Enquiries /\ Known(<<"lines", x>>)
    [] OTHER               -> x \in Enquiries /\ Known(<<"card", x>>)

\* The server carries the write out, in one transaction.
Apply(what, x) ==
  /\ Valid(what, x)
  /\ \A f \in Touched(what, x) : version[f] < MaxVersion
  /\ version' = [f \in Facts |-> IF f \in Touched(what, x) THEN version[f] + 1 ELSE version[f]]

\* Another user, or this one in another tab.
Colleague(what, x) ==
  /\ Apply(what, x)
  /\ UNCHANGED <<held, data, suspect, late, loading, got, joined, here, calls, heard>>

\* What the page at hand has buttons for.
Offered(what, x) ==
  CASE what = "transition" ->
         \E v \in Shown \cap held :
           /\ v[1] \in {"dashboard", "board", "job-line"}
           /\ <<"lines", x>> \in DOMAIN data[v] /\ data[v][<<"lines", x>>] > 0
    [] what \in {"upload", "note", "file"} ->
         here = <<"job-card", x>> /\ <<"job-card", x, Every>> \in held
    [] what = "client" -> here[1] = "new" /\ x \in Customers /\ ~Known(<<"client", x>>)
    [] what = "contact" -> here = <<"new", x>>
    [] what = "create" ->
         x \in Enquiries /\ here = <<"new", CustomerOf[x]>> /\ ~Known(<<"card", x>>)
    [] OTHER -> FALSE

Send(s, what, x) ==
  /\ calls[s].stage = "free" /\ Offered(what, x)
  /\ calls' = [calls EXCEPT ![s] =
       [what |-> what, about |-> x, stage |-> "sent", made |-> Blank]]
  /\ UNCHANGED <<version, held, data, suspect, late, loading, got, joined, here, heard>>

ServeWrite(s) ==
  LET c == calls[s] IN
  /\ c.stage = "sent" /\ Apply(c.what, c.about)
  /\ calls' = [calls EXCEPT ![s] =
       [what |-> c.what, about |-> c.about, stage |-> "done",
        made |-> [f \in Touched(c.what, c.about) |-> version'[f]]]]
  /\ UNCHANGED <<held, data, suspect, late, loading, got, joined, here, heard>>

\* The server refuses; or the request, or the answer to what it did, is lost.
WriteFails(s) ==
  LET c == calls[s] IN
  /\ c.stage \in {"sent", "done"}
  /\ calls' = [calls EXCEPT ![s] =
       [what |-> c.what, about |-> c.about, stage |-> "failed", made |-> Blank]]
  /\ UNCHANGED <<version, held, data, suspect, late, loading, got, joined, here, heard>>

Remember(c) ==
  heard' = [heard EXCEPT ![c.what] =
    [f \in Facts |-> IF f \in DOMAIN c.made /\ c.made[f] > @[f] THEN c.made[f] ELSE @[f]]]

\* onSuccess.  The form goes on from the card to its lines; after those, it
\* goes to the card's page, wherever the tab is.
Hear(s) ==
  LET c == calls[s] IN
  /\ c.stage = "done" /\ c.what # "client"
  /\ Remember(c)
  /\ Invalidate(Invalidates(c.what, c.about),
                IF c.what = "lines" THEN <<"job-card", c.about>> ELSE here)
  /\ calls' = [calls EXCEPT ![s] =
       IF c.what = "create"
       THEN [what |-> "lines", about |-> c.about, stage |-> "sent", made |-> Blank]
       ELSE Free]
  /\ UNCHANGED version

\* onSuccess of a new client: setQueryData puts the answer of the POST, which
\* has no contacts, into the cache as the client's detail.  The dialog that
\* posted it, if it is still open, picks the client.
HearClient(s) ==
  LET c == calls[s]
      v == <<"client", c.about, Every>>
      hit == Hit(Invalidates("client", c.about))
  IN
  /\ c.stage = "done" /\ c.what = "client"
  /\ Remember(c)
  /\ held' = held \cup {v} /\ late' = late \ {v}
  /\ data' = [data EXCEPT ![v] = c.made]
  /\ \E p \in {here} \cup {<<"new", c.about>> : q \in {here[1]} \cap {"new"}} :
       Refresh(hit, held', (suspect \ {v}) \cup (hit \cap held), p)
  /\ calls' = [calls EXCEPT ![s] = Free]
  /\ UNCHANGED version

\* onError.  Only a transition's does anything to the cache.
HearFailure(s) ==
  LET c == calls[s] IN
  /\ c.stage = "failed"
  /\ Invalidate(IF c.what = "transition" THEN Affected ELSE {}, here)
  /\ calls' = [calls EXCEPT ![s] = Free]
  /\ UNCHANGED <<version, heard>>

---------------------------------------------------------------------------
CacheNext ==
  \/ \E p \in Pages : Visit(p)
  \/ \E v \in Views : BeginLoad(v) \/ ReadNext(v) \/ Arrive(v) \/ LoadFails(v) \/ Forget(v)
  \/ RefreshAll
  \/ \E what \in Writes, x \in Enquiries \cup Customers : Colleague(what, x)
  \/ \E s \in Slots :
       \/ \E what \in Writes, x \in Enquiries \cup Customers : Send(s, what, x)
       \/ ServeWrite(s) \/ WriteFails(s) \/ Hear(s) \/ HearClient(s) \/ HearFailure(s)

CacheSpec == CacheInit /\ [][CacheNext]_cacheVars

---------------------------------------------------------------------------
CacheTypeOK ==
  /\ version \in [Facts -> Nat]
  /\ held \subseteq Views /\ suspect \subseteq held /\ late \subseteq held
  /\ joined \subseteq {v \in Views : loading[v] > 0}
  /\ loading \in [Views -> Nat]
  /\ \A v \in Views :
       \A answer \in {data[v], got[v]} :
         DOMAIN answer \subseteq Facts /\ \A f \in DOMAIN answer : answer[f] \in Nat
  /\ here \in Pages
  /\ heard \in [Writes -> [Facts -> Nat]]

\* The writes whose hooks leave out a name that shows what they change: the
\* list of enquiries has the status of each, the dashboard the count of lines,
\* the page of a line the card's last quotation.
Unmentioned ==
  {<<"transition", "job-cards">>, <<"upload", "job-cards">>, <<"upload", "job-line">>,
   <<"lines", "dashboard">>}

\* Nobody pushes changes to the client, so a page may be as old as its load;
\* but what the user changed, and was told of, is never missing from a page
\* that is not marked for loading again: whatever load was under way when the
\* answer came.  (queryKeys.ts:1, the hooks' onSuccess.)  But for the names a
\* hook leaves out, and for a first load that the invalidation joined.
OwnChangesShown ==
  \A v \in held \ (suspect \cup late), what \in Writes : <<what, v[1]>> \notin Unmentioned =>
    \A f \in DOMAIN data[v] : data[v][f] >= heard[what][f]
=============================================================================
