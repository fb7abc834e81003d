# SR Switchgear ERP: specification, model checking and proofs

The program is a Django 5.2 application over PostgreSQL 16 (`backend/`) with a
React front end (`frontend/`). It records clients, enquiries ("job cards"), the
products on them ("job lines"), the quotations that price them, and the stages
each line goes through on a pipeline board. Its difficult part is not size but
sharing: three gunicorn processes of two threads run one transaction per request
(`ATOMIC_REQUESTS`, READ COMMITTED), so every rule that reads a row and then
writes another is exposed to whatever commits in between; browsers keep answers
that grow old; containers start, migrate and die beside all that. The
specifications here describe that part, and the checks and proofs say which
promises of the code hold under it and which do not.

## 1. Inventory

### Components, their state and operations

| Component | State | Operations | Correct when | Status |
|---|---|---|---|---|
| Stage graph and rules (`apps/pipeline/models.py`, migrations 0003-0009) | stages (one initial, some that decide the card's status), active rules | look up the rules of a user's roles; judge one | a rule answers as its flags say | modelled: `StageGraph`, `SeededGraph` |
| Transition engine (`apps/pipeline/services.py`, `apply_transition()`) | the line's current stage, its history, row locks | `perform_transition` | history, in the order of its ids, is a walk that ends at the current stage; moves authorised; two-person gates; no lock-upgrade deadlock; true answers | modelled: `TransitionEngine`, `LineHistory` |
| Job card lifecycle (`apps/sales/services.py`, `signals.py`) | `lifecycle_status`, lines' stages, revisions | cascade, quotation upload, cancel, PATCH, add line | the card follows its lines; decided cards stay; no deadlock among line, card and series | modelled: `JobCardLifecycle`, `CardHistory` |
| Quotations | revisions in a `supersedes` chain | upload, the admin's form, set lines, view | a linear chain on each card, one current revision | partly: `QuotationChain`; amounts and views are not |
| Clients and contacts | client rows, contacts, one of them primary | create, update, add a contact | at most one primary, and adding a contact never loses it | partly: `ClientBook`, `Intake`; free fields are not |
| Notes and attachments | single rows | add, remove | a page shows what its user added | partly: their lists and writes in `QueryCache` |
| Enquiry intake (`NewJobCardPage.tsx`, `create_job_card`, `add_job_line`) | the form, the card and its lines | fill in, save, retry | a success means the whole enquiry, once, for that client | modelled: `Intake` |
| Line attributes and dashboard | columns of a line; reads | `update_job_line`, dashboard | the dashboard shows its user's moves | partly: the dashboard's GET in `QueryCache` |
| Board and advisory actions (`pipeline/selectors.py`, `features/board`) | the browser's cache, dialogs | fetch, offer, move, invalidate, hide old lines | offers are what the engine grants; hidden lines are settled; a user sees the own move | modelled: `Board` |
| Condition expressions (`pipeline/conditions.py`) | none | parse and evaluate | - | partly: what an evaluation does |
| Number series (`core/numbering.py`, `next_number()`) | a counter per prefix, unique codes | draw inside a creating transaction | gapless, no code twice | modelled: `NumberSeries` |
| Audit trail and actor (`core/db.py`, `core/middleware.py`, `record_audit()`) | `app.current_user_id`, open blocks, audit rows | `audit_actor`, the trigger | every write names the actor of its block | modelled: `AuditTrail` |
| Audit partitions (`core/partitions.py`) | quarterly partitions | extend the window at start-up | today has a partition | modelled: `AuditTrail` |
| Documents (`core/services.py`) | object store, document rows | upload | no row without bytes | partly: `AuditTrail` |
| Job sheet sync (`core/sheets.py`) | a worksheet | overwrite it, by button and by sidecar | it shows the ledger again and again | modelled: `JobSheet` |
| Permissions (`identity/services.py`) | roles, grants, a request's cache | resolve, check, scope a list; change roles and grants | resolution is what the rows say; only the authorised change them | partly: `Permissions`; roles are not created or deleted |
| Permission grid (`identity/constants.py`, migrations) | grants as seeded | seed and unseed | a deployed database has its release's grid | modelled: `PermissionGrid` |
| Accounts and login (`identity/backends.py`, `services.py`, `admin.py`) | counter, lock, hash, must-change, active | log in, change, reset, create, edit, deactivate | the counter is the streak; the password is the last one set; removed means out | modelled: `Accounts` |
| Employees (`hr/`) | employee rows, codes, the account | create, update, soft delete | a removed employee is out; codes are not reissued | partly: `Accounts`, `NumberSeries`, `Deployment` |
| Django admin | forms that save whole rows | add, change | - | partly: `AdminDesk` and the forms inside `Permissions`, `Accounts`, `QuotationChain` |
| Web front end | query cache, forms | the pages | nobody is shown less than what they did themselves | partly: the cache in `QueryCache`, the two pages with state of their own in `Board` and `Intake` |
| Seeding migrations | stage graph, lines, statuses, codes | forward and backward | what they leave does not depend on the way there | modelled: `StageMigrations`, `Deployment` |
| Deployment (`docker-compose.yml`, `entrypoint.sh`) | containers, releases, applied migrations | boot, migrate, serve, crash, deploy, roll back | as above, with crashes and two containers at once | modelled: `Deployment` |

### How they interact

A POST to `/job-lines/{id}/transitions` calls the engine, whose INSERT fires the
`apply_transition()` trigger and then Django's `post_save`, whose receiver runs
the cascade on the card. An upload stores a document's bytes, locks the newest
revision, draws a number, inserts a revision, calls the engine once per line with
action `quote` (each call cascading again), and finally writes the card itself.
Cancel and PATCH write the card alone. All of them share rows through three kinds
of lock: the line, the card, the series. Every write of an audited table also runs
`record_audit()`, which reads the transaction's actor and needs a partition for
the day. The board reads lines, movers and quotations in separate statements and
the browser keeps the answer; the enquiry page posts a card and its lines in
separate requests. Every page of the client shares one query cache, in which a
write marks what it made old by naming keys. The admin's forms save whole rows beside
all of these, and containers migrate the tables under them.

### What is hard

* A value read before a wait is used after it: the stage and the mover in the
  engine, the card's status in the upload, the previous revision, the account's
  counter, any row behind an admin form.
* A decision over rows that nobody locks: the cascade counts all lines of the card,
  a new line number is the maximum plus one, a board is four statements.
* A history is read in the order its transactions began, and made in the order they
  took the line's lock.
* Lock orders: FOR UPDATE against KEY SHARE on a line; series, lines, card.
* Rollback to a savepoint, crash, a lost reply at any point.
* Work in several steps that can stop in between: card and lines of an enquiry,
  clear and write of the worksheet, one migration after another in two containers.
* Limits: the width of a code, the last partition, the failure counter.

`PROJECT.json` lists each of these at its line, with the property that watches it
or the reason none does.

## 2. The modules

`StageGraph` is the vocabulary of the pipeline: constants for users, roles, stages
and rules, the table's own constraints as the assumption `GraphAssumption`, and the
pure functions `candidate_rules`, `_check_note`, `_check_self_approval` and
`_check_condition`. `SeededGraph` gives the graph the migrations leave behind, which
`MCDeployment` checks against what `StageMigrations` computes. The systems built on
them are described below; none copies another's state, and the coarser one says
which steps of the finer it takes as one.

Modules named `...Proofs` hold the theorems about a module, modules named `MC...`
its instance. Four instances (`MCProgress`, `MCRecords`, `MCPages`, `MCPlatform`)
check several parts in one run. Their parts share no state, so a product of their
behaviours would show nothing more: a behaviour is one of one part, named by the
variable `part`, and the others stay as they began.

### LineHistory and TransitionEngine

`LineHistory` is the abstract promise: a move happens in one instant, along a rule
of its mover's roles, and is appended to the line's history once.

`TransitionEngine` is `perform_transition` as a request runs it. `pc[r]` walks
through the function; each action is the code between two points where another
transaction can commit:

| Action | Code | What it reads or takes |
|---|---|---|
| `Begin` | BEGIN, by `ATOMIC_REQUESTS` | the clock: `NOW()` for the whole transaction (`stamp`) |
| `Load` | `create_transition` loads the line | `current_stage`, unlocked |
| `FindRules` | `candidate_rules`, destinations compared, `_who_moved_it_here` | the mover named in the history row that sorts first |
| `Judge` | the rule loop | `has_quotation_pdf`, the order of rules is any order |
| `SerialiseOn` | `_serialise_on` | FOR UPDATE on the line |
| `InsertRow` | the INSERT | the row's id, from the sequence (`serial`); KEY SHARE on the line, by its foreign key |
| `ApplyTransition` | the trigger | FOR UPDATE again, the stale check |
| `Commit`, `Answer` | end of `ATOMIC_REQUESTS`, the response | locks released; the reply may be lost |
| `Crash` | any moment before COMMIT | rollback |
| `AttachPdf` | a quotation is committed for the card | only ever turns the condition on |

History rows are kept in the order of their commits, which is also the order of their
ids, since an id is drawn under the line's lock (`HistoryIsWalk` says both). It is not
the order the code reads them in: that is `performed_at DESC, id DESC`
(`pipeline/services.py:93-98`, `pipeline/models.py:190`), and `performed_at` defaults to
`NOW()` (`pipeline/models.py:183`, `core/fields.py:78-89`), the start of the transaction.
A request that began first and took the lock second commits last with the earlier stamp,
and the row the code takes for the latest (`Newest`, `LatestMover`) is not the one that
put the line where it stands. The clock may stand still between two BEGINs, as it may
within a microsecond. `stage` and `history` hold committed values only: what the
request wrote itself is `dest`, and nobody else sees it before `Commit`.

### JobCardLifecycle

One card and everything that writes `lifecycle_status`. A request has a memory
`tx[r]`: what it loaded, the lines it has still to move (at the stage it saw), its
uncommitted moves (`draft`) and card (`card`). A draft is also the lock on that
line, a written card the lock on the card. `View(r, l)` is what r sees: its own
writes over what is committed. The engine is taken as one step here (`Advance`),
which is what `ImplementsAtomicMoves` and `NoUpgradeDeadlock` permit, and nothing here
reads a mover; the cascade is not, since between its read of the card, its count of the lines and its UPDATE
(`SyncReadCard`, `SyncDecide`, `WriteCard`) other requests commit. `basis` is a
history variable: the lines whose agreement decided the present status. `CardHistory`
adds another, whether two requests have been open at once, for what holds only of a
program that serves them one at a time.

`ReadPrevious`, `InsertQuotation`, `ListLines`, `Advance`..., `CloseUpload` follow
`create_quotation_revision`. Of the chain of revisions only its length is kept: a
revision computed from one that is no longer last collides with a unique key.
`Workers` bounds the open requests; `Workers = 1` is the program with no overlap.

### NumberSeries

A creating request draws (`NextNumber`: the upsert, which waits for the row),
inserts (`CreateRecord`: refused when the code is used or another constraint
fails) and commits. `Written` is what `lpad` makes of a number: padded below the
width, cut to its leading digits beyond. `current` is the committed counter; a
drawn number is visible to nobody until `Commit`. `Issued` lets a behaviour begin
after years of use, a state the program reaches by creating that many records.

### Permissions

`Resolved` is `resolve_permissions` over the rows of a user's active roles: per
permission the highest unrestricted level, and the highest owner-scoped one where it
reaches further. `HasPermission` and `OwnerScope` are the questions the services and
the list endpoints put to it. A request loads its user (`Begin`: an account that may
not authenticate is anonymous and refused everything), resolves at its first
question and keeps the result to its end (`Resolve`), and then leaves or changes the
tables through one of the admin's forms (`AssignRole`, `RevokeRole`, `AddGrant`,
`RemoveGrant`, `SaveAccount`). The catalogue has no `edit` on role assignments, so
the forms can create and delete rows and never alter one, and a role's `is_active`
is constant. `basis` and `since` are history variables: the rows a request resolved,
and all rows its user held from its beginning on. A permission is one value for the
pair of resource and action; who owns an object is part of the question.

### QuotationChain

The rows of `sales_quotations` of a few cards and everything that inserts or changes
one: `create_quotation_revision` by concurrent uploads, and the admin's add and
change forms. `Choose` is the snapshot of the SELECT of a card's newest committed
revision (`seen`), and `Lock` the wait for that row, FOR UPDATE: it ends on the row though
a newer one may be there by then, unless the row has left the card, when it is passed over,
locked as it is, for the next one. `locked` is every row a request holds.
`RefusePdf` is a document that is too large or not stored, `Demote` supersedes the
previous row, and `Insert` waits for the number series, is refused by a committed
row under either unique key (card and revision, and `supersedes`), and otherwise is
a row nobody sees before `Commit`. `AddByHand` and `SaveForm` are the admin's forms
(`sales/admin.py:119-129`): the second writes any status and any card, since `job_card` is
among the fields it leaves editable. `saves` counts its saves, and `refiled` holds the cards
it has taken a revision from or given one to.

The docstring of the model calls the revisions of a card a strictly linear chain
(`sales/models.py:315-317`). That is true of every card outside `refiled`. Of all of them it
is true that no two revisions have one number or one predecessor. A card whose newest
revision was filed elsewhere is worse off than a broken chain: its next upload follows the
revision below, which has a successor already, so `uk_quotations_supersedes` refuses every
upload until the revision is moved back.

### ClientBook

The contacts of one client, and which of them is primary. `add_client_contact` is
`FindIncumbent` (the UPDATE's scan), `Demote` (its row locks; after a wait it only
asks again whether the row it found still qualifies) and `Insert` (against the
partial unique index). `beaten` is a history variable: another primary was committed
while the request ran.

### Accounts

The row of `auth_user_accounts` as concurrent requests write it. Every request loads
the row without a lock (`BeginLogin`, `BeginChange`, `Render` and `BeginEdit`,
`BeginRemove`), works on its copy, and saves: `authenticate()` the failure counter
and lock it computed, the services constants to named columns, the admin's form
every column, the hash it happened to load included. That form leaves out the password
alone (`identity/admin.py:55-56`): `FormRow` takes the flag, the counter and the lock each
as the page showed it or as the administrator typed it (`TypedCounts`, `TypedLocks`), and
`Typed` says which of them that changed. `SetPasswordFor`,
`CreateUserAccount`, `DeactivateUserAccount` and `MarkDeleted` (the admin's employee
form, which leaves the login alone) read nothing first and are one step. `Tick` is
the clock; `gone` tells a removal by the service from one by the form. `streak`,
`latest` and `issued` are what the row ought to say, and `caveats` names what has been
done to an account that they do not follow: a kind of request that saved it from a stale
copy, a counter or lock typed by hand (`"count"`), a must-change flag changed by hand
(`"must"`), a removed employee brought back (`"revive"`). Each property is exact for
accounts without the caveats it names, and so also says which writers can break it. A new
password writes every column but `is_active`, and takes the caveats about the others away
(`Mend`). The form can also give an account to another employee; here an account stands
for its employee, and that is left out.

### AuditTrail

One database connection, as a worker uses it for one piece of work after another.
`frames` is the stack of open blocks: the view's transaction, or a command's, and
inside it `atomic` and `audit_actor` blocks, each a savepoint. `EnterActor` sets
`app.current_user_id` and remembers the value to restore; `Leave` restores it;
`Raise`, `Unwind` and `Abort` are an exception on its way out, which takes the
savepoint's SET LOCAL and audit rows with it. `AuditedWrite` is any write of an
audited table: the trigger's row names `setting` and goes to the partition of the
quarter the transaction began in. `StoreBytes` and `RecordDocument` are the two
halves of `upload_document`, the bucket taking no part in the transaction.
`EnsurePartitions` is what a starting container does, `NextQuarter` the calendar.

### Board

The board as a browser tab sees it. A GET is several statements, each on what is
committed by then: `FetchLines`, `DropHidden` (`board_hide_after_hours`),
`FetchMovers`, `FetchPdfs`, and `ShowBoard` when the answer reaches the cache.
`Click` opens a dialog on an offer of the board shown, `Confirm` posts the action's
code and no stage, `MoveLine` and `RefuseMove` are what the engine makes of it (one
step here, so that the newest history row is also the last: which row the code takes for
the newest is `TransitionEngine`'s matter, and the board asks by the same order),
`LoseAnswer` and `HearAnswer` what comes back; a success cancels a fetch in flight and marks the cache for a refetch. Others move
the line, upload a PDF, and hours pass. `version` counts changes of a line, `own`
the version after a tab's last move it was told of.

### QueryCache

Every page of one browser tab and the query cache behind them. A fact (a card, its
status, its lines, their stage, its quotations, notes or files; a client, its contacts)
is a version number. `Views` are the keys of `queryKeys.ts`, `Reads` what each GET reads,
statement by statement, and `Mounted` what each route asks for. `Visit` goes from page to
page; `BeginLoad`, `ReadNext`, `Arrive` and `LoadFails` are a GET; `Forget` is `gcTime`.
`Send`, `ServeWrite` and `WriteFails` are a write of the tab's own, and `Hear` its
`onSuccess`: it invalidates the keys its hook names, one operator per hook. `HearClient`
also puts the POST's answer into the cache, `HearFailure` is `onError`, `RefreshAll` the
button of the top bar, `Colleague` anybody else's write. `Invalidate` is what the library
does, as the hooks rely on it: every entry under the key is marked, a shown one is loaded
again and its GET under way cancelled, but a first load, which has no answer to go back
to, goes on. `heard` remembers what the user has been told.

`Board` has one view of this cache with what its answer says; here are all views with
only the age of what they say. The hooks no page uses (`useUpdateJobCard`,
`useUpdateJobLine`, `useUpdateClient`, `useAddJobLine`) are left out; the form posts its
lines itself, and `submit` is what it invalidates then.

`OwnChangesShown` is: an entry not marked for loading again carries at least what its own
user changed and was told of. It has two exceptions, which are what the code really does:

* `Unmentioned` lists the names a hook leaves out. `AFFECTED_BY_TRANSITION` is said to be
  "everything a completed transition can have changed" (`queryKeys.ts:30`) and leaves out
  `job-cards`, though the cascade of a move, or of an upload, changes the status shown in
  that list; an upload leaves out the page of a line, which shows the last quotation; and
  the form's lines leave out the dashboard, which counts them. Such a page is old until
  `staleTime` and the next focus or mount.
* `late` is an answer of a first load that was under way when the invalidation came. It is
  as old as its statements and is not marked.

### Intake

The New enquiry page and the endpoints behind it. `Fill` is every control of the
form (choose or create a client, choose or create a contact, choose a policy),
`Submit` posts the card, `CardAnswered` and `LineAnswered` post the next line,
`Serve` carries a request out (`create_job_card`, or `add_job_line`), and `Fail` is a
refusal, a lost request or a lost answer. After a failure the form is still filled in and
may be submitted again. `LineNoFor` is the number `add_job_line` gives a line: that of the
payload when it has one (`sales/services.py:311`), or else `MAX(line_no) + 1`. The page's
payload has none; a colleague who adds a line, in two steps (`OtherReads`, `OtherInserts`),
may ask for one. `SaveLine` is the admin's forms of a line, which write its number and, the
line's own form, its card (`sales/admin.py:74`, `sales/admin.py:100-109`). Others edit
clients' defaults. `had` and `carried` are history variables, and so are `chosen` and
`moved`, the cards on which somebody chose a line's number and those a line was moved from
or to.

No line is deleted: nobody holds `job_line:delete` in the grid. None is added by the
admin's form either, in which the stage a line must have is read-only. A number is a
smallint. Who gives a line of a card the largest one, 32767, ends that card: every later
addition that asks for no number computes 32768 and fails (`Storable`), until the line is
given another.

### JobSheet

A sync of the worksheet by the `sheets-sync` loop or by the "Sync now" button:
`ReadCards`, `ReadQuotations`, `Clear`, `Write`, `Format`, each of the remote ones a
call of its own that may `Fail`. `Tick` begins the loop's next turn whatever became
of the last. The office changes cards and quotations meanwhile. `alone` remembers
that nothing moved since a sync began.

### AdminDesk

The admin's job line form beside the whole of `TransitionEngine`: `OpenForm` loads
the row without a lock, `SaveForm` writes every column of it, `current_stage`
included, waiting for the engine's row lock.

### PermissionGrid, StageMigrations and Deployment

`PermissionGrid` is `GRID` of `identity/constants.py` for each release and what the
identity migrations 0002 to 0010 do to the tables, forward and backward: they read
the grid of the release that runs them, so the same migration does different things
to an empty database and to an old one. `StageMigrations` does the same for the
pipeline migrations 0003 to 0009, which carry their own rows.

`Deployment` runs them. A container boots (`Boot` makes the plan from the migrations
missing then), applies one per step (`Apply`, or `Fail` when a constraint refuses),
serves, or crashes and is restarted; two containers work through plans made from
the same state. The operator deploys a release or takes the database back
(`Retreat`, `Reverse`, `GiveUp`). Between, people open cards, quote and move them and
add clients and employees, in the tables the data migrations of `sales` and `hr`
rewrite, and an administrator ticks or unticks `allow_self_approval` of a rule (`SetGate`),
which is how a two-person gate is made: the seeds have none. Roles are not asked for and a
move is one step: the other modules have that detail.

A migration that two containers planned runs twice. `RunsOnce` are those that fail the
second time, because they add a column or drop a constraint: pipeline 0007 and 0008 and
sales 0002. Sales 0004 drops its constraint and puts it back, and so succeeds twice, its
backfill of statuses with it. The renumbering ones go row by row, and fail when a row's next
number is one a later row has (`NoneInTheWay`). `gated` holds the edges an administrator has
gated and no migration has written since, `halted` the migrations that a container was killed
before it ran them again, and `short` says that hr 0003 has found some of its people on a
staff smaller than its roster.

What it shows of the code beside its properties:

* The upgrade over pipeline 0006 deletes the confirm edge of NEGOTIATION, gate and all, and
  seeds that of QUOTATION without one. A repeated 0003 takes the gates off its edges. An
  administrator has to set them again (`GatesKept` says these are the only ways to lose one).
* hr 0003 calls itself a no-op on a database without "this exact roster"
  (`hr/migrations/0003_realign_employee_codes_with_source_document.py:69`). It asks only
  which of its names it finds. Where Govind Singh is the only employee, he becomes SRS-002 with
  the series at 1, and every later employee is refused for ever, since the rollback gives the
  number back. Where another employee already has the code one of its people is to get, the
  migration fails, and the container with it, at every start. And a container that repeats
  hr 0002 after it may find the next number on a later row, and fail once.

## 3. The runs

| Run | Instance | Shows |
|---|---|---|
| `engine` | seeded graph, confirm and cancel gated, one line, owner and salesman, 3 requests | history is a walk in the order of its ids, moves authorised, the two-person gate unless requests overlap in one of two named ways, trigger never waits, answers true |
| `engine-rules` | a graph of misconfigured rules (two destinations for one action, a broken condition), one line, 3 requests, fairness | refinement of `LineHistory`; a dead end is final; every request ends |
| `card` | 2 lines, 4 requests of every kind, 3 open at a time | founded status, card written last, a quoted card is never open again; and, as long as no two requests have overlapped, the card in step and no walk back (`KeptSerially`) |
| `progress` | an upload, a cancellation and a move meeting on every lock; the sidecar and one press, 2 cards, 3 edits, one failing call; fairness | every request ends; the sheet catches up; a pass nobody disturbs is exact |
| `records` | an administrator, a clerk with owner-scoped grants, a retired role, 3 requests; 3 uploads on two cards beside the admin's forms, which also file a revision under the other card; one tab, one enquiry and its customer, each on file or still to be made, in the eight scenes of `MCQueryCache` | permissions are those of the rows and of the request's time; changes are authorised; the revisions of a card form a chain unless refiled; a page never misses what its user did, up to the two named exceptions |
| `accounts` | one employee, 2 clients, 2 failures to a lock, 3 hashes, an administrator who types counters, locks and flags | the counter is the streak, the hash the last one set, must-change exact, removed means out, each up to its named exceptions |
| `pages` | one board tab, the owner and a salesman; the form of two lines, two submissions, a client on file and one to be made, lines with asked numbers, renumbered or moved; three new primary contacts over an incumbent | offers are what the engine grants, what a board leaves out is settled, own moves are shown; a success means a whole enquiry, line numbers distinct, and in turn where nobody chose one, the form is the client's; adding a primary contact replaces the one there is and never loses it |
| `platform` | three releases, two containers, one crash or one rollback, a staff of nobody, of all the roster or of parts of it, gates set; two series, 4 draws; two users, blocks three deep, a window of two quarters | seeds are as released and every line shown once it is done, unless a repetition was killed (`FoldedLast`), and gates kept; no row outside its constraints and no line without its history at any point of an upgrade or rollback, codes not reissued, with one named exception; gapless numbers; attribution, bytes before rows, a partition for today |
| `two-person` | quote, rework, quote, confirm | **violated**: see below |
| `lost-cascade` | two lines cancelled side by side | **violated** |
| `unattributed` | a request that writes outside `audit_actor` | **violated** |
| `admin-overwrite` | one move, one save of the admin's form | **violated** |

### Bounds, and why they are enough

* The engine's hazards need three requests: one to move a line away, one to bring it
  back, one that judged before both. A request runs once, so histories are at most
  three rows long; a line can revisit a stage within that. `MaxClock = 1` gives every order of
  stamps that three requests of a line can tell apart by the newest row: earlier, or the same
  and later by id. `two-person` needs four requests, and no clock.
* Two lines make disagreement of a cascade possible; a third would repeat the
  second. Four requests with three open cover an upload, a move of each line and a
  cancellation. The seeded graph is used whole; the small graph exists for rules
  the seed does not contain.
* `Permissions` needs a request under way while a second gives and a third takes;
  levels 0, 1 and 2 with both scopes give every order of two levels.
* Three uploads or three contacts are one that waits, one it waits for, and one that
  commits between the first one's read and its wait. Two of the uploads are for one card and
  one for another, and the admin saves twice: a revision filed away and brought back.
* Two clients of an account are a stale writer and the one it overwrites. Two
  failures to a lock are the fewest that tell a lost count from a lock; a tick past
  `LockSpan` is a lock that has run out. An administrator types a counter of zero, and no
  lock or one past the clock, which is every way to part the two. `MCOneCaveat` stops a
  behaviour at its second caveat: what the first leaves is seen, what several do on top of
  each other is not; and once the admin's form has made one, no form is opened until a new
  password mends it. The theorems have none of this. `MaxHashes`, `MaxStreak` and
  `MaxClock` bound counters.
* One tab suffices for the board, since other users' moves are actions of their own.
  Two lines of a form are the shortest chain with a middle. People ask for line number 2,
  which the form will want, or 32767, the last there is.
* A view of the query cache depends on another only through what a page mounts, so
  `MCQueryCache` cuts the tab's behaviours into scenes: a few pages, writes of one kind,
  two views loaded. Each hook has a scene, with a view it must reach and one that shows
  the same fact under another key. One write of the tab is under way at a time, at most
  two are made, and `MaxVersion` is never the limit; the theorem has any number of each.
* `NumberSeries` needs two requests to race and a third to reuse what a fourth
  rolled back; client codes begin at nine so that a carry happens. Blocks three deep
  are a transaction, an actor and one more inside it. A window of two quarters
  is overrun within the bound on the calendar.
* `MCDeployment` restricts `Deployment` to what one behaviour needs: one card, two clients,
  staff or gates (no step reads two of them), a crash or a rollback, cards worked on
  by people only while no container migrates, gates on the owner's quote and confirm edges.
  The staff on file is nobody, the whole company, or a part of the roster that puts a number
  ahead of the series (Govind Singh alone), behind a stranger who stands in the way of a
  repeated renumbering (Santosh), or behind one who has the code it wants (Shine Ts). A
  kill may come at any point, between two repeated migrations too. The releases are the
  first, the one that merges the NEGOTIATION stage, and the present one.

Requests and users are interchangeable where their inputs are, and are a symmetry
set wherever no liveness is checked. What the bounds leave open for safety is
settled, where a theorem is listed, by proof.

Deadlock is checked in `engine`, `engine-rules`, `card`, `progress` and `records`:
where the module has one, its `Finished` step is the only way to stop, and it needs
every request done. It is not checked in `accounts`, `pages` and `platform`, where a
bound (hashes, submissions, releases, quarters) ends a behaviour and nobody has to
do anything.

### Fairness

`TransitionEngine` asks weak fairness of a request's own steps once it has begun, and
of nothing else; `MCProgress` asks the same of the card's requests, of a sync's
steps, and of the sidecar's timer. A gunicorn thread runs its request to the end,
and PostgreSQL grants row locks in arrival order, so a waiter is not overtaken for
ever; in these models each request runs once, and weak fairness already suffices. The
sidecar is a `while true` loop with a sleep, restarted by `docker-compose.yml`, which
is what fairness of `Tick` states. No fairness is put on a request's arrival, a press
of the button, the office's edits, a crash or a failing call: nobody has to ask for
anything, and `MaxFailures` bounds failures, without which nothing catches up.

### What the violated runs show

* `two-person`: the help text of `allow_self_approval` says that whoever moved the
  line into a stage may not move it out. `_who_moved_it_here` is read before the
  line is locked, and the trigger compares only the stage. A request judged in one
  visit of a stage can wait while the line is moved out and, by its own user, back
  in; it is then accepted. That is one way, and the run shows it. The other needs no earlier
  visit: u's request begins; v's begins, moves the line from S0 to S1 and commits; u's loads
  S1, moves to S2 and commits, with the earlier stamp; when u asks to leave S2, v's row sorts
  first, and u is let through the gate. `TwoPersonUnlessOverlapped`, which is checked and
  proved, is the part of the promise the engine keeps: it names these two as the only ways.
* `lost-cascade`: two requests closing the two lines of a card each count the other
  line as live, since neither is committed when the other counts, and the card
  stays as it was. It takes an overlap, as `KeptSerially` says. Overlap has a second
  victim there: the upload tests the status its view loaded before it waited, and
  walks a card that was cancelled meanwhile back to quoted.
* `unattributed`: the middleware sets `app.current_user_id` with SET LOCAL, saying
  that `ATOMIC_REQUESTS` has opened the transaction by then. Django wraps the view,
  not the middleware, so the setting ends with its own statement. What is true, and
  proved, is `Attributed`: rows name the actor of the block they are written in.
* `admin-overwrite`: `current_stage` is documented as written by the trigger alone.
  The admin's form shows it read-only and saves the whole row it loaded.

## 4. The proofs

All theorems hold for every value of the constants that satisfies the named
assumptions. `GraphAssumption` (the table's unique and check constraints, and that it
has finitely many rows), `EngineAssumption`, `CardAssumption` and
`PermissionAssumption` (types, non-empty inputs, finitely many requests) are ASSUMEd
in the modules themselves. `SeriesAssumption` (codes were issued within the width so
far), `ChainAssumption`, `ClientAssumption`, `AccountsAssumption`, `AuditAssumption`,
`SheetAssumption`, `BoardAssumption`, `IntakeAssumption`, `CacheAssumption` and the three
of `Deployment` are hypotheses of their theorems, so that an instance may compose the
modules, and TLC evaluates them on the instances. Two theorems need something of the
stage graph that the table does not enforce, and say so as a hypothesis that the seeded
graph meets: `QuoteDecidesNothing` (a `quote` rule leads to a stage that decides nothing
about the card and is not the initial one) and `Hiding \subseteq DeadEnds` (only stages
no rule leaves have `board_hide_after_hours`).

Every safety property and action property of the passing runs is proved but one,
named below. The instances EXTEND the modules they compose, so that the formula a run
checks is the one its theorem states.

**TransitionEngineProofs.** `TypeCorrect` first. None of the other invariants is
inductive alone. `LockInv` says that a request past `_serialise_on` owns its line
and that KEY SHARE is only held under FOR UPDATE; `NoUpgradeDeadlock` follows.
`AppliedInv` says that past the trigger the line still stands where the request saw
it, which needs `LockInv` for the other writers; with it `Commit` extends the walk.
`SerialInv` says that a request that has drawn its id and holds the line drew it after every
row of that line, so that the walk is in the order of the ids too (`HistoryWalks`).
`JudgedInv` keeps the rule that permitted the move, stable because a PDF is never
removed (`EveryMoveAuthorised`). `FreshInv` says that an uncommitted request has no row,
so a refinement step is an `Advance` of `LineHistory` with an unused identity
(`ImplementsAtomicMoves`). `VisitInv` says that at some moment of the history the line
had already stood where the request saw it (`SawAt`), and the mover it read was then the
last one, unless that last row was `Overtaken`, having begun before a row recorded
before it (`MoverAt`). The row that sorts first need not be the last, but a last row
that is not overtaken sorts first. That is as much as is true, and gives
`GateHoldsUnlessOverlapped`. `DeadEndsStay` is an action property from `AppliedInv` and
`JudgedInv`. `ReplyInv` ties a request's point in the code to its rows: none before
`Commit`, exactly one after, and an answer is chosen from that point alone
(`AnswersTrue`).

**JobCardProofs.** `TypeCorrect`, then `StatusStaysFounded`. `Founded` says that the
lines a cascade counted stay downstream of the stages behind the card's status, and
it survives concurrency although the count is unlocked: a counted line may only
move along a rule, and downstream sets are closed under rules. The argument needs
`EarlyInv` (what an unbegun memory holds), `DraftInv` (a draft is one rule away from
the committed stage and nobody else drafts the line), `WantInv` (what is about to be
written was agreed by lines that are still downstream, in the request's view) and
`BasisInv` for the committed status.

`LinesBeforeCard` needs to know that an upload's own cascades never write: every line
it has drafted stands at the end of a quote edge (`QuotingInv`), a stage that decides
nothing, so the lines never agree and the card is left to the last step (`LastInv`).
This is where `QuoteDecidesNothing` enters. `QuotedNotOpen` holds in every
interleaving: `OpenInv` says that nobody but a PATCH is about to write "open" and that
a card seen in another status is not open now, and `LoadedInv` what an upload loaded.
`SerialCardIsKept` is about `CardHistory`, which adds to the model whether two requests
have overlapped. Until then the one open request is `Current`: what it loaded is what
the database holds, and what its cascade wants is what its lines agree on (`SerialInv`,
`ClosingInv`); its commit then leaves the card in step. `lost-cascade` shows that
nothing weaker than "no overlap" would do.

**RecordsProofs.** The permission algorithm is proved first and without state:
`ResolvedAnswers` says that for any set of rows the resolved grants answer a question
as the rows do; it rests on `HighestLevel` (a set of levels has a highest) and gives
`MoreRolesMoreAuthority` at once. The state then keeps `CacheInv` (a cache is its
basis resolved, and the basis was held) and `SinceInv` (what a running request's user
holds has been noted), from which `ResolutionIsExact`, `ListsAgreeWithRecords`,
`GrantsWereHeld` and `EveryChangeAuthorised` follow.

For the quotations, `ChainInv`. Of all cards it says that no two committed revisions share a
number on their card or a predecessor (`Apart`), which the unique keys make inductive, and
not the lock, which a revision committed after the read evades. Of the cards that no
revision was filed to or from it says that each revision follows the one below (`Chained`),
and that they are numbered 0 to some count (`Counted`), without which a number could be free
below the newest. The row a request supersedes is one it holds, so that no form can file it
elsewhere meanwhile (`PreviousStands`), and what it has inserted and not committed is claimed
by no committed row (`Drafted`). `RevisionsFormAChain`
follows; `CurrentQuotationIsNewest` adds that superseding a row and inserting the next are
one transaction.

For the pages, `PagesInv`. `OwnChangesShown` speaks of entries at rest; the invariant has
to say the same of what a GET under way has read so far, unless an invalidation joined
that GET (`EntriesUpToDate`, `LoadsUpToDate`), or its arrival would break it. A statement
reads the present version, and nobody has heard of a later one (`HeardIsMade`). A write is
heard by an invalidation, which marks or begins again whatever the hook's keys cover
(`RefreshLoads`). What they do not cover has to have nothing to learn (`StillUpToDate`),
and `Mentioned` is the audit of the hooks that shows it, write by write and view by view:
a view that reads a fact the write changes is covered, or the pair is in `Unmentioned`, or
the write made what the page could not be reached without. The last case is why the
invariant also says that a page was reachable, that an answer has what there was by then
(`Born`), and that what a write makes is its first version (`Makers`).
`OwnChangesAreShown` follows, and `CacheIsTyped` beside it.

**IntakeProofs.** `PageInv`. `FileInv` says that the lines of every card have numbers of
their own, and that those of a card on which nobody chose one are numbered in turn, so that
an unlocked MAX + 1 is there the next number or one already taken: with it the unique key,
which refuses the second, is all that `LinesInTurn` needs, and it needs that no line is ever
deleted. A maximum exists at all because a card has finitely many lines (`HaveMaxima`, kept
by every change of them); what it says of chosen numbers is any number the column takes.
`FlightInv` says what a submission has made when its
answer is on the way, which a lost answer does not change, of a card no line was moved from
or to (`ToastIsTrue`). `CountInv`
counts cards against failures (`EveryCardAccountedFor`). `ClientInv` says that the form,
the request and the card carry a policy the client has had and a contact of that client
(`CarriedFromTheClient`), with the exception the code has: a contact carried over to a
client made a moment ago.

For the contacts, `BookInv`: updated rows are held by one request and are primary
still (`HeldRows`); a request that has inserted a primary holds every primary row
there is (`ReplacesAll`), by the index; and a request nobody overtook has found them
all (`Undisturbed`). Then at most one contact is primary, a primary goes only when
another comes, and a refusal means that another one won.

**BoardProofs.** A board is put together by several statements, so `ReadInv` says of each
answer in the making that a line whose version has not changed since is still what was
read of it; versions only grow (`Advance`), and whatever changes a line's stage, mover or
quotation changes its version. `ShownInv` carries that into the cache, and `OffersTrue`
compares the advisory algorithm with the engine's, rule by rule, for any graph
(`AdviceIsTrue`). `OwnMoveStays` needs that a move's success cancels the fetch in flight.
`LeftOutIsSettled`: a line seen in a hiding stage cannot have left it, which is where
`Hiding \subseteq DeadEnds` enters, and a line only grows older there.

**SheetProofs.** `SheetInv` says, for a sync that nothing has disturbed, what it has read
and what the sheet holds at each of its calls; that rows read in two statements are the
ledger needs `SecondReading`, and that nothing of an earlier sync stays below needs the
clearing to reach the sheet's last row (`UndisturbedSyncIsExact`).

**PlatformProofs.** `SeriesInv`: a request between draw and end owns the row and
holds the number after the committed one; created records hold distinct numbers.
`NumbersAreGapless` follows at once, `CallersNeverShare` with the width as hypothesis.
`TrailInv`: the setting, and the one each open block would return
to, is the actor of the last `audit_actor` below it (`SettingInv`, by `LastNamed`); a
block returns to a prefix of the audit rows (`PrefixInv`); no document row, pending,
remembered or committed, is without its bytes (`BytesInv`); and the partitions reach
`Ahead` quarters past the last start (`WindowInv`). An exception at any depth is the
case that needs all of them.

For deployments, two invariants, one on the other, for any number of containers, releases,
cards and people, any crashes, and both containers' plans in any interleaving; the
restrictions that `MCDeployment` puts on a behaviour are not in the theorems. `PlanInv`
says that the tables have no migration the image lacks, and that a container that has
started lacks only what is still in its plan, so that one that serves lacks nothing.
`BooksInv` adds the codes. What carries `CodesKept` is that, once hr 0002 is applied, the
series is at least the number of employees, repeated renumberings and refused additions
included (`StaffInv`), and that hr 0003 comes after it in every plan (`FirstAndLast`,
`RanksOfHr`). It writes codes 1 to 20, so they are within the series when twenty people or
more are on file, or none of its own; otherwise `short` is set, which is the exception
`CodesNeverReissued` names. No two rows have one code even then. `RowsInv` adds the
rows. A migration's transaction looks at the checks itself; a person's write is not
looked at by the model, and fits because whoever serves has the migrations of its
release (`WorkKeepsRows`), and a reverse migration looks at the cards before it puts the
older check back. A gate changes no key (`GateKeepsRows`). The unique keys are proved of
the operators: GRID has one row of a role, a permission and a level (`GridFits`,
`EveryGridFits` for the grids of earlier releases), each of the sixteen seeding
migrations keeps the keys apart, and so does each of the fourteen a rollback can reverse
(`SeedGridFits`, `SeedStagesFits`, `UnseedGridFits`, `UnseedStagesFits`), and rows with
keys apart are as many as their keys (`GrantKeys`, `RuleKeys`). `RowsKept` follows.

`ReleaseAssumption` is that no image is older than the seeds of roles and stages.
`GridAssumption` is that permissions are finitely many. `StaffAssumption` is that names are
strings and that nobody is on file twice: the company may be any, with all of the roster hr
0003 is written for, some of it or none.

**AccountsProofs.** `AccountInv` is about copies: a request that nobody overtook has a
faithful copy of the columns it relies on (`Faithful`, which differs by kind of
request), and no hash in a row or copy is newer than the last one made (`HashInv`), so a
new password is nobody's old one. With it `Counted`, `Owned` and `KeptOut` are inductive
per account, and give `CounterIsExact`, `PasswordsStand`, `MustChangeIsExact` and
`RemovedAreOut`. An administrator's form is the long case: whatever was typed into it,
either the columns are those of a fresh copy or `Typed` has put the caveat on record;
and a new password owes nothing to the columns it overwrites, which is why it may take
caveats away (`Mended`).

### Only model-checked

Liveness is beyond the prover's reach, as is ENABLED: both `EveryRequestEnds` and
`SheetCatchesUp`. Of the safety properties, `SeedsAsReleased` compares the rows that
particular migrations leave with the rows of particular releases: a proof would be TLC's
computation over again. Two of its parts hold only if no kill interrupted a repetition
between pipeline 0003 and 0006 (`FoldedLast`). A container killed there, after the other has
finished, leaves NEGOTIATION active or a rule that leads into it, with nothing left in
anybody's plan to fold it again: a line moved along that rule stands at a stage the board
does not show. The run has these behaviours, and the grid and the gates hold in them.
Proved and in no run are `NoTwoCallersShare`, `ListsAgree` and `OneDraft`: the first needs
its width as a hypothesis, the second follows from the first of its module, and the third
from what `ChainIsLinear` is proved with.

## 5. What is not modelled

* **The rules under a request.** Rules and stages are constants of the engine, and an
  administrator editing them while a request runs is a listed hazard. Roles are
  neither created nor deleted in `Permissions`, and who owns a record is an input.
* **The limit of a code.** `lpad` truncates: the thousandth client or employee gets
  the hundredth's code, the insert is refused, and the rollback gives the number
  back. `NumberSeries` models it, no run has a thousand records, and
  `CallersNeverShare` carries the width as its hypothesis.
* **The admin's card form.** The same whole-row save as the line form's, over
  `lifecycle_status`; a listed hazard.
* **Other things the admin's forms edit.** Modelled are the line's whole row (`AdminDesk`), a
  line's number and card (`Intake`), a revision's status and card (`QuotationChain`), an
  account's counter, lock, flag and activity (`Accounts`), roles and grants (`Permissions`)
  and a rule's `allow_self_approval` (`Deployment`). Not modelled: the contact forms, which
  can untick `is_primary` or set `deleted_at` and so leave a client without a primary; a
  card's client and contact, which `FormIsTheClients` would not survive; the employee of an
  account; the form that adds a quotation, in so far as it leaves the card open; and the
  other columns of rules and stages.
* **Plain rows.** Line attributes, amounts of a quotation and the free fields of clients
  and employees are written after a permission check and read back; nothing here depends
  on them. Of notes and attachments only the age of what a page shows of them is modelled.
* **An answer that is not what it is cached as.** `useCreateClient` caches the POST's
  answer, which has no `contacts`, as a `ClientDetail` (`clients.ts:42-45`). `HearClient`
  does the same; that the client's page reads `contacts.length` of it
  (`ClientDetailPage.tsx:78`) until a load replaces it is about drawing, which no module
  has.
* **Text.** The condition parser accepts a restricted expression and fails closed; a
  condition is what its evaluation does. Validation of inputs, storage URLs, logging
  and layout are left out.
* **What a page draws**, its filters and its validation. Of the pages other than the board
  and the form, `QueryCache` has which queries they mount and which writes they offer.
* **Schema migrations** create the tables every module begins with; the tables'
  constraints are in the modules where they bite.
* **A stale click.** The POST of a move carries the action alone, so a dialog
  confirmed after the line has moved applies the action from where the line is. `Board`
  has the step; the code promises nothing that it would break.

## 6. What could follow

Rules that change under a request, in `TransitionEngine`; line attributes, with what
their forms share; the seeds after every interruption that leaves the last plan whole,
which is what `SeedsAsReleased` would be as a theorem.
