----------------------------- MODULE Deployment -----------------------------
(***************************************************************************)
(* Releases and the containers that start them.  Every container of the    *)
(* image runs docker/entrypoint.sh: it works out which migrations are      *)
(* missing, applies them one transaction at a time, and then serves.       *)
(* docker-compose.yml starts two such containers, web and sheets-sync, so  *)
(* both may be migrating.  An operator deploys a later release, or takes   *)
(* the database back to an earlier one with the reverse migrations.        *)
(*                                                                         *)
(* A release is the number of the last migration of each app.  Between     *)
(* deployments people work: cards are opened, quoted and moved, clients    *)
(* and employees are added.  Each card has one line here, a move takes one *)
(* step and roles are not asked for: TransitionEngine and JobCardLifecycle *)
(* have the detail.                                                        *)
(*                                                                         *)
(* An administrator may make an edge a two-person gate, which is what 0003  *)
(* of pipeline seeds it to be changed to.                                  *)
(*                                                                         *)
(* Two transactions that apply the same migration meet on a row or table   *)
(* lock, and the second does its work on what the first committed, so a    *)
(* migration is one step.  The plan a container works through is older:    *)
(* it was made when the container started.                                 *)
(***************************************************************************)
EXTENDS PermissionGrid, StageMigrations, Sequences, FiniteSets

CONSTANTS
  Containers,     \* containers that run the entrypoint
  Releases,       \* releases that may be deployed
  StaffAtStart,   \* names of the employees on file, oldest first
  Newcomers,      \* names of employees who may join later
  Jobs, MaxClients, MaxCrashes, MaxRetreats

\* Containers start no image older than the schema: every release has the
\* migrations that seed roles and stages, which no rollback here undoes.
ReleaseAssumption ==
  /\ Containers # {}
  /\ Releases \subseteq [hr : 1..3, identity : 2..10, pipeline : 3..9, sales : 1..4]

GridAssumption == IsFiniteSet(Permissions)

VARIABLES
  code,           \* the release of the image
  goal,           \* the release the operator wants the database to be at
  applied,        \* rows of django_migrations
  pc, plan,       \* per container: what it does, migrations it has yet to run
  grants, graph,  \* auth_role_permissions; pipeline_stages and _transition_rules
  jobs,           \* cards, each with its line, its status and its quotation
  clients, clientSeries,    \* codes, oldest first, and core_number_series
  staff, staffSeries,       \* employees, oldest first
  crashes, retreats,
  gated,          \* the edges an administrator has made two-person gates, and no
                  \* migration has written since
  halted,         \* migrations a container was killed before it ran again
  short           \* hr 0003 has realigned some of the roster on a staff that is
                  \* smaller than the roster

systemVars == <<code, goal, applied, pc, plan, grants, graph, jobs, clients, clientSeries,
          staff, staffSeries, crashes, retreats, gated, halted, short>>
people == <<clients, clientSeries, staff, staffSeries, short>>
books == <<grants, graph, gated, jobs, people>>

---------------------------------------------------------------------------
(* Migrations and the order Django runs them in.                           *)

Apps == <<"hr", "identity", "pipeline", "sales">>

Between(app, first, last) == {<<app, n>> : n \in first..last}

\* 0001 of every app and all of core are the schema everything starts from.
MigrationsOf(r) ==
  Between("hr", 2, r.hr) \cup Between("identity", 2, r.identity)
  \cup Between("pipeline", 3, r.pipeline) \cup Between("sales", 2, r.sales)

\* No migration of an app in this order needs one of a later app.
Rank(m) == (CHOOSE i \in DOMAIN Apps : Apps[i] = m[1]) * 100 + m[2]

Earliest(ms) == CHOOSE m \in ms : \A n \in ms : Rank(m) <= Rank(n)
LatestOf(ms) == CHOOSE m \in ms : \A n \in ms : Rank(n) <= Rank(m)

\* Those that add a column, or drop a constraint and do not put it back, fail
\* when they run twice.  sales 0004 puts back what it drops, and works twice.
RunsOnce == {<<"pipeline", 7>>, <<"pipeline", 8>>, <<"sales", 2>>}

---------------------------------------------------------------------------
(* Codes.  A typed code stands for one in a format of its own.             *)

Typed == [series |-> "typed", no |-> 0]
Numbered(n) == [series |-> "SRS", no |-> n]
Clashes(codes) == \E i, j \in DOMAIN codes :
                    i # j /\ codes[i] = codes[j] /\ codes[i] # Typed

Renumbered(codes, series) == [i \in DOMAIN codes |-> Numbered(series + i)]

\* The twenty people of the source document, and the two test accounts.
Roster ==
  <<"Shine Ts", "Govind Singh", "Santosh", "Rajendra Saini", "Shankal Lal Gurjar",
    "Surandran K", "Narpat Singh", "Sarda", "Dhiraj", "Gopinathan K", "Sharad Kumar",
    "Govind Kumawat", "Dharmahendra", "Sanjeev Ji", "Dinesh Sharma", "Ansh Verma",
    "Deepak Saini", "Pankaj", "Ashok", "Vikram Singh">>
TestAccounts == <<"Aswin", "Govind Sharma">>

\* Everybody is on file once.
StaffAssumption ==
  /\ StaffAtStart \subseteq Seq(STRING) /\ Newcomers \subseteq STRING
  /\ \A names \in StaffAtStart : \A i, k \in DOMAIN names : names[i] = names[k] => i = k

Names(persons) == {persons[i].name : i \in DOMAIN persons}
NumberIn(list, name) == CHOOSE i \in DOMAIN list : list[i] = name
Listed(list, name) == \E i \in DOMAIN list : list[i] = name

Realigned(persons) ==
  [i \in DOMAIN persons |->
     [persons[i] EXCEPT !.code =
        CASE Listed(Roster, persons[i].name) ->
               Numbered(NumberIn(Roster, persons[i].name))
          [] Listed(TestAccounts, persons[i].name) ->
               [series |-> "TEST", no |-> NumberIn(TestAccounts, persons[i].name)]
          [] OTHER -> @]]

\* Some of the roster, on a staff that is smaller than the roster.
ShortStaff(persons) ==
  /\ Len(persons) < Len(Roster)
  /\ \E i \in DOMAIN persons : Listed(Roster, persons[i].name)

Codes(persons) == [i \in DOMAIN persons |-> persons[i].code]

---------------------------------------------------------------------------
(* What one migration does to the books.                                   *)

\* Mutant: the first free number is not kept in the series.
Renumber_OutsideSeries(app) ==
  IF app = "sales"
  THEN clients' = Renumbered(clients, 0) /\ UNCHANGED <<clientSeries, staff, staffSeries, short>>
  ELSE /\ staff' = [i \in DOMAIN staff |->
                      [staff[i] EXCEPT !.code = Numbered(staffSeries + i)]]
       /\ staffSeries' = staffSeries + Len(staff)
       /\ short' = FALSE
       /\ UNCHANGED <<clients, clientSeries>>

\* Every row is given the next number of the live series, oldest first.
Renumber(app) ==
  IF app = "sales"
  THEN /\ clients' = Renumbered(clients, clientSeries)
       /\ clientSeries' = clientSeries + Len(clients)
       /\ UNCHANGED <<staff, staffSeries, short>>
  ELSE /\ staff' = [i \in DOMAIN staff |->
                      [staff[i] EXCEPT !.code = Numbered(staffSeries + i)]]
       /\ staffSeries' = staffSeries + Len(staff)
       /\ short' = FALSE
       /\ UNCHANGED <<clients, clientSeries>>

\* The rows are saved one by one: none takes a number that a later one has.
NoneInTheWay(codes, series) ==
  \A i, j \in DOMAIN codes : i < j => codes[j] # Numbered(series + i)

NoCard == [stage |-> "none", last |-> "none", status |-> "none", quote |-> "none"]

\* Mutant: a line goes back to where enquiries begin.
Rehomed_Restarted(job) ==
  IF job.stage = "NEGOTIATION" THEN [job EXCEPT !.stage = SeededInitial] ELSE job

\* 0006 reclassifies the lines and writes no transition.
Rehomed(job) == IF job.stage = "NEGOTIATION" THEN [job EXCEPT !.stage = "QUOTATION"] ELSE job

Reclassified(job) ==
  IF job.quote \in {"active", "sent", "accepted", "lost"}
  THEN [job EXCEPT !.quote = "draft"] ELSE job

Backfilled(job) ==
  IF job.stage = SeededInitial /\ job.quote # "none"
  THEN [job EXCEPT !.status = "rework"] ELSE job

JobsAfter(m) ==
  CASE m = <<"pipeline", 6>> -> [j \in Jobs |-> Rehomed(jobs[j])]
    [] m = <<"sales", 2>>    -> [j \in Jobs |-> Reclassified(jobs[j])]
    [] m = <<"sales", 4>>    -> [j \in Jobs |-> Backfilled(jobs[j])]
    [] OTHER                 -> jobs

\* ck_quotations_status after sales 0002, ck_job_cards_lifecycle before 0004.
QuoteStatuses(ms) ==
  IF <<"sales", 2>> \in ms THEN {"none", "draft", "superseded"}
  ELSE {"none", "draft", "active", "sent", "superseded", "accepted", "lost"}
CardStatuses(ms) ==
  {"none", "open", "quoted", "won", "lost", "cancelled"}
  \cup (IF <<"sales", 4>> \in ms THEN {"rework"} ELSE {})
Fit(cards, ms) ==
  \A j \in Jobs : cards[j].quote \in QuoteStatuses(ms) /\ cards[j].status \in CardStatuses(ms)

Forward(m) ==
  /\ grants' = IF m[1] = "identity" THEN SeedGrid(m[2], grants, GridOf[code.identity]) ELSE grants
  /\ graph' = IF m[1] = "pipeline" THEN SeedStages(m[2], graph) ELSE graph
  /\ gated' = IF m[1] = "pipeline" THEN gated \ Writes(m[2]) ELSE gated
  /\ jobs' = JobsAfter(m)
  /\ CASE m \in {<<"hr", 2>>, <<"sales", 3>>} -> Renumber(m[1])
       [] m = <<"hr", 3>> -> /\ staff' = Realigned(staff)
                             /\ short' = (short \/ ShortStaff(staff))
                             /\ UNCHANGED <<staffSeries, clients, clientSeries>>
       [] OTHER -> UNCHANGED people

Backward(m) ==
  /\ grants' = IF m[1] = "identity" THEN UnseedGrid(m[2], grants) ELSE grants
  /\ graph' = IF m[1] = "pipeline" THEN UnseedStages(m[2], graph) ELSE graph
  /\ gated' = IF m[1] = "pipeline" THEN gated \ Writes(m[2]) ELSE gated
  /\ UNCHANGED <<jobs, people>>

\* A transaction whose rows break a unique key or a check is rolled back.
Works(m) ==
  /\ m \in applied => m \notin RunsOnce
  /\ m = <<"sales", 3>> => NoneInTheWay(clients, clientSeries)
  /\ m = <<"hr", 2>> => NoneInTheWay(Codes(staff), staffSeries)
  /\ m = <<"hr", 3>> => ~Clashes(Codes(Realigned(staff)))
  /\ Fit(JobsAfter(m), applied \cup {m})

---------------------------------------------------------------------------
(* The containers.                                                         *)

SystemInit ==
  /\ code \in Releases /\ goal = code
  /\ applied = {}
  /\ pc = [c \in Containers |-> "down"]
  /\ plan = [c \in Containers |-> {}]
  /\ grants = {} /\ graph = NoGraph
  /\ jobs = [j \in Jobs |-> NoCard]
  /\ clients = <<>> /\ clientSeries = 0
  /\ \E names \in StaffAtStart :
       staff = [i \in DOMAIN names |-> [name |-> names[i], code |-> Typed]]
  /\ staffSeries = 0
  /\ crashes = 0 /\ retreats = 0
  /\ gated = {} /\ halted = {} /\ short = FALSE

\* The plan is made once, from the migrations recorded when the container
\* starts.
Boot(c) ==
  /\ pc[c] = "down" /\ goal = code
  /\ pc' = [pc EXCEPT ![c] = "migrating"]
  /\ plan' = [plan EXCEPT ![c] = MigrationsOf(code) \ applied]
  /\ UNCHANGED <<code, goal, applied, books, crashes, retreats, halted>>

Apply(c) ==
  LET m == Earliest(plan[c]) IN
  /\ pc[c] = "migrating" /\ plan[c] # {}
  /\ plan' = [plan EXCEPT ![c] = @ \ {m}]
  /\ Works(m)
  /\ applied' = applied \cup {m}
  /\ UNCHANGED <<code, goal, pc, crashes, retreats, halted>>
  /\ Forward(m)

\* set -e: the container ends, and restart: unless-stopped starts it again.
Fail(c) ==
  /\ pc[c] = "migrating" /\ plan[c] # {} /\ ~Works(Earliest(plan[c]))
  /\ pc' = [pc EXCEPT ![c] = "down"]
  /\ plan' = [plan EXCEPT ![c] = {}]
  /\ UNCHANGED <<code, goal, applied, books, crashes, retreats, halted>>

Serve(c) ==
  /\ pc[c] = "migrating" /\ plan[c] = {}
  /\ pc' = [pc EXCEPT ![c] = "serving"]
  /\ UNCHANGED <<code, goal, applied, plan, books, crashes, retreats, halted>>

Crash(c) ==
  /\ pc[c] # "down" /\ crashes < MaxCrashes
  /\ crashes' = crashes + 1
  /\ pc' = [pc EXCEPT ![c] = "down"]
  /\ plan' = [plan EXCEPT ![c] = {}]
  /\ halted' = IF plan[c] \cap applied = {} THEN halted
               ELSE halted \cup {Earliest(plan[c])}
  /\ UNCHANGED <<code, goal, applied, books, retreats>>

---------------------------------------------------------------------------
(* The operator.                                                           *)

Quiet == \A c \in Containers : pc[c] # "migrating"

\* docker compose up with a newer image: the containers are recreated.
Deploy(r) ==
  /\ \A c \in Containers : pc[c] = "serving"
  /\ MigrationsOf(code) \subseteq MigrationsOf(r) /\ r # code
  /\ code' = r /\ goal' = r
  /\ pc' = [c \in Containers |-> "down"]
  /\ UNCHANGED <<applied, plan, books, crashes, retreats, halted>>

\* Back to an earlier release: stop everything, migrate each app back with
\* the newer code, then start the older image.
Retreat(r) ==
  /\ \A c \in Containers : pc[c] = "serving"
  /\ retreats < MaxRetreats
  /\ MigrationsOf(r) \subseteq MigrationsOf(code) /\ r # code
  /\ goal' = r /\ retreats' = retreats + 1
  /\ pc' = [c \in Containers |-> "down"]
  /\ UNCHANGED <<code, applied, plan, books, crashes, halted>>

\* A migration is taken back in a transaction that puts the older checks back.
Reverse ==
  LET m == LatestOf(applied \ MigrationsOf(goal)) IN
  /\ goal # code /\ applied # MigrationsOf(goal)
  /\ applied' = applied \ {m}
  /\ Fit(jobs, applied')
  /\ UNCHANGED <<code, goal, pc, plan, crashes, retreats, halted>>
  /\ Backward(m)

\* A card in rework keeps the old constraint from being put back: the
\* operator goes forward again.
GiveUp ==
  /\ goal # code /\ applied # MigrationsOf(goal)
  /\ ~Fit(jobs, applied \ {LatestOf(applied \ MigrationsOf(goal))})
  /\ goal' = code
  /\ UNCHANGED <<code, applied, pc, plan, books, crashes, retreats, halted>>

Retreated ==
  /\ goal # code /\ applied = MigrationsOf(goal)
  /\ code' = goal
  /\ UNCHANGED <<goal, applied, pc, plan, books, crashes, retreats, halted>>

---------------------------------------------------------------------------
(* The people.                                                             *)

Working == \E c \in Containers : pc[c] = "serving"
Systems == <<code, goal, applied, pc, plan, crashes, retreats, halted>>

OpenCard(j) ==
  /\ Working /\ jobs[j] = NoCard
  /\ jobs' = [jobs EXCEPT ![j] = [stage |-> SeededInitial, last |-> SeededInitial,
                                  status |-> "open", quote |-> "none"]]
  /\ UNCHANGED <<Systems, grants, graph, gated, people>>

\* Mutant: a quotation begins as sent, as it did before 0002.
Quote_AsBefore(j) ==
  /\ Working /\ jobs[j] # NoCard /\ jobs[j].quote = "none"
  /\ jobs' = [jobs EXCEPT ![j].quote = "sent",
                          ![j].status = IF @ = "open" THEN "quoted" ELSE @]
  /\ UNCHANGED <<Systems, grants, graph, gated, people>>

Quote(j) ==
  /\ Working /\ jobs[j] # NoCard /\ jobs[j].quote = "none"
  /\ jobs' = [jobs EXCEPT ![j].quote = IF code.sales < 2 THEN "sent" ELSE "draft",
                          ![j].status = IF @ = "open" THEN "quoted" ELSE @]
  /\ UNCHANGED <<Systems, grants, graph, gated, people>>

\* A move along a rule, and the cascade to the card.
Move(j, rule) ==
  /\ Working /\ rule.from = jobs[j].stage
  /\ rule.condition = "quoted" => jobs[j].quote # "none"
  /\ jobs' = [jobs EXCEPT ![j].stage = rule.to, ![j].last = rule.to,
       ![j].status =
         IF graph.cascades[rule.to] # "none" THEN graph.cascades[rule.to]
         ELSE IF rule.to = SeededInitial /\ jobs[j].quote # "none" /\ code.sales >= 4
              THEN "rework" ELSE @]
  /\ UNCHANGED <<Systems, grants, graph, gated, people>>

\* Codes are typed before the migration that brings the sequence.
AddClient ==
  /\ Working /\ Len(clients) < MaxClients
  /\ IF code.sales < 3
     THEN clients' = Append(clients, Typed) /\ UNCHANGED clientSeries
     ELSE /\ clients' = Append(clients, Numbered(clientSeries + 1))
          /\ clientSeries' = clientSeries + 1
          /\ ~Clashes(clients')
  /\ UNCHANGED <<Systems, grants, graph, gated, jobs, staff, staffSeries, short>>

AddEmployee(name) ==
  /\ Working /\ name \notin Names(staff)
  /\ IF code.hr < 2
     THEN staff' = Append(staff, [name |-> name, code |-> Typed]) /\ UNCHANGED staffSeries
     ELSE /\ staff' = Append(staff, [name |-> name, code |-> Numbered(staffSeries + 1)])
          /\ staffSeries' = staffSeries + 1
          /\ ~Clashes(Codes(staff'))
  /\ UNCHANGED <<Systems, grants, graph, gated, jobs, clients, clientSeries, short>>

\* An administrator's form of a rule: allow_self_approval is ticked or not.
SetGate(rule) ==
  /\ Working
  /\ graph' = [graph EXCEPT !.rules =
                 (@ \ {rule}) \cup {[rule EXCEPT !.selfApproval = ~@]}]
  /\ gated' = IF rule.selfApproval THEN gated \cup {EdgeOf(rule)} ELSE gated \ {EdgeOf(rule)}
  /\ UNCHANGED <<Systems, grants, jobs, people>>

Start(c) == Boot(c) \/ Apply(c) \/ Fail(c) \/ Serve(c)

SystemNext ==
  \/ \E c \in Containers : Start(c) \/ Crash(c)
  \/ \E r \in Releases : Deploy(r) \/ Retreat(r)
  \/ Reverse \/ GiveUp \/ Retreated
  \/ \E j \in Jobs : OpenCard(j) \/ Quote(j) \/ \E rule \in graph.rules : Move(j, rule)
  \/ \E rule \in graph.rules : SetGate(rule)
  \/ AddClient
  \/ \E name \in Newcomers : AddEmployee(name)

SystemSpec == SystemInit /\ [][SystemNext]_systemVars

---------------------------------------------------------------------------
(* Properties.                                                             *)

AtRest == Quiet /\ goal = code /\ applied = MigrationsOf(code)

SystemTypeOK ==
  /\ code \in Releases /\ goal \in Releases
  /\ applied \subseteq UNION {MigrationsOf(r) : r \in Releases}
  /\ pc \in [Containers -> {"down", "migrating", "serving"}]
  /\ \A c \in Containers : plan[c] \subseteq MigrationsOf(code)
  /\ {clientSeries, staffSeries} \subseteq Nat
  /\ halted \subseteq UNION {MigrationsOf(r) : r \in Releases} /\ short \in BOOLEAN

\* Once the containers are up, the tables hold the grid that the release's
\* constants.py describes: on an empty database, after an upgrade from any
\* release, and after going back to one.  0003 to 0010 re-read whatever grid
\* the running release has, and say so as the reason they are safe.
GridAsReleased == AtRest => grants = GridOf[code.identity]

\* The same for the stage graph, the gates apart: what 0003 to 0009 leave
\* behind does not depend on how the database got there or on who ran them
\* twice, unless a container was killed between its repeated 0003 and 0006: the
\* stage 0006 folds is back then, or a rule into it, and folding it again is in
\* nobody's plan.
FoldedLast == halted \cap {<<"pipeline", n>> : n \in 4..6} = {}
Ungated(g) == [g EXCEPT !.rules = {[r EXCEPT !.selfApproval = TRUE] : r \in @}]
GraphAsReleased ==
  AtRest /\ FoldedLast => Ungated(graph) = GraphOf[code.pipeline]

\* A gate an administrator set is there until a migration that writes its edge
\* runs, for the first time or again, and no migration sets or lifts another.
GatesKept == {EdgeOf(r) : r \in {x \in graph.rules : ~x.selfApproval}} = gated

\* No line is left at a stage the board no longer shows, with the same
\* exception: the rules that a kill left lead there.
LinesShown ==
  AtRest /\ FoldedLast => \A j \in Jobs : jobs[j].stage \in graph.active \cup {"none"}

\* The rows meet the checks and unique keys of the migrations applied, at
\* every moment of an upgrade or a rollback, stopped halfway or not: a
\* quotation's and a card's status, one grant of a level, one rule of a role.
ConstraintsMet ==
  /\ Fit(jobs, applied)
  /\ Cardinality({<<g.role, g.on, g.level>> : g \in grants}) = Cardinality(grants)
  /\ Cardinality({<<r.from, r.action, r.role>> : r \in graph.rules})
       = Cardinality(graph.rules)

\* A line's history ends where it stands, or at NEGOTIATION for the lines 0006
\* moved without a transition.
LinesExplained ==
  \A j \in Jobs : \/ jobs[j].last = jobs[j].stage
                  \/ jobs[j].last = "NEGOTIATION" /\ jobs[j].stage = "QUOTATION"

\* What people wrote survives migrations, run twice, interrupted or taken back:
\* it is allowed by the schema it is in, and has a history that explains it.
RowsAccountedFor == ConstraintsMet /\ LinesExplained

\* Renumbering leaves no two rows with one code, and no series behind a code
\* that it will come to give out, even when two containers renumber one after
\* the other.  The series of employees is behind, and stays so until hr 0002
\* runs again, only once hr 0003 has found some of its roster on a staff that
\* is smaller than the roster.
CodesNeverReissued ==
  /\ ~Clashes(clients) /\ ~Clashes(Codes(staff))
  /\ \A i \in DOMAIN clients : clients[i].no <= clientSeries
  /\ ~short => \A i \in DOMAIN staff :
                staff[i].code.series = "SRS" => staff[i].code.no <= staffSeries

=============================================================================
