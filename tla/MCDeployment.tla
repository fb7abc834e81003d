---------------------------- MODULE MCDeployment ----------------------------
(***************************************************************************)
(* Three releases of the system, the two containers of docker-compose.yml,  *)
(* one card, and a company whose employees are on file or come later.      *)
(***************************************************************************)
EXTENDS Deployment

CONSTANTS web, sheets_sync, j1

MCFirst  == [hr |-> 1, identity |-> 2, pipeline |-> 3, sales |-> 1]
MCMerged == [hr |-> 2, identity |-> 8, pipeline |-> 8, sales |-> 2]
MCHead   == [hr |-> 3, identity |-> 10, pipeline |-> 9, sales |-> 4]
MCReleases == {MCFirst, MCMerged, MCHead}

\* Nobody; the company of the source document, whose test accounts were made
\* first; and parts of its roster, alone and after a stranger: a number ahead of
\* the series, one the stranger stands in the way of, and one the stranger has.
MCStaff ==
  {<<>>, TestAccounts \o Roster, <<Roster[2]>>, <<"Dev", Roster[3]>>, <<"Dev", Roster[1]>>}
MCNewcomers == {"Stranger"}

\* Those a migration after 0002 names, and one that none does.
MCPermissions ==
  {"user_account:view", "employee:delete", "quotation:create", "client:create",
   "job_card:view", "quotation:approve", "sheet_export:view", "client:edit"}

\* People work on cards while no container migrates (a migration rewrites them
\* then); a container is killed, or a release taken back, in a behaviour, and
\* not both.
MCDayWork == jobs' # jobs /\ plan' = plan => Quiet /\ goal = code
MCOneMishap == crashes' + retreats' <= 1
\* The administrator sees to the owner's quote and confirm edges.
MCGates ==
  \A e \in gated' \ gated : e[2] \in {"quote", "confirm"} /\ e[3] = "OWNER"
\* A behaviour is about cards, about clients, about staff or about gates: no step
\* reads two of them.
MCUsed == <<jobs # [j \in Jobs |-> NoCard], clients # <<>>, staff # <<>>, gated # {}>>
MCOneSubject == Cardinality({i \in DOMAIN MCUsed : MCUsed[i]}') <= 1
MCNext == SystemNext /\ MCDayWork /\ MCOneMishap /\ MCGates /\ MCOneSubject

ASSUME ReleaseAssumption /\ GridAssumption /\ StaffAssumption

\* The migrations together leave the graph that SeededGraph states.
ASSUME GraphOf[9].rules = SeededRules({}) /\ GraphOf[9].cascades = SeededCascades
=============================================================================
