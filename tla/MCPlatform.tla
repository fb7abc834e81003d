----------------------------- MODULE MCPlatform -----------------------------
(***************************************************************************)
(* What the applications rest on: the migrations that run when containers  *)
(* start (Deployment), the number series (NumberSeries) and the audit      *)
(* trail (AuditTrail).  They share no state here, so a behaviour is one of *)
(* one part, and the others stay as they began.                            *)
(***************************************************************************)
EXTENDS MCDeployment, NumberSeries, AuditTrail, TLC

CONSTANTS u1, u2

MCUsers == {u1, u2}
MCSymmetry == Permutations(MCUsers)

---------------------------------------------------------------------------
\* Client codes are written in three digits, job numbers in five.  It is a
\* new installation, nine clients in.

CONSTANTS CLIENT, JOB

MCLimit == (CLIENT :> 1000) @@ (JOB :> 100000)
MCIssued == (CLIENT :> 9) @@ (JOB :> 0)

ASSUME SeriesAssumption /\ AuditAssumption

---------------------------------------------------------------------------

VARIABLE part   \* the part this behaviour is about

\* Of a part that does nothing, one initial state stands for all.
PlatformInit ==
  /\ SystemInit /\ SeriesInit /\ Init
  /\ part \in {"deployment", "series", "trail"}
  /\ part # "deployment" => code = MCHead /\ staff = <<>>
  /\ part # "series" => \A r \in Requests : series[r] = JOB

DeployStep == part = "deployment" /\ MCNext /\ UNCHANGED <<seriesVars, vars, part>>
SeriesStep == part = "series" /\ SeriesNext /\ UNCHANGED <<systemVars, vars, part>>
AuditStep == part = "trail" /\ Next /\ UNCHANGED <<systemVars, seriesVars, part>>

PlatformSpec ==
  /\ PlatformInit
  /\ [][DeployStep \/ SeriesStep \/ AuditStep]_<<systemVars, seriesVars, vars, part>>
---------------------------------------------------------------------------

\* A deployed database has the grid and the stage graph of its release, keeps
\* the administrator's gates, and shows every line.
SeedsAsReleased == GridAsReleased /\ GraphAsReleased /\ GatesKept /\ LinesShown
=============================================================================
