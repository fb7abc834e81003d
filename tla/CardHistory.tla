----------------------------- MODULE CardHistory -----------------------------
(***************************************************************************)
(* JobCardLifecycle with a history variable that tells the behaviours in   *)
(* which requests ran one at a time from the others: requests that overlap *)
(* break three properties of the card (LostCascade shows it of one).       *)
(***************************************************************************)
EXTENDS JobCardLifecycle

VARIABLE overlapped   \* two requests have been open at one time

historyVars == <<vars, overlapped>>

OpenRequests == {r \in Requests : Open(r)}

LineAddedMeanwhile == pc' = pc /\ stage' # stage /\ OpenRequests # {}

HistoryInit == Init /\ overlapped = FALSE

HistoryNext ==
  /\ Next
  /\ overlapped' = (\/ overlapped
                    \/ Cardinality(OpenRequests') > 1
                    \/ LineAddedMeanwhile)

HistorySpec == HistoryInit /\ [][HistoryNext]_historyVars

\* What holds of the cascade, the upload and the cancellation only while
\* requests run one at a time: when a move leaves all the lines of the card
\* agreed on a status, the card has it; an upload leaves a card that is won,
\* lost or cancelled as it is; and a cancelled card is not cancelled again.
KeptSerially ==
  [][overlapped' \/ (KeepsInStep /\ KeepsClosed /\ CancelsOpen)]_historyVars
=============================================================================
