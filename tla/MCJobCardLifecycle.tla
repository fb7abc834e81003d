------------------------- MODULE MCJobCardLifecycle -------------------------
(***************************************************************************)
(* Instances of JobCardLifecycle on the seeded graph: one card of at most  *)
(* two lines, and one user who is both salesman and owner, for whom every  *)
(* seeded edge is open.                                                    *)
(***************************************************************************)
EXTENDS JobCardLifecycle, SeededGraph, TLC

CONSTANTS olga

MCUsers == {olga}
MCRolesOf == [u \in MCUsers |-> {"OWNER", "SALES"}]
MCRules == SeededRules({})

MCMove(l, a) == [kind |-> "move", user |-> olga, line |-> l, action |-> a, note |-> TRUE]
MCMoves(actions) == {MCMove(l, a) : l \in LineNos, a \in actions}

MCUpload == [kind |-> "upload", user |-> olga]
MCCancel == [kind |-> "cancel"]
MCPatch(status) == [kind |-> "patch", status |-> status]

MCInputs ==
  MCMoves({"cancel", "confirm", "rework"})
    \cup {MCUpload, MCCancel, MCPatch("open")}

\* Enough for requests to meet on a line, on the card and on the series.
MCContenders == {MCMove(2, "cancel"), MCUpload, MCCancel}

\* Two lines cancelled side by side.
MCTwoCancels == MCMoves({"cancel"})

ASSUME QuoteDecidesNothing

MCSymmetry == Permutations(Requests)
=============================================================================
