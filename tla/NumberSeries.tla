---------------------------- MODULE NumberSeries ----------------------------
(***************************************************************************)
(* Business numbers: client and employee codes, job and quotation numbers. *)
(*                                                                         *)
(* A request that creates such a record is one transaction.  It draws from *)
(* the series of its prefix with next_number(), an upsert of one row of    *)
(* core_number_series whose row lock it keeps to its end, and inserts a    *)
(* record whose code is a unique key.  The draw is part of the             *)
(* transaction: it becomes visible with COMMIT and vanishes with ROLLBACK. *)
(*                                                                         *)
(* The code is the prefix and the number in decimal, put to the series'    *)
(* width by lpad, which pads a short number and truncates a long one.  The *)
(* prefix and the month spliced into a job number tell no two numbers of a *)
(* series apart, so a code is kept as the number its digits spell.         *)
(***************************************************************************)
EXTENDS Integers, FiniteSets

CONSTANTS
  Series,     \* prefixes: rows, present or to come, of core_number_series
  Limit,      \* Limit[p]: 10 to the width that p's numbers are written in
  Issued,     \* Issued[p]: how many records had been created to begin with
  Requests,   \* requests that create a record; each runs once
  NoOne       \* no request

SeriesAssumption ==
  /\ Limit \in [Series -> Nat \ {0}]
  /\ Issued \in [Series -> Nat]
  /\ \A p \in Series : Issued[p] < Limit[p]
  /\ NoOne \notin Requests

VARIABLES
  current,    \* current[p]: committed value of p's row, 0 when there is none
  records,    \* records[p]: the numbers the committed records were drawn with
  owner,      \* owner[p]: the request holding the row lock of series p
  drawPc,         \* drawPc[r]: how far request r has got
  series,     \* series[r]: the series request r draws from
  got         \* got[r]: the number r has drawn, 0 before it has

seriesVars == <<current, records, owner, drawPc, series, got>>

Points == {"idle", "asking", "drawn", "inserted", "created", "refused"}

\* lpad keeps the leading digits of a number that is too long.
Surplus(p, n) == CHOOSE k \in 1..n : n \div 10^k < Limit[p] /\ n \div 10^(k - 1) >= Limit[p]

Written(p, n) == IF n < Limit[p] THEN n ELSE n \div 10^Surplus(p, n)

CodesOf(p) == {Written(p, n) : n \in records[p]}

---------------------------------------------------------------------------

\* Series run for years before a behaviour begins: the first Issued[p]
\* records of p are there already.
SeriesInit ==
  /\ current = Issued
  /\ records = [p \in Series |-> 1..Issued[p]]
  /\ owner = [p \in Series |-> NoOne]
  /\ drawPc = [r \in Requests |-> "idle"]
  /\ series \in [Requests -> Series]
  /\ got = [r \in Requests |-> 0]

\* create_client, create_job_card, create_quotation_revision or
\* create_employee has checked what it checks before it draws.
ArriveDraw(r) ==
  /\ drawPc[r] = "idle"
  /\ drawPc' = [drawPc EXCEPT ![r] = "asking"]
  /\ UNCHANGED <<current, records, owner, series, got>>

\* Mutant: nextval() of a SEQUENCE, which no rollback undoes.
NextNumber_Sequence(r) ==
  /\ drawPc[r] = "asking"
  /\ got' = [got EXCEPT ![r] = current[series[r]] + 1]
  /\ current' = [current EXCEPT ![series[r]] = @ + 1]
  /\ drawPc' = [drawPc EXCEPT ![r] = "drawn"]
  /\ UNCHANGED <<records, owner, series>>

\* The upsert.  It waits for whoever has drawn from the series and not yet
\* ended, and then adds one to what is committed; the first number of a new
\* prefix is inserted, and a second insert waits for the first just so.
NextNumber(r) ==
  /\ drawPc[r] = "asking"
  /\ owner[series[r]] = NoOne
  /\ owner' = [owner EXCEPT ![series[r]] = r]
  /\ got' = [got EXCEPT ![r] = current[series[r]] + 1]
  /\ drawPc' = [drawPc EXCEPT ![r] = "drawn"]
  /\ UNCHANGED <<current, records, series>>

Release(r) == owner' = [p \in Series |-> IF owner[p] = r THEN NoOne ELSE owner[p]]

\* The transaction rolls back: its draw is undone and the row unlocked.
Refuse(r) ==
  /\ drawPc' = [drawPc EXCEPT ![r] = "refused"]
  /\ Release(r)
  /\ UNCHANGED <<current, records, series, got>>

Insert(r) ==
  /\ drawPc' = [drawPc EXCEPT ![r] = "inserted"]
  /\ UNCHANGED <<current, records, owner, series, got>>

\* The INSERT of the record: a used code is an IntegrityError, and so may be
\* any other column of it (a GSTIN already registered, a date out of order).
CreateRecord(r) ==
  /\ drawPc[r] = "drawn"
  /\ \/ Refuse(r)
     \/ Written(series[r], got[r]) \notin CodesOf(series[r]) /\ Insert(r)

CommitRecord(r) ==
  /\ drawPc[r] = "inserted"
  /\ current' = [current EXCEPT ![series[r]] = got[r]]
  /\ records' = [records EXCEPT ![series[r]] = @ \cup {got[r]}]
  /\ drawPc' = [drawPc EXCEPT ![r] = "created"]
  /\ Release(r)
  /\ UNCHANGED <<series, got>>

\* The worker or its connection dies, or a later step of the view fails.
AbortDraw(r) == drawPc[r] \in {"asking", "drawn", "inserted"} /\ Refuse(r)

Finished ==
  /\ \A r \in Requests : drawPc[r] \in {"created", "refused"}
  /\ UNCHANGED seriesVars

SeriesNext ==
  \/ \E r \in Requests :
        ArriveDraw(r) \/ NextNumber(r) \/ CreateRecord(r) \/ CommitRecord(r) \/ AbortDraw(r)
  \/ Finished

SeriesSpec == SeriesInit /\ [][SeriesNext]_seriesVars
---------------------------------------------------------------------------
\* Properties

\* Every variable keeps its type.
SeriesTypeOK ==
  /\ current \in [Series -> Nat]
  /\ records \in [Series -> SUBSET Nat]
  /\ owner \in [Series -> Requests \cup {NoOne}]
  /\ drawPc \in [Requests -> Points]
  /\ series \in [Requests -> Series]
  /\ got \in [Requests -> Nat]

\* The guarantee of core/numbering.py: whatever rolls back and in whatever
\* order requests end, the committed numbers of a series have no gap and
\* the series stands at the last of them.
Gapless == \A p \in Series : records[p] = 1..current[p]

Holds(r) == drawPc[r] \in {"drawn", "inserted", "created"}

Code(r) == Written(series[r], got[r])

\* While the next number still fits the width its prefix is written in.
WithinWidth == \A p \in Series : current[p] + 1 < Limit[p]

\* No two callers receive the same string: what a request has drawn is not
\* the code of an earlier record, nor of another request that still holds
\* or has used its own.
NoTwoCallersShare ==
  \A r \in Requests : Holds(r) =>
    /\ drawPc[r] # "created" => Code(r) \notin CodesOf(series[r])
    /\ \A s \in Requests \ {r} :
         Holds(s) /\ series[s] = series[r] => Code(s) # Code(r)
=============================================================================
