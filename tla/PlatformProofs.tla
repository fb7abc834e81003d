---------------------------- MODULE PlatformProofs ----------------------------
(***************************************************************************)
(* What the applications rest on: NumberSeries and AuditTrail for any      *)
(* number of requests, Deployment for any releases and containers.         *)
(***************************************************************************)
EXTENDS NumberSeries, AuditTrail, Deployment, FiniteSetTheorems, WellFoundedInduction,
        TLAPS

---------------------------------------------------------------------------
\* What NumberSeries promises for any series, widths and requests.  The
\* strengthening is SeriesInv: a request between draw and end owns the row
\* of its series and holds the number after the committed one, and no two
\* created records were drawn with the same number.

Drawing(r) == drawPc[r] \in {"drawn", "inserted"}

OwnsSeries ==
  /\ \A r \in Requests : Drawing(r) => owner[series[r]] = r
  /\ \A r \in Requests : Drawing(r) => got[r] = current[series[r]] + 1

CreatedApart ==
  /\ \A r \in Requests : drawPc[r] = "created" => got[r] \in 1..current[series[r]]
  /\ \A r, s \in Requests :
       drawPc[r] = "created" /\ drawPc[s] = "created" /\ series[r] = series[s] /\ r # s
         => got[r] # got[s]

SeriesInv == SeriesTypeOK /\ Gapless /\ OwnsSeries /\ CreatedApart

---------------------------------------------------------------------------

\* A rollback leaves the series where it was and frees its row.
LEMMA RefuseKeeps ==
  ASSUME SeriesAssumption, SeriesInv, NEW r \in Requests, Refuse(r)
  PROVE  SeriesInv'
<1> USE DEF SeriesAssumption
<1>1. SeriesTypeOK'
  BY DEF SeriesInv, SeriesTypeOK, Refuse, Release, Points
<1>2. Gapless'
  BY DEF SeriesInv, Gapless, Refuse
<1>3. OwnsSeries'
  BY DEF SeriesInv, SeriesTypeOK, OwnsSeries, Drawing, Refuse, Release
<1>4. CreatedApart'
  BY DEF SeriesInv, SeriesTypeOK, CreatedApart, Refuse
<1> QED BY <1>1, <1>2, <1>3, <1>4 DEF SeriesInv

\* The draw is by the owner of an unowned row, so nobody else is drawing.
LEMMA NextNumberKeeps ==
  ASSUME SeriesAssumption, SeriesInv, NEW r \in Requests, NextNumber(r)
  PROVE  SeriesInv'
<1> USE DEF SeriesAssumption
<1>1. SeriesTypeOK'
  BY DEF SeriesInv, SeriesTypeOK, NextNumber, Points
<1>2. Gapless'
  BY DEF SeriesInv, Gapless, NextNumber
<1>3. OwnsSeries'
  BY DEF SeriesInv, SeriesTypeOK, OwnsSeries, Drawing, NextNumber
<1>4. CreatedApart'
  BY DEF SeriesInv, SeriesTypeOK, CreatedApart, NextNumber
<1> QED BY <1>1, <1>2, <1>3, <1>4 DEF SeriesInv

\* The number committed is the one after the last, by its only holder.
LEMMA CommitKeeps ==
  ASSUME SeriesAssumption, SeriesInv, NEW r \in Requests, CommitRecord(r)
  PROVE  SeriesInv'
<1> USE DEF SeriesAssumption
<1> DEFINE p == series[r]
<1>1. /\ p \in Series /\ current[p] \in Nat
      /\ owner[p] = r /\ got[r] = current[p] + 1 /\ drawPc[r] = "inserted"
      /\ records[p] = 1..current[p]
  BY DEF SeriesInv, SeriesTypeOK, Gapless, OwnsSeries, Drawing, CommitRecord
<1>2. /\ current' = [current EXCEPT ![p] = current[p] + 1]
      /\ records' = [records EXCEPT ![p] = records[p] \cup {current[p] + 1}]
      /\ drawPc' = [drawPc EXCEPT ![r] = "created"]
      /\ owner' = [q \in Series |-> IF owner[q] = r THEN NoOne ELSE owner[q]]
      /\ UNCHANGED <<series, got>>
  BY <1>1 DEF CommitRecord, Release, SeriesInv, SeriesTypeOK
<1>3. SeriesTypeOK'
  BY <1>1, <1>2 DEF SeriesInv, SeriesTypeOK, Points
<1>4. Gapless'
  <2> SUFFICES ASSUME NEW q \in Series PROVE records'[q] = 1..current'[q]
    BY DEF Gapless
  <2>1. CASE q = p
    <3>1. records'[q] = (1..current[p]) \cup {current[p] + 1} /\ current'[q] = current[p] + 1
      BY <1>1, <1>2, <2>1 DEF SeriesInv, SeriesTypeOK
    <3> QED BY <1>1, <3>1
  <2>2. CASE q # p
    BY <1>2, <2>2 DEF SeriesInv, SeriesTypeOK, Gapless
  <2> QED BY <2>1, <2>2
<1>5. OwnsSeries'
  <2> SUFFICES ASSUME NEW s \in Requests, Drawing(s)'
               PROVE  owner'[series[s]] = s /\ got[s] = current'[series[s]] + 1
    BY <1>2 DEF OwnsSeries
  <2>1. s # r /\ Drawing(s)
    BY <1>2 DEF Drawing, SeriesInv, SeriesTypeOK
  <2>2. owner[series[s]] = s /\ got[s] = current[series[s]] + 1 /\ series[s] \in Series
    BY <2>1 DEF SeriesInv, OwnsSeries, SeriesTypeOK
  <2>3. series[s] # p
    BY <1>1, <2>1, <2>2
  <2> QED BY <1>2, <2>1, <2>2, <2>3 DEF SeriesInv, SeriesTypeOK
<1>6. CreatedApart'
  <2>1. \A s \in Requests : drawPc'[s] = "created" =>
          /\ s # r => drawPc[s] = "created" /\ got[s] \in 1..current[series[s]]
          /\ series[s] \in Series
    BY <1>2 DEF SeriesInv, SeriesTypeOK, CreatedApart
  <2>2. ASSUME NEW s \in Requests, drawPc'[s] = "created"
        PROVE  got[s] \in 1..current'[series[s]]
    <3>1. CASE s = r BY <1>1, <1>2, <3>1 DEF SeriesInv, SeriesTypeOK
    <3>2. CASE s # r BY <1>1, <1>2, <2>1, <2>2, <3>2 DEF SeriesInv, SeriesTypeOK
    <3> QED BY <3>1, <3>2
  <2>3. ASSUME NEW s \in Requests, NEW t \in Requests,
               drawPc'[s] = "created", drawPc'[t] = "created", series[s] = series[t], s # t
        PROVE  got[s] # got[t]
    <3>1. CASE s # r /\ t # r
      BY <2>1, <2>3, <3>1 DEF SeriesInv, CreatedApart
    <3>2. CASE s = r
      BY <1>1, <2>1, <2>3, <3>2
    <3>3. CASE t = r
      BY <1>1, <2>1, <2>3, <3>3
    <3> QED BY <3>1, <3>2, <3>3
  <2> QED BY <1>2, <2>2, <2>3 DEF CreatedApart
<1> QED BY <1>3, <1>4, <1>5, <1>6 DEF SeriesInv

\* Arriving, inserting and stuttering touch neither a series nor a number.
LEMMA QuietKeeps ==
  ASSUME SeriesAssumption, SeriesInv, NEW r \in Requests,
         ArriveDraw(r) \/ (drawPc[r] = "drawn" /\ Insert(r)) \/ UNCHANGED seriesVars
  PROVE  SeriesInv'
<1> USE DEF SeriesAssumption
<1>1. UNCHANGED <<current, records, owner, series, got>>
  BY DEF ArriveDraw, Insert, seriesVars
<1>2. \/ drawPc' = drawPc
      \/ drawPc[r] = "idle" /\ drawPc' = [drawPc EXCEPT ![r] = "asking"]
      \/ drawPc[r] = "drawn" /\ drawPc' = [drawPc EXCEPT ![r] = "inserted"]
  BY DEF ArriveDraw, Insert, seriesVars
<1>3. SeriesTypeOK'
  BY <1>1, <1>2 DEF SeriesInv, SeriesTypeOK, Points
<1>4. Gapless'
  BY <1>1 DEF SeriesInv, Gapless
<1>5. OwnsSeries'
  BY <1>1, <1>2 DEF SeriesInv, SeriesTypeOK, OwnsSeries, Drawing
<1>6. CreatedApart'
  BY <1>1, <1>2 DEF SeriesInv, SeriesTypeOK, CreatedApart
<1> QED BY <1>3, <1>4, <1>5, <1>6 DEF SeriesInv

\* SeriesInv is inductive.
LEMMA SeriesInductive ==
  ASSUME SeriesAssumption
  PROVE  SeriesSpec => []SeriesInv
<1>1. SeriesInit => SeriesInv
  BY DEF SeriesAssumption, SeriesInit, SeriesInv, SeriesTypeOK, Gapless, OwnsSeries, CreatedApart, Drawing, Points
<1>2. SeriesInv /\ [SeriesNext]_seriesVars => SeriesInv'
  <2> SUFFICES ASSUME SeriesInv, [SeriesNext]_seriesVars PROVE SeriesInv'
    OBVIOUS
  <2>1. ASSUME NEW r \in Requests, ArriveDraw(r) PROVE SeriesInv'
    BY <2>1, QuietKeeps
  <2>2. ASSUME NEW r \in Requests, NextNumber(r) PROVE SeriesInv'
    BY <2>2, NextNumberKeeps
  <2>3. ASSUME NEW r \in Requests, CreateRecord(r) PROVE SeriesInv'
    BY <2>3, RefuseKeeps, QuietKeeps DEF CreateRecord
  <2>4. ASSUME NEW r \in Requests, CommitRecord(r) PROVE SeriesInv'
    BY <2>4, CommitKeeps
  <2>5. ASSUME NEW r \in Requests, AbortDraw(r) PROVE SeriesInv'
    BY <2>5, RefuseKeeps DEF AbortDraw
  <2>6. CASE UNCHANGED seriesVars
    BY <2>6 DEF seriesVars, SeriesInv, SeriesTypeOK, Gapless, OwnsSeries, CreatedApart, Drawing
  <2> QED BY <2>1, <2>2, <2>3, <2>4, <2>5, <2>6 DEF SeriesNext, Finished
<1> QED BY <1>1, <1>2, PTL DEF SeriesSpec

---------------------------------------------------------------------------

\* Every variable of NumberSeries keeps its type.
THEOREM SeriesTypeCorrect ==
  ASSUME SeriesAssumption
  PROVE  SeriesSpec => []SeriesTypeOK
<1>1. SeriesInv => SeriesTypeOK
  BY DEF SeriesInv
<1> QED BY <1>1, SeriesInductive, PTL

\* next_number() leaves no gap, whatever rolls back: for any prefixes and
\* any number of requests the committed numbers are 1 to the series' value.
THEOREM NumbersAreGapless ==
  ASSUME SeriesAssumption
  PROVE  SeriesSpec => []Gapless
<1>1. SeriesInv => Gapless
  BY DEF SeriesInv
<1> QED BY <1>1, SeriesInductive, PTL

\* As long as a series fits its width, no two callers of next_number() hold
\* the same code, and none holds the code of an earlier record.
THEOREM CallersNeverShare ==
  ASSUME SeriesAssumption
  PROVE  SeriesSpec => [](WithinWidth => NoTwoCallersShare)
<1>1. SeriesInv /\ WithinWidth => NoTwoCallersShare
  <2> SUFFICES ASSUME SeriesInv, WithinWidth PROVE NoTwoCallersShare
    OBVIOUS
  <2>1. /\ \A p \in Series : current[p] \in Nat /\ Limit[p] \in Nat
        /\ \A r \in Requests : series[r] \in Series /\ got[r] \in Nat
    BY DEF SeriesAssumption, SeriesInv, SeriesTypeOK
  <2>2. ASSUME NEW p \in Series, NEW n \in 0..(current[p] + 1)
        PROVE  Written(p, n) = n
    BY <2>1 DEF WithinWidth, Written
  <2>3. ASSUME NEW r \in Requests, Holds(r)
        PROVE  /\ got[r] \in 1..(current[series[r]] + 1)
               /\ Code(r) = got[r]
    <3>1. got[r] \in 1..(current[series[r]] + 1)
      BY <2>1, <2>3 DEF SeriesInv, OwnsSeries, CreatedApart, Holds, Drawing
    <3> QED BY <2>1, <2>2, <3>1 DEF Code
  <2>4. ASSUME NEW r \in Requests, Holds(r), drawPc[r] # "created"
        PROVE  Code(r) \notin CodesOf(series[r])
    <3>1. got[r] = current[series[r]] + 1
      BY <2>4 DEF SeriesInv, OwnsSeries, Holds, Drawing
    <3>2. \A n \in records[series[r]] : n \in 1..current[series[r]] /\ Written(series[r], n) = n
      BY <2>1, <2>2 DEF SeriesInv, Gapless
    <3> QED BY <2>1, <2>3, <2>4, <3>1, <3>2 DEF CodesOf
  <2>5. ASSUME NEW r \in Requests, NEW s \in Requests \ {r},
               Holds(r), Holds(s), series[s] = series[r]
        PROVE  Code(s) # Code(r)
    <3>1. Code(s) = got[s] /\ Code(r) = got[r]
      BY <2>3, <2>5
    <3>2. CASE drawPc[r] = "created" /\ drawPc[s] = "created"
      BY <2>5, <3>1, <3>2 DEF SeriesInv, CreatedApart
    <3>3. CASE drawPc[r] # "created" /\ drawPc[s] # "created"
      BY <2>5, <3>3 DEF SeriesInv, OwnsSeries, Holds, Drawing
    <3>4. CASE drawPc[r] = "created" /\ drawPc[s] # "created"
      BY <2>1, <2>5, <3>1, <3>4 DEF SeriesInv, OwnsSeries, CreatedApart, Holds, Drawing
    <3>5. CASE drawPc[r] # "created" /\ drawPc[s] = "created"
      BY <2>1, <2>5, <3>1, <3>5 DEF SeriesInv, OwnsSeries, CreatedApart, Holds, Drawing
    <3> QED BY <3>2, <3>3, <3>4, <3>5
  <2> QED BY <2>4, <2>5 DEF NoTwoCallersShare
<1> QED BY <1>1, SeriesInductive, PTL

---------------------------------------------------------------------------
\* What AuditTrail promises for any users, keys, depth of nesting, number
\* of writes and window of partitions.  The strengthening is TrailInv: the
\* setting, and the one every open block would return to, is the actor of
\* the last audit_actor block below it; a block returns to a prefix of the
\* audit rows; and no document row, written, remembered or committed, is
\* without its bytes.

\* v is the actor of the last audit_actor among the first n of blocks.
LastNamed(blocks, n, v) ==
  \/ v = Nobody /\ \A j \in 1..n : ~blocks[j].named
  \/ \E k \in 1..n : /\ blocks[k].named /\ v = blocks[k].actor
                     /\ \A j \in 1..n : blocks[j].named => j <= k

SettingInv ==
  /\ LastNamed(frames, Depth, setting)
  /\ \A i \in 1..Depth : LastNamed(frames, i - 1, frames[i].setting)

PrefixInv ==
  /\ \A i \in 1..Depth : frames[i].rows <= Len(pending)
  /\ \A i, j \in 1..Depth : i <= j => frames[i].rows <= frames[j].rows

BytesInv ==
  /\ filed \subseteq stored /\ documents \subseteq stored
  /\ \A i \in 1..Depth : frames[i].documents \subseteq stored
  /\ upload # NoKey => upload \in stored

WindowInv ==
  /\ \A q \in 0..Initial : q \in partitions
  /\ \A q \in Nat : started <= q /\ q < started + Ahead => q \in partitions
  /\ started <= quarter

TrailInv ==
  TypeOK /\ SettingInv /\ PrefixInv /\ Attributed /\ BytesInv /\ WindowInv

---------------------------------------------------------------------------

LEMMA TrailInit == ASSUME AuditAssumption, Init PROVE TrailInv
<1>1. /\ frames = <<>> /\ pending = <<>> /\ Depth = 0 /\ Len(pending) = 0
      /\ frames \in Seq(Frame) /\ pending \in Seq(AuditRow)
  BY DEF Init, Depth
<1>2. partitions \subseteq Nat
  BY DEF Init, Window, AuditAssumption
<1>3. TypeOK
  BY <1>1, <1>2 DEF Init, TypeOK, Actors
<1>4. SettingInv /\ PrefixInv /\ Attributed /\ BytesInv
  BY <1>1 DEF Init, SettingInv, LastNamed, PrefixInv, Attributed, BytesInv
<1>5. WindowInv
  BY DEF Init, Window, WindowInv, AuditAssumption
<1> QED BY <1>3, <1>4, <1>5 DEF TrailInv

\* The setting is what Meant works out from the blocks.
LEMMA SettingIsMeant == ASSUME TrailInv PROVE setting = Meant
<1> DEFINE named == {i \in 1..Depth : frames[i].named}
<1>1. CASE setting = Nobody /\ \A j \in 1..Depth : ~frames[j].named
  <2>1. named = {}
    BY <1>1
  <2> QED BY <1>1, <2>1 DEF Meant
<1>2. CASE \E k \in 1..Depth : /\ frames[k].named /\ setting = frames[k].actor
                               /\ \A j \in 1..Depth : frames[j].named => j <= k
  <2>1. PICK k \in 1..Depth : /\ frames[k].named /\ setting = frames[k].actor
                              /\ \A j \in 1..Depth : frames[j].named => j <= k
    BY <1>2
  <2>2. k \in named /\ \A j \in named : j <= k
    BY <2>1
  <2>3. Depth \in Nat
    BY DEF TrailInv, TypeOK, Depth
  <2>4. \A i \in named : (\A j \in named : j <= i) => i = k
    BY <2>2, <2>3
  <2>5. (CHOOSE i \in named : \A j \in named : j <= i) = k
    BY <2>2, <2>4
  <2> QED BY <2>1, <2>2, <2>5 DEF Meant
<1> QED BY <1>1, <1>2 DEF TrailInv, SettingInv, LastNamed

\* Only the first n blocks matter to LastNamed.
LEMMA LastNamedAgrees ==
  ASSUME NEW f, NEW g, NEW n \in Nat, NEW v,
         \A i \in 1..n : f[i] = g[i], LastNamed(f, n, v)
  PROVE  LastNamed(g, n, v)
  BY DEF LastNamed

---------------------------------------------------------------------------
\* Blocks.

\* A new block returns to what there is now.
LEMMA PushKeeps ==
  ASSUME AuditAssumption, TrailInv, NEW actor \in Actors, NEW named \in BOOLEAN,
         Push(actor, named), setting' = IF named THEN actor ELSE setting
  PROVE  TrailInv'
<1> DEFINE f == [actor |-> actor, named |-> named, setting |-> setting,
                 rows |-> Len(pending), documents |-> documents]
<1>1. /\ TypeOK /\ frames \in Seq(Frame) /\ Depth \in Nat /\ Len(pending) \in Nat
      /\ Depth = Len(frames)
  BY DEF TrailInv, TypeOK, Depth
<1>2. PICK block \in Frame : block = f
  BY <1>1 DEF TypeOK, Frame
<1>3. /\ block.actor = actor /\ block.named = named /\ block.setting = setting
      /\ block.rows = Len(pending) /\ block.documents = documents
  BY <1>2
<1>4. /\ frames' = Append(frames, block)
      /\ began' = (IF Depth = 0 THEN quarter ELSE began)
      /\ UNCHANGED <<requester, raised, rows, filed, storage, calendar>>
  BY <1>2 DEF Push
<1>5. /\ frames' \in Seq(Frame) /\ Depth' = Depth + 1
      /\ frames'[Depth + 1] = block
      /\ \A i \in 1..Depth : frames'[i] = frames[i]
  BY <1>1, <1>4 DEF Depth
<1>6. TypeOK'
  BY <1>1, <1>4, <1>5 DEF TypeOK, rows, storage, calendar
<1>7. SettingInv'
  <2>1. LastNamed(frames', Depth, setting)
    BY <1>1, <1>5, LastNamedAgrees DEF TrailInv, SettingInv
  <2>2. LastNamed(frames', Depth + 1, setting')
    <3>1. CASE named
      <4>1. /\ Depth + 1 \in 1..(Depth + 1)
            /\ \A j \in 1..(Depth + 1) : j <= Depth + 1
        BY <1>1
      <4>2. frames'[Depth + 1].named /\ setting' = frames'[Depth + 1].actor
        BY <1>3, <1>5, <3>1
      <4> QED BY <4>1, <4>2 DEF LastNamed
    <3>2. CASE ~named
      <4>1. \A j \in 1..(Depth + 1) : j \in 1..Depth \/ j = Depth + 1
        BY <1>1
      <4>2. \A j \in 1..Depth : j \in 1..(Depth + 1)
        BY <1>1
      <4>3. setting' = setting /\ ~frames'[Depth + 1].named
        BY <1>3, <1>5, <3>2
      <4> QED BY <2>1, <4>1, <4>2, <4>3 DEF LastNamed
    <3> QED BY <3>1, <3>2
  <2>3. ASSUME NEW i \in 1..Depth PROVE LastNamed(frames', i - 1, frames'[i].setting)
    <3>1. LastNamed(frames, i - 1, frames[i].setting) /\ i - 1 \in Nat
      BY <1>1 DEF TrailInv, SettingInv
    <3>2. \A j \in 1..(i - 1) : frames[j] = frames'[j]
      BY <1>1, <1>5
    <3> QED BY <1>5, <3>1, <3>2, LastNamedAgrees
  <2>4. \A i \in 1..Depth' : i \in 1..Depth \/ i = Depth + 1
    BY <1>1, <1>5
  <2>5. LastNamed(frames', (Depth + 1) - 1, frames'[Depth + 1].setting)
    BY <1>1, <1>3, <1>5, <2>1
  <2>6. \A i \in 1..Depth' : LastNamed(frames', i - 1, frames'[i].setting)
    BY <2>3, <2>4, <2>5
  <2> QED BY <1>5, <2>2, <2>6 DEF SettingInv
<1>8. PrefixInv'
  BY <1>1, <1>3, <1>4, <1>5 DEF TrailInv, PrefixInv, rows
<1>9. Attributed' /\ BytesInv' /\ WindowInv'
  BY <1>1, <1>3, <1>4, <1>5 DEF TrailInv, Attributed, BytesInv, WindowInv, rows, storage, calendar
<1> QED BY <1>6, <1>7, <1>8, <1>9 DEF TrailInv

\* What the innermost block's end leaves of the others, for good or bad.
LEMMA PopBlocks ==
  ASSUME AuditAssumption, TrailInv, Depth > 1,
         frames' = SubSeq(frames, 1, Depth - 1)
  PROVE  /\ frames' \in Seq(Frame) /\ Depth' = Depth - 1 /\ Depth \in Nat
         /\ \A i \in 1..(Depth - 1) : frames'[i] = frames[i]
         /\ \A i \in 1..Depth' : LastNamed(frames', i - 1, frames'[i].setting)
         /\ LastNamed(frames', Depth', Top.setting)
<1>1. frames \in Seq(Frame) /\ Depth \in Nat /\ Depth = Len(frames)
  BY DEF TrailInv, TypeOK, Depth
<1>2. /\ frames' \in Seq(Frame) /\ Depth' = Depth - 1
      /\ \A i \in 1..(Depth - 1) : frames'[i] = frames[i]
  BY <1>1 DEF Depth
<1>3. ASSUME NEW i \in 1..Depth'
      PROVE  LastNamed(frames', i - 1, frames'[i].setting)
  <2>1. LastNamed(frames, i - 1, frames[i].setting) /\ i - 1 \in Nat
    BY <1>1, <1>2 DEF TrailInv, SettingInv
  <2>2. (\A j \in 1..(i - 1) : frames[j] = frames'[j]) /\ frames'[i] = frames[i]
    BY <1>1, <1>2
  <2> QED BY <2>1, <2>2, LastNamedAgrees
<1>4. LastNamed(frames, Depth - 1, Top.setting) /\ Depth - 1 \in Nat
  BY <1>1 DEF TrailInv, SettingInv, Top
<1>5. \A j \in 1..(Depth - 1) : frames[j] = frames'[j]
  BY <1>2
<1>6. LastNamed(frames', Depth - 1, Top.setting)
  BY <1>4, <1>5, LastNamedAgrees
<1> QED BY <1>1, <1>2, <1>3, <1>6

\* A block that ends well leaves the setting that was there before it.
LEMMA LeaveKeeps == ASSUME AuditAssumption, TrailInv, Leave PROVE TrailInv'
<1>1. /\ frames' \in Seq(Frame) /\ Depth' = Depth - 1 /\ Depth \in Nat
      /\ \A i \in 1..(Depth - 1) : frames'[i] = frames[i]
      /\ \A i \in 1..Depth' : LastNamed(frames', i - 1, frames'[i].setting)
      /\ LastNamed(frames', Depth', Top.setting)
  BY PopBlocks DEF Leave
<1>2. /\ Depth > 1 /\ setting' = Restored
      /\ UNCHANGED <<requester, raised, rows, filed, storage, calendar, began>>
  BY DEF Leave
<1>3. Top \in Frame /\ Top = frames[Depth] /\ TypeOK
  BY <1>1, <1>2 DEF TrailInv, TypeOK, Top, Depth
<1>4. TypeOK'
  BY <1>1, <1>2, <1>3 DEF TypeOK, Restored, Frame, rows, storage, calendar
<1>5. LastNamed(frames', Depth', setting')
  <2>1. CASE Top.named
    BY <1>1, <1>2, <2>1 DEF Restored
  <2>2. CASE ~Top.named
    <3>1. LastNamed(frames, Depth - 1, setting)
      <4>1. LastNamed(frames, Depth, setting) /\ ~frames[Depth].named
        BY <1>3, <2>2 DEF TrailInv, SettingInv
      <4>2. \A j \in 1..Depth : j \in 1..(Depth - 1) \/ j = Depth
        BY <1>1
      <4>3. \A j \in 1..(Depth - 1) : j \in 1..Depth
        BY <1>1
      <4> QED BY <4>1, <4>2, <4>3 DEF LastNamed
    <3>2. LastNamed(frames', Depth - 1, setting)
      <4>1. Depth - 1 \in Nat /\ \A j \in 1..(Depth - 1) : frames[j] = frames'[j]
        BY <1>1, <1>2
      <4> QED BY <3>1, <4>1, LastNamedAgrees
    <3> QED BY <1>1, <1>2, <2>2, <3>2 DEF Restored
  <2> QED BY <2>1, <2>2
<1>6. SettingInv'
  BY <1>1, <1>5 DEF SettingInv
<1>7. PrefixInv'
  <2>1. \A i \in 1..(Depth - 1) : i \in 1..Depth
    BY <1>1
  <2> QED BY <1>1, <1>2, <2>1 DEF TrailInv, PrefixInv, rows
<1>8. BytesInv'
  <2>1. \A i \in 1..(Depth - 1) : i \in 1..Depth
    BY <1>1
  <2> QED BY <1>1, <1>2, <2>1 DEF TrailInv, BytesInv, rows, storage
<1>9. Attributed' /\ WindowInv'
  BY <1>2 DEF TrailInv, Attributed, WindowInv, rows, calendar
<1> QED BY <1>4, <1>6, <1>7, <1>8, <1>9 DEF TrailInv

\* A block rolled back: the rows written in it go, and what SET LOCAL did.
LEMMA UnwindKeeps == ASSUME AuditAssumption, TrailInv, Unwind PROVE TrailInv'
<1>1. /\ frames' \in Seq(Frame) /\ Depth' = Depth - 1 /\ Depth \in Nat
      /\ \A i \in 1..(Depth - 1) : frames'[i] = frames[i]
      /\ \A i \in 1..Depth' : LastNamed(frames', i - 1, frames'[i].setting)
      /\ LastNamed(frames', Depth', Top.setting)
  BY PopBlocks DEF Unwind
<1>2. /\ Depth > 1 /\ setting' = Top.setting /\ documents' = Top.documents
      /\ pending' = SubSeq(pending, 1, Top.rows)
      /\ raised' \in BOOLEAN /\ upload' = NoKey
      /\ UNCHANGED <<requester, filed, stored, calendar, began>>
  BY DEF Unwind
<1>3. Top \in Frame /\ Top = frames[Depth] /\ TypeOK /\ Depth \in 1..Depth
  BY <1>1, <1>2 DEF TrailInv, TypeOK, Top, Depth
<1>4. PICK n \in Nat : n = Top.rows
  BY <1>3 DEF Frame
<1>5. n <= Len(pending) /\ pending \in Seq(AuditRow)
  BY <1>3, <1>4 DEF TrailInv, PrefixInv, TypeOK
<1>6. /\ pending' \in Seq(AuditRow) /\ Len(pending') = n
      /\ \A i \in 1..n : pending'[i] = pending[i]
  BY <1>2, <1>4, <1>5
<1>7. TypeOK'
  BY <1>1, <1>2, <1>3, <1>6 DEF TypeOK, Frame, calendar
<1>8. SettingInv'
  BY <1>1, <1>2 DEF SettingInv
<1>9. PrefixInv'
  <2>1. \A i \in 1..(Depth - 1) : i \in 1..Depth /\ i <= Depth
    BY <1>1
  <2>2. \A i \in 1..(Depth - 1) : frames[i].rows <= n
    BY <1>3, <1>4, <2>1 DEF TrailInv, PrefixInv
  <2> QED BY <1>1, <1>6, <2>1, <2>2 DEF TrailInv, PrefixInv
<1>10. Attributed'
  BY <1>5, <1>6 DEF TrailInv, Attributed
<1>11. BytesInv' /\ WindowInv'
  BY <1>1, <1>2, <1>3 DEF TrailInv, BytesInv, WindowInv, calendar
<1> QED BY <1>7, <1>8, <1>9, <1>10, <1>11 DEF TrailInv

\* The end of a transaction, committed or not.
LEMMA ResetKeeps ==
  ASSUME AuditAssumption, TrailInv, Reset, filed' \in {filed, filed \cup documents},
         UNCHANGED <<stored, calendar, began>>
  PROVE  TrailInv'
<1>1. /\ frames' = <<>> /\ pending' = <<>> /\ setting' = Nobody /\ raised' = FALSE
      /\ documents' = {} /\ upload' = NoKey /\ requester' = Nobody
  BY DEF Reset, AfterTransaction
<1>2. /\ Depth' = 0 /\ Len(pending') = 0
      /\ frames' \in Seq(Frame) /\ pending' \in Seq(AuditRow)
  BY <1>1 DEF Depth
<1>3. TypeOK'
  BY <1>1, <1>2 DEF TrailInv, TypeOK, Actors, calendar
<1>4. SettingInv' /\ PrefixInv' /\ Attributed'
  BY <1>1, <1>2 DEF SettingInv, LastNamed, PrefixInv, Attributed
<1>5. BytesInv' /\ WindowInv'
  BY <1>1, <1>2 DEF TrailInv, BytesInv, WindowInv, calendar
<1> QED BY <1>3, <1>4, <1>5 DEF TrailInv

\* The trigger writes what the setting says, and that is whom the code named.
LEMMA WriteKeeps == ASSUME AuditAssumption, TrailInv, AuditedWrite PROVE TrailInv'
<1>1. /\ UNCHANGED <<requester, frames, setting, documents, filed, storage, calendar, began>>
      /\ TypeOK /\ pending \in Seq(AuditRow)
  BY DEF AuditedWrite, TrailInv, TypeOK
<1>2. Depth' = Depth
  BY <1>1 DEF Depth
<1>3. CASE raised' = TRUE /\ UNCHANGED pending
  BY <1>1, <1>2, <1>3 DEF TrailInv, TypeOK, SettingInv, PrefixInv, Attributed, BytesInv,
    WindowInv, storage, calendar
<1>4. CASE /\ pending' = Append(pending,
                [by |-> setting, meant |-> Meant, requester |-> requester])
           /\ UNCHANGED raised
  <2>1. setting = Meant
    BY SettingIsMeant
  <2>2. PICK new \in AuditRow : new = [by |-> setting, meant |-> Meant, requester |-> requester]
    BY <1>1, <2>1 DEF TypeOK, AuditRow
  <2>3. /\ pending' \in Seq(AuditRow) /\ Len(pending') = Len(pending) + 1
        /\ pending'[Len(pending) + 1] = new
        /\ \A i \in 1..Len(pending) : pending'[i] = pending[i]
        /\ Len(pending) \in Nat
    BY <1>1, <1>4, <2>2
  <2>4. new.by = new.meant
    BY <2>1, <2>2
  <2>5. TypeOK'
    BY <1>1, <1>4, <2>3 DEF TypeOK, storage, calendar
  <2>6. \A i \in 1..Depth : frames[i].rows \in Nat
    <3>1. \A i \in 1..Depth : frames[i] \in Frame
      BY <1>1 DEF TypeOK, Depth
    <3> QED BY <3>1 DEF Frame
  <2>7. PrefixInv'
    BY <1>1, <1>2, <2>3, <2>6 DEF TrailInv, PrefixInv
  <2>8. Attributed'
    BY <2>3, <2>4 DEF TrailInv, Attributed
  <2>9. SettingInv' /\ BytesInv' /\ WindowInv'
    BY <1>1, <1>2 DEF TrailInv, SettingInv, BytesInv, WindowInv, storage, calendar
  <2> QED BY <2>5, <2>7, <2>8, <2>9 DEF TrailInv
<1> QED BY <1>3, <1>4 DEF AuditedWrite

---------------------------------------------------------------------------
\* Documents and partitions.

\* A step that leaves blocks and audit rows alone.
LEMMA AsideKeeps ==
  ASSUME TrailInv, TypeOK', BytesInv', WindowInv', UNCHANGED <<frames, setting, pending>>
  PROVE  TrailInv'
<1>1. Depth' = Depth
  BY DEF Depth
<1>2. SettingInv' /\ PrefixInv' /\ Attributed'
  BY <1>1 DEF TrailInv, SettingInv, PrefixInv, Attributed
<1> QED BY <1>2 DEF TrailInv

LEMMA StoreKeeps ==
  ASSUME TrailInv, NEW k \in Keys, StoreBytes(k) PROVE TrailInv'
<1>1. TypeOK' /\ BytesInv' /\ WindowInv'
  BY DEF StoreBytes, TrailInv, TypeOK, BytesInv, WindowInv, Depth, work, rows, calendar
<1> QED BY <1>1, AsideKeeps DEF StoreBytes, work, rows

LEMMA RecordKeeps == ASSUME TrailInv, RecordDocument PROVE TrailInv'
<1>1. TypeOK' /\ BytesInv' /\ WindowInv'
  BY DEF RecordDocument, TrailInv, TypeOK, BytesInv, WindowInv, Depth, work, calendar
<1> QED BY <1>1, AsideKeeps DEF RecordDocument, work

LEMMA CalendarKeeps ==
  ASSUME AuditAssumption, TrailInv, NextQuarter \/ EnsurePartitions PROVE TrailInv'
<1>1. CASE NextQuarter
  <2>1. TypeOK' /\ BytesInv' /\ WindowInv'
    BY <1>1 DEF NextQuarter, TrailInv, TypeOK, BytesInv, WindowInv, Depth, work, rows, storage
  <2> QED BY <1>1, <2>1, AsideKeeps DEF NextQuarter, work, rows
<1>2. CASE EnsurePartitions
  <2>1. TypeOK' /\ BytesInv'
    BY <1>2 DEF AuditAssumption, EnsurePartitions, Window, TrailInv, TypeOK, BytesInv,
      Depth, work, rows, storage
  <2>2. WindowInv'
    BY <1>2 DEF AuditAssumption, EnsurePartitions, Window, TrailInv, TypeOK, WindowInv
  <2> QED BY <1>2, <2>1, <2>2, AsideKeeps DEF EnsurePartitions, work, rows
<1> QED BY <1>1, <1>2

LEMMA ArriveKeeps ==
  ASSUME TrailInv, Raise \/ \E u \in Users : Arrive(u) PROVE TrailInv'
<1>1. TypeOK' /\ BytesInv' /\ WindowInv'
  BY DEF Raise, Arrive, TrailInv, TypeOK, BytesInv, WindowInv, Depth, Actors, rows,
    storage, calendar
<1> QED BY <1>1, AsideKeeps DEF Raise, Arrive, rows

LEMMA TrailStep ==
  ASSUME AuditAssumption, TrailInv, [Next]_vars PROVE TrailInv'
<1>1. CASE UNCHANGED vars
  <2>1. TypeOK' /\ BytesInv' /\ WindowInv'
    BY <1>1 DEF vars, work, rows, storage, calendar, TrailInv, TypeOK, BytesInv,
      WindowInv, Depth
  <2> QED BY <1>1, <2>1, AsideKeeps DEF vars, work, rows
<1>2. ASSUME NEW u \in Actors, EnterActor(u) PROVE TrailInv'
  BY <1>2, PushKeeps DEF EnterActor
<1>3. CASE EnterAtomic
  <2>1. Nobody \in Actors
    BY DEF Actors
  <2> QED BY <1>3, <2>1, PushKeeps DEF EnterAtomic
<1>4. CASE Commit \/ Abort
  BY <1>4, ResetKeeps DEF Commit, Abort
<1> QED
  BY <1>1, <1>2, <1>3, <1>4, ArriveKeeps, LeaveKeeps, UnwindKeeps, WriteKeeps, StoreKeeps,
    RecordKeeps, CalendarKeeps DEF Next, Actors

THEOREM TrailSafe == ASSUME AuditAssumption PROVE Spec => []TrailInv
<1>1. Init => TrailInv
  BY TrailInit
<1>2. TrailInv /\ [Next]_vars => TrailInv'
  BY TrailStep
<1> QED BY <1>1, <1>2, PTL DEF Spec

---------------------------------------------------------------------------

\* The connection's variables keep their types.
THEOREM TypeCorrect == ASSUME AuditAssumption PROVE Spec => []TypeOK
<1>1. TrailInv => TypeOK
  BY DEF TrailInv
<1> QED BY <1>1, TrailSafe, PTL

\* audit_actor: a row names the innermost actor around the write, however
\* deep blocks nest and whichever of them an exception unwinds.
THEOREM RowsNameTheirActor == ASSUME AuditAssumption PROVE Spec => []Attributed
<1>1. TrailInv => Attributed
  BY DEF TrailInv
<1> QED BY <1>1, TrailSafe, PTL

\* upload_document: a committed document has its bytes.
THEOREM DocumentsHaveBytes == ASSUME AuditAssumption PROVE Spec => []RowsHaveBytes
<1>1. TrailInv => RowsHaveBytes
  BY DEF TrailInv, BytesInv, RowsHaveBytes
<1> QED BY <1>1, TrailSafe, PTL

\* quarters_from: there is a partition for today unless no container started
\* for as many quarters as the window has.
THEOREM WindowHolds == ASSUME AuditAssumption PROVE Spec => []PartitionUnlessIdle
<1>1. AuditAssumption /\ TrailInv => PartitionUnlessIdle
  BY DEF AuditAssumption, TrailInv, TypeOK, WindowInv, PartitionUnlessIdle
<1> QED BY <1>1, TrailSafe, PTL

---------------------------------------------------------------------------
\* What Deployment promises for any releases, containers, cards, clients and
\* staff, and any crashes and rollbacks.  PlanInv is what the entrypoint
\* leaves at each of its steps: the tables have no migration the image does
\* not know, a container lacks only those still in its plan, and one that
\* serves lacks none.

DeployAssumption == ReleaseAssumption /\ StaffAssumption /\ GridAssumption

Migrations ==
  Between("hr", 2, 3) \cup Between("identity", 2, 10)
  \cup Between("pipeline", 3, 9) \cup Between("sales", 2, 4)

PlanInv ==
  /\ code \in Releases /\ goal \in Releases
  /\ pc \in [Containers -> {"down", "migrating", "serving"}]
  /\ DOMAIN plan = Containers
  /\ applied \subseteq MigrationsOf(code)
  /\ halted \subseteq UNION {MigrationsOf(r) : r \in Releases}
  /\ \A c \in Containers : plan[c] \subseteq MigrationsOf(code)
  /\ \A c \in Containers : pc[c] # "migrating" => plan[c] = {}
  /\ \A c \in Containers : pc[c] # "down" => MigrationsOf(code) \ plan[c] \subseteq applied
  /\ goal # code => /\ \A c \in Containers : pc[c] = "down"
                    /\ MigrationsOf(goal) \subseteq applied

\* Every release has the migrations that seed roles and stages.
LEMMA MigrationsOfRelease ==
  ASSUME ReleaseAssumption, NEW r \in Releases
  PROVE  /\ MigrationsOf(r) \subseteq Migrations
         /\ <<"identity", 2>> \in MigrationsOf(r) /\ <<"pipeline", 3>> \in MigrationsOf(r)
BY DEF ReleaseAssumption, MigrationsOf, Migrations, Between

LEMMA AppsOrder ==
  /\ DOMAIN Apps = 1..4
  /\ Apps[1] = "hr" /\ Apps[2] = "identity" /\ Apps[3] = "pipeline" /\ Apps[4] = "sales"
BY DEF Apps

\* The place of a migration in the order they run in.
LEMMA RankType ==
  ASSUME NEW m \in Migrations
  PROVE  Rank(m) \in 0..499
<1> DEFINE i == CHOOSE i \in DOMAIN Apps : Apps[i] = m[1]
<1>1. m[1] \in {"hr", "identity", "pipeline", "sales"} /\ m[2] \in 2..10
  BY DEF Migrations, Between
<1>2. \E k \in DOMAIN Apps : Apps[k] = m[1]
  BY <1>1, AppsOrder
<1>3. i \in 1..4
  BY <1>2, AppsOrder
<1>4. Rank(m) = i * 100 + m[2]
  BY DEF Rank
<1> HIDE DEF i
<1> QED BY <1>1, <1>3, <1>4

\* The order of the apps' migrations: hr 0002 comes before hr 0003.
LEMMA RanksOfHr == Rank(<<"hr", 2>>) < Rank(<<"hr", 3>>)
<1> DEFINE i == CHOOSE i \in DOMAIN Apps : Apps[i] = "hr"
<1>1. i = 1
  BY AppsOrder
<1>2. Rank(<<"hr", 2>>) = i * 100 + 2 /\ Rank(<<"hr", 3>>) = i * 100 + 3
  BY DEF Rank
<1> HIDE DEF i
<1> QED BY <1>1, <1>2

\* Some number of a set is its least.
LEMMA LeastOf ==
  ASSUME NEW S \in SUBSET Nat, S # {}
  PROVE  \E n \in S : \A k \in S : n <= k
<1>1. PICK n \in S : \A k \in S : ~(<<k, n>> \in OpToRel(<, Nat))
  BY NatLessThanWellFounded, WFMin
<1>2. \A k \in S : ~(k < n)
  BY <1>1 DEF OpToRel
<1> QED BY <1>2

\* A set of migrations has a first and a last.
LEMMA FirstAndLast ==
  ASSUME NEW ms \in SUBSET Migrations, ms # {}
  PROVE  /\ Earliest(ms) \in ms /\ \A n \in ms : Rank(Earliest(ms)) <= Rank(n)
         /\ LatestOf(ms) \in ms
<1> DEFINE Ranks == {Rank(m) : m \in ms}
           Down == {499 - Rank(m) : m \in ms}
<1>1. \A m \in ms : Rank(m) \in 0..499
  BY RankType
<1>2. \E m \in ms : \A n \in ms : Rank(m) <= Rank(n)
  <2>1. Ranks \in SUBSET Nat /\ Ranks # {}
    BY <1>1
  <2>2. PICK k \in Ranks : \A l \in Ranks : k <= l
    BY <2>1, LeastOf
  <2> QED BY <2>2
<1>3. \E m \in ms : \A n \in ms : Rank(n) <= Rank(m)
  <2>1. Down \in SUBSET Nat /\ Down # {}
    BY <1>1
  <2>2. PICK k \in Down : \A l \in Down : k <= l
    BY <2>1, LeastOf
  <2>3. PICK m \in ms : k = 499 - Rank(m)
    BY <2>2
  <2>4. \A n \in ms : 499 - Rank(m) <= 499 - Rank(n)
    BY <2>2, <2>3
  <2>5. ASSUME NEW n \in ms PROVE Rank(n) <= Rank(m)
    <3>1. Rank(n) \in 0..499 /\ Rank(m) \in 0..499 /\ 499 - Rank(m) <= 499 - Rank(n)
      BY <1>1, <2>4
    <3>2. \A a, b \in 0..499 : 499 - b <= 499 - a => a <= b
      OBVIOUS
    <3> QED BY <3>1, <3>2
  <2> QED BY <2>3, <2>5
<1> QED BY <1>2, <1>3 DEF Earliest, LatestOf

LEMMA PlanInit == ASSUME DeployAssumption, SystemInit PROVE PlanInv
BY MigrationsOfRelease DEF DeployAssumption, SystemInit, PlanInv

\* A started container has what it found and plans what it did not find.
LEMMA StartKeepsPlan ==
  ASSUME DeployAssumption, PlanInv, NEW c \in Containers, Start(c) \/ Crash(c)
  PROVE  PlanInv'
<1> USE DEF PlanInv
<1>1. CASE Boot(c)
  BY <1>1 DEF Boot
<1>2. CASE Apply(c)
  <2>1. Earliest(plan[c]) \in plan[c]
    BY <1>2, FirstAndLast, MigrationsOfRelease DEF DeployAssumption, Apply
  <2> QED BY <1>2, <2>1 DEF Apply
<1>3. CASE Fail(c)
  BY <1>3 DEF Fail
<1>4. CASE Serve(c)
  BY <1>4 DEF Serve
<1>5. CASE Crash(c)
  <2>1. halted' \subseteq UNION {MigrationsOf(r) : r \in Releases}
    <3>1. CASE plan[c] = {}
      BY <1>5, <3>1 DEF Crash
    <3>2. CASE plan[c] # {}
      <4>1. Earliest(plan[c]) \in plan[c]
        BY <3>2, FirstAndLast, MigrationsOfRelease DEF DeployAssumption
      <4>2. Earliest(plan[c]) \in UNION {MigrationsOf(r) : r \in Releases}
        BY <4>1
      <4> QED BY <1>5, <4>2 DEF Crash
    <3> QED BY <3>1, <3>2
  <2> QED BY <1>5, <2>1 DEF Crash
<1> QED BY <1>1, <1>2, <1>3, <1>4, <1>5 DEF Start

\* Nothing runs while the operator goes back, and a reverse migration takes
\* only what the earlier release lacks.
LEMMA OperatorKeepsPlan ==
  ASSUME DeployAssumption, PlanInv, NEW r \in Releases,
         Deploy(r) \/ Retreat(r) \/ Reverse \/ GiveUp \/ Retreated
  PROVE  PlanInv'
<1> USE DEF PlanInv
<1>1. CASE Deploy(r)
  BY <1>1 DEF Deploy
<1>2. CASE Retreat(r)
  <2>1. PICK c \in Containers : TRUE
    BY DEF DeployAssumption, ReleaseAssumption
  <2> QED BY <1>2, <2>1 DEF Retreat
<1>3. CASE Reverse
  <2>1. LatestOf(applied \ MigrationsOf(goal)) \in applied \ MigrationsOf(goal)
    BY <1>3, FirstAndLast, MigrationsOfRelease DEF DeployAssumption, Reverse
  <2> QED BY <1>3, <2>1 DEF Reverse
<1>4. CASE GiveUp
  BY <1>4 DEF GiveUp
<1>5. CASE Retreated
  BY <1>5 DEF Retreated
<1> QED BY <1>1, <1>2, <1>3, <1>4, <1>5

---------------------------------------------------------------------------
\* Codes.  A series is never behind a code it will come to.  hr 0003 writes
\* codes 1 to 20 and leaves the series alone, which is then at least as far as
\* there are employees: behind those codes only with some of the roster on a
\* staff that is smaller.

CodeTypes == [series : {"typed", "SRS", "TEST"}, no : Nat]

Persons == [name : STRING, code : CodeTypes]

ClientsInv ==
  /\ clients \in Seq(CodeTypes) /\ clientSeries \in Nat
  /\ \A i \in DOMAIN clients : clients[i].no <= clientSeries
  /\ ~Clashes(clients)

StaffInv ==
  /\ staff \in Seq(Persons) /\ staffSeries \in Nat /\ short \in BOOLEAN
  /\ ~short => \A i \in DOMAIN staff :
                staff[i].code.series = "SRS" => staff[i].code.no <= staffSeries
  /\ ~Clashes(Codes(staff))
  /\ <<"hr", 2>> \in applied => staffSeries >= Len(staff)

BooksInv == PlanInv /\ ClientsInv /\ StaffInv

LEMMA RosterLength == Len(Roster) = 20 /\ DOMAIN Roster = 1..20
<1>1. Len(Roster) = 20
  BY DEF Roster
<1>2. DOMAIN Roster = 1..20
  BY DEF Roster
<1> QED BY <1>1, <1>2

\* hr 0003 gives nobody two codes.
LEMMA RosterApart ==
  ASSUME NEW n, Listed(Roster, n)
  PROVE  ~Listed(TestAccounts, n)
<1>1. \A k \in DOMAIN Roster : Roster[k] \notin {"Aswin", "Govind Sharma"}
  <2> DEFINE Ok(k) == Roster[k] \notin {"Aswin", "Govind Sharma"}
  <2>1. /\ Ok(1) /\ Ok(2) /\ Ok(3) /\ Ok(4) /\ Ok(5) /\ Ok(6) /\ Ok(7) /\ Ok(8) /\ Ok(9)
        /\ Ok(10) /\ Ok(11) /\ Ok(12) /\ Ok(13) /\ Ok(14) /\ Ok(15) /\ Ok(16) /\ Ok(17)
        /\ Ok(18) /\ Ok(19) /\ Ok(20)
    BY DEF Roster
  <2> HIDE DEF Ok
  <2>2. \A k \in 1..20 : Ok(k)
    BY <2>1
  <2> QED BY <2>2, RosterLength DEF Ok
<1>2. \A k \in DOMAIN TestAccounts : TestAccounts[k] \in {"Aswin", "Govind Sharma"}
  <2>1. /\ DOMAIN TestAccounts = 1..2
        /\ TestAccounts[1] = "Aswin" /\ TestAccounts[2] = "Govind Sharma"
    BY DEF TestAccounts
  <2>2. \A k \in 1..2 : k = 1 \/ k = 2
    OBVIOUS
  <2> QED BY <2>1, <2>2, Zenon
<1> QED BY <1>1, <1>2 DEF Listed

LEMMA BooksInit == ASSUME DeployAssumption, SystemInit PROVE BooksInv
<1>1. PlanInv
  BY PlanInit
<1>2. ClientsInv
  BY DEF SystemInit, ClientsInv, Clashes
<1>3. StaffInv
  <2>1. PICK names \in StaffAtStart :
          staff = [i \in DOMAIN names |-> [name |-> names[i], code |-> Typed]]
    BY DEF SystemInit
  <2>2. names \in Seq(STRING)
    BY DEF DeployAssumption, StaffAssumption
  <2>3. staff \in Seq(Persons) /\ Len(staff) = Len(names)
    <3>1. \A i \in DOMAIN names : [name |-> names[i], code |-> Typed] \in Persons
      BY <2>2 DEF Typed, CodeTypes, Persons
    <3> QED BY <2>1, <2>2, <3>1
  <2>4. \A i \in DOMAIN staff : staff[i].name = names[i] /\ staff[i].code = Typed
    BY <2>1
  <2>5. ~Clashes(Codes(staff))
    BY <2>4 DEF Clashes, Codes
  <2>6. applied = {} /\ staffSeries = 0
    BY DEF SystemInit
  <2>7. short \in BOOLEAN
    <3>1. FALSE \in BOOLEAN
      OBVIOUS
    <3> QED BY <3>1, Zenon DEF SystemInit
  <2>8. \A i \in DOMAIN staff : staff[i].code.series # "SRS"
    BY <2>4 DEF Typed
  <2> QED BY <2>3, <2>5, <2>6, <2>7, <2>8 DEF StaffInv
<1> QED BY <1>1, <1>2, <1>3 DEF BooksInv

\* Renumbering gives out the next numbers, one each.
LEMMA RenumberKeeps ==
  ASSUME DeployAssumption, ClientsInv, StaffInv, NEW app \in {"sales", "hr"}, Renumber(app),
         app = "sales" => (<<"hr", 2>> \in applied' => <<"hr", 2>> \in applied)
  PROVE  ClientsInv' /\ StaffInv'
<1>1. CASE app = "sales"
  <2>1. /\ clients' = [i \in DOMAIN clients |-> Numbered(clientSeries + i)]
        /\ clientSeries' = clientSeries + Len(clients)
        /\ UNCHANGED <<staff, staffSeries, short>>
    BY <1>1 DEF Renumber, Renumbered
  <2>2. ClientsInv'
    <3>1. clients \in Seq(CodeTypes) /\ DOMAIN clients = 1..Len(clients)
      BY DEF ClientsInv
    <3>2. clients' \in Seq(CodeTypes) /\ clientSeries' \in Nat
      BY <2>1, <3>1 DEF ClientsInv, Numbered, CodeTypes
    <3>3. \A i \in DOMAIN clients' : clients'[i].no = clientSeries + i /\ i \in 1..Len(clients)
      BY <2>1, <3>1 DEF Numbered
    <3> QED BY <2>1, <3>1, <3>2, <3>3 DEF ClientsInv, Clashes
  <2>3. StaffInv'
    BY <1>1, <2>1 DEF StaffInv
  <2> QED BY <2>2, <2>3
<1>2. CASE app = "hr"
  <2>1. /\ staff' = [i \in DOMAIN staff |->
                       [staff[i] EXCEPT !.code = Numbered(staffSeries + i)]]
        /\ staffSeries' = staffSeries + Len(staff)
        /\ short' = FALSE
        /\ UNCHANGED <<clients, clientSeries>>
    BY <1>2 DEF Renumber
  <2>2. /\ DOMAIN staff = 1..Len(staff) /\ Len(staff) \in Nat /\ staffSeries \in Nat
        /\ \A i \in DOMAIN staff : staff[i] \in Persons
    <3>1. staff \in Seq(Persons) /\ staffSeries \in Nat
      BY DEF StaffInv
    <3> QED BY <3>1
  <2>3. /\ DOMAIN staff' = DOMAIN staff
        /\ \A i \in DOMAIN staff :
             staff'[i] = [name |-> staff[i].name, code |-> Numbered(staffSeries + i)]
    BY <2>1, <2>2 DEF Persons
  <2>4. staff' \in Seq(Persons) /\ Len(staff') = Len(staff)
    BY <2>1, <2>2, <2>3 DEF Numbered, CodeTypes, Persons
  <2>5. \A i \in DOMAIN staff : staff'[i].code.no = staffSeries + i /\ staff'[i].name = staff[i].name
    BY <2>3 DEF Numbered
  <2>6. ~Clashes(Codes(staff'))
    BY <2>2, <2>3, <2>5 DEF Clashes, Codes
  <2>7. StaffInv'
    <3>1. staff' \in Seq(Persons) /\ staffSeries' \in Nat
      BY <2>1, <2>2, <2>4
    <3>2. \A i \in DOMAIN staff' : staff'[i].code.no <= staffSeries'
      BY <2>1, <2>2, <2>3, <2>5
    <3>3. staffSeries' >= Len(staff')
      BY <2>1, <2>2, <2>4
    <3>4. short' \in BOOLEAN
      <4>1. FALSE \in BOOLEAN
        OBVIOUS
      <4> QED BY <2>1, <4>1, Zenon
    <3> QED BY <2>6, <3>1, <3>2, <3>3, <3>4 DEF StaffInv
  <2>8. ClientsInv'
    BY <2>1 DEF ClientsInv
  <2> QED BY <2>7, <2>8
<1> QED BY <1>1, <1>2

\* The realigned codes are within the series, unless some of the roster are on
\* a staff of fewer than twenty.
LEMMA RealignKeeps ==
  ASSUME DeployAssumption, StaffInv, <<"hr", 2>> \in applied,
         ~Clashes(Codes(Realigned(staff))),
         staff' = Realigned(staff), UNCHANGED staffSeries,
         short' = (short \/ ShortStaff(staff))
  PROVE  StaffInv'
<1>1. /\ DOMAIN staff = 1..Len(staff) /\ Len(staff) \in Nat
      /\ \A i \in DOMAIN staff : staff[i] \in Persons
  <2>1. staff \in Seq(Persons)
    BY DEF StaffInv
  <2> QED BY <2>1
<1>2. ASSUME NEW i \in DOMAIN staff
      PROVE  /\ staff'[i].name = staff[i].name
             /\ staff'[i] \in Persons
             /\ \/ staff'[i].code = staff[i].code
                \/ staff'[i].code.series = "TEST"
                \/ Listed(Roster, staff[i].name) /\ staff'[i].code.no \in 1..20
  <2> DEFINE n == staff[i].name
  <2>1. CASE Listed(Roster, n)
    <3>1. staff'[i] = [staff[i] EXCEPT !.code = Numbered(NumberIn(Roster, n))]
      BY <2>1, RosterApart DEF Realigned
    <3>2. NumberIn(Roster, n) \in 1..20
      BY <2>1, RosterLength DEF Listed, NumberIn
    <3> QED BY <1>1, <2>1, <3>1, <3>2 DEF Numbered, CodeTypes, Persons
  <2>2. CASE ~Listed(Roster, n) /\ Listed(TestAccounts, n)
    <3>1. staff'[i] = [staff[i] EXCEPT !.code =
                         [series |-> "TEST", no |-> NumberIn(TestAccounts, n)]]
      BY <2>2 DEF Realigned
    <3>2. NumberIn(TestAccounts, n) \in 1..2
      <4>1. DOMAIN TestAccounts = 1..2
        BY DEF TestAccounts
      <4> QED BY <2>2, <4>1 DEF Listed, NumberIn
    <3> QED BY <1>1, <3>1, <3>2 DEF CodeTypes, Persons
  <2>3. CASE ~Listed(Roster, n) /\ ~Listed(TestAccounts, n)
    <3>1. staff'[i] = [staff[i] EXCEPT !.code = @]
      BY <2>3 DEF Realigned
    <3>2. staff'[i] = staff[i]
      BY <1>1, <3>1 DEF Persons
    <3> QED BY <1>1, <3>2
  <2> QED BY <2>1, <2>2, <2>3
<1>3. DOMAIN staff' = DOMAIN staff
  BY DEF Realigned
<1>4. staff' \in Seq(Persons) /\ Len(staff') = Len(staff)
  <2>1. staff' = [i \in 1..Len(staff) |-> staff'[i]]
    BY <1>1 DEF Realigned
  <2>2. \A i \in 1..Len(staff) : staff'[i] \in Persons
    BY <1>1, <1>2
  <2> QED BY <1>1, <2>1, <2>2
<1>5. ASSUME ~short', NEW i \in DOMAIN staff', staff'[i].code.series = "SRS"
      PROVE  staff'[i].code.no <= staffSeries'
  <2>1. i \in DOMAIN staff /\ short = FALSE /\ ~ShortStaff(staff)
    BY <1>3, <1>5 DEF StaffInv
  <2>2. CASE staff'[i].code = staff[i].code
    BY <1>5, <2>1, <2>2 DEF StaffInv
  <2>3. CASE Listed(Roster, staff[i].name) /\ staff'[i].code.no \in 1..20
    <3>1. Len(staff) >= 20
      BY <1>1, <2>1, <2>3, RosterLength DEF ShortStaff
    <3>2. staffSeries >= Len(staff) /\ staffSeries \in Nat
      BY DEF StaffInv
    <3> QED BY <1>1, <2>3, <3>1, <3>2
  <2> QED BY <1>2, <1>5, <2>1, <2>2, <2>3
<1>6. short' \in BOOLEAN
  BY DEF StaffInv, ShortStaff
<1> QED BY <1>3, <1>4, <1>5, <1>6 DEF StaffInv

\* Neither what a person adds nor what a migration writes falls behind.
LEMMA AddClientKeeps ==
  ASSUME ClientsInv, AddClient
  PROVE  ClientsInv'
<1>1. clients \in Seq(CodeTypes) /\ clientSeries \in Nat
  BY DEF ClientsInv
<1>2. CASE code.sales < 3
  <2>1. clients' = Append(clients, Typed) /\ clientSeries' = clientSeries
    BY <1>2 DEF AddClient
  <2>2. clients' \in Seq(CodeTypes)
    BY <1>1, <2>1 DEF Typed, CodeTypes
  <2>3. \A i \in DOMAIN clients' : \/ i \in DOMAIN clients /\ clients'[i] = clients[i]
                                   \/ clients'[i] = Typed
    BY <1>1, <2>1
  <2>4. ~Clashes(clients')
    BY <1>1, <2>1 DEF ClientsInv, Clashes
  <2> QED BY <1>1, <2>1, <2>2, <2>3, <2>4 DEF ClientsInv, Typed
<1>3. CASE ~(code.sales < 3)
  <2>1. /\ clients' = Append(clients, Numbered(clientSeries + 1))
        /\ clientSeries' = clientSeries + 1 /\ ~Clashes(clients')
    BY <1>3 DEF AddClient
  <2>2. clients' \in Seq(CodeTypes)
    BY <1>1, <2>1 DEF Numbered, CodeTypes
  <2>3. \A i \in DOMAIN clients' : \/ i \in DOMAIN clients /\ clients'[i] = clients[i]
                                   \/ clients'[i] = Numbered(clientSeries + 1)
    BY <1>1, <2>1
  <2>4. \A i \in DOMAIN clients' : clients'[i].no <= clientSeries'
    <3>1. \A i \in DOMAIN clients : clients[i].no \in Nat /\ clients[i].no <= clientSeries
      <4>1. \A i \in DOMAIN clients : clients[i] \in CodeTypes
        BY <1>1
      <4> QED BY <4>1 DEF ClientsInv, CodeTypes
    <3>2. \A i \in DOMAIN clients : clients[i].no <= clientSeries + 1
      BY <1>1, <3>1
    <3> QED BY <1>1, <2>1, <2>3, <3>2 DEF Numbered
  <2> QED BY <1>1, <2>1, <2>2, <2>4 DEF ClientsInv
<1> QED BY <1>2, <1>3

\* A newcomer takes the next number once there are numbers.
LEMMA AddEmployeeKeeps ==
  ASSUME DeployAssumption, PlanInv, StaffInv, UNCHANGED applied,
         NEW name \in Newcomers, AddEmployee(name)
  PROVE  StaffInv'
<1>1. staff \in Seq(Persons) /\ staffSeries \in Nat
  BY DEF StaffInv
<1>2. name \in STRING
  BY DEF DeployAssumption, StaffAssumption
<1> DEFINE new == IF code.hr < 2 THEN Typed ELSE Numbered(staffSeries + 1)
<1>3. /\ staff' = Append(staff, [name |-> name, code |-> new])
      /\ staffSeries' \in Nat /\ staffSeries' >= staffSeries
      /\ new \in CodeTypes /\ (new.series = "SRS" => new.no <= staffSeries')
      /\ new = Typed \/ ~Clashes(Codes(staff'))
  <2>1. CASE code.hr < 2
    BY <1>1, <2>1 DEF AddEmployee, Typed, CodeTypes
  <2>2. CASE ~(code.hr < 2)
    BY <1>1, <2>2 DEF AddEmployee, Numbered, CodeTypes
  <2> QED BY <2>1, <2>2
<1> HIDE DEF new
<1>4. staff' \in Seq(Persons) /\ Len(staff') = Len(staff) + 1
  BY <1>1, <1>2, <1>3 DEF Persons
<1>5. \A i \in DOMAIN staff' : \/ i \in DOMAIN staff /\ staff'[i] = staff[i]
                               \/ staff'[i] = [name |-> name, code |-> new]
  BY <1>1, <1>3
<1>6. ~short' => \A i \in DOMAIN staff' :
                   staff'[i].code.series = "SRS" => staff'[i].code.no <= staffSeries'
  <2> SUFFICES ASSUME ~short', NEW i \in DOMAIN staff', staff'[i].code.series = "SRS"
               PROVE  staff'[i].code.no <= staffSeries'
    OBVIOUS
  <2>1. CASE i \in DOMAIN staff /\ staff'[i] = staff[i]
    <3>1. staff[i].code.no <= staffSeries /\ staff[i].code.no \in Nat
      <4>1. staff[i] \in Persons
        BY <1>1, <2>1
      <4>2. staff[i].code.no \in Nat
        BY <4>1 DEF Persons, CodeTypes
      <4>3. ~short
        BY DEF AddEmployee
      <4> QED BY <2>1, <4>2, <4>3 DEF StaffInv
    <3> QED BY <1>1, <1>3, <2>1, <3>1
  <2>2. CASE staff'[i] = [name |-> name, code |-> new]
    BY <1>3, <2>2
  <2> QED BY <1>5, <2>1, <2>2
<1>7. ~Clashes(Codes(staff'))
  <2> SUFFICES ASSUME new = Typed PROVE ~Clashes(Codes(staff'))
    BY <1>3
  <2> QED BY <1>1, <1>3 DEF StaffInv, Clashes, Codes
<1>8. <<"hr", 2>> \in applied' => staffSeries' >= Len(staff')
  <2> SUFFICES ASSUME <<"hr", 2>> \in applied PROVE staffSeries' >= Len(staff')
    OBVIOUS
  <2>1. ~(code.hr < 2)
    BY DEF PlanInv, MigrationsOf, Between, DeployAssumption, ReleaseAssumption
  <2>2. staffSeries' = staffSeries + 1 /\ staffSeries >= Len(staff) /\ Len(staff) \in Nat
    BY <1>1, <2>1 DEF AddEmployee, StaffInv
  <2> QED BY <1>1, <1>4, <2>2
<1>9. short' \in BOOLEAN
  BY DEF AddEmployee, StaffInv
<1> QED BY <1>3, <1>4, <1>6, <1>7, <1>8, <1>9 DEF StaffInv

\* BooksInv is inductive: each migration that writes codes, then the rest.
LEMMA BooksStep == ASSUME DeployAssumption, BooksInv, SystemNext PROVE BooksInv'
<1> USE DEF BooksInv
<1>1. ASSUME NEW c \in Containers, Apply(c) PROVE BooksInv'
  <2> DEFINE m == Earliest(plan[c])
  <2>1. PlanInv'
    BY <1>1, StartKeepsPlan DEF Start
  <2>2. m \in plan[c] /\ \A n \in plan[c] : Rank(m) <= Rank(n)
    BY <1>1, FirstAndLast, MigrationsOfRelease DEF DeployAssumption, Apply, PlanInv
  <2>3. Works(m) /\ Forward(m) /\ applied' = applied \cup {m}
    BY <1>1 DEF Apply
  <2> HIDE DEF m
  <2>4. CASE m = <<"sales", 3>>
    BY <2>1, <2>3, <2>4, RenumberKeeps DEF Forward
  <2>5. CASE m = <<"hr", 2>>
    BY <2>1, <2>3, <2>5, RenumberKeeps DEF Forward
  <2>6. CASE m = <<"hr", 3>>
    <3>1. <<"hr", 2>> \in applied
      <4>1. <<"hr", 2>> \notin plan[c]
        <5>1. Rank(<<"hr", 2>>) \in Nat /\ Rank(<<"hr", 3>>) \in Nat
          BY RankType DEF Migrations, Between
        <5> QED BY <2>2, <2>6, <5>1, RanksOfHr
      <4>2. <<"hr", 2>> \in MigrationsOf(code)
        BY <2>2, <2>6 DEF PlanInv, DeployAssumption, ReleaseAssumption, MigrationsOf, Between
      <4> QED BY <1>1, <4>1, <4>2 DEF PlanInv, Apply
    <3>2. /\ staff' = Realigned(staff) /\ UNCHANGED <<staffSeries, clients, clientSeries>>
          /\ ~Clashes(Codes(Realigned(staff)))
          /\ short' = (short \/ ShortStaff(staff))
      BY <2>3, <2>6 DEF Forward, Works
    <3>3. StaffInv'
      BY <3>1, <3>2, RealignKeeps
    <3> QED BY <2>1, <3>2, <3>3 DEF ClientsInv
  <2>7. CASE m \notin {<<"sales", 3>>, <<"hr", 2>>, <<"hr", 3>>}
    <3>1. UNCHANGED <<clients, clientSeries, staff, staffSeries, short>>
      BY <2>3, <2>7 DEF Forward, people
    <3> QED BY <2>1, <2>3, <2>7, <3>1 DEF ClientsInv, StaffInv
  <2> QED BY <2>4, <2>5, <2>6, <2>7
<1>2. ASSUME NEW c \in Containers, Boot(c) \/ Fail(c) \/ Serve(c) \/ Crash(c) PROVE BooksInv'
  <2>1. PlanInv'
    BY <1>2, StartKeepsPlan DEF Start
  <2>2. UNCHANGED <<applied, clients, clientSeries, staff, staffSeries, short>>
    BY <1>2 DEF Boot, Fail, Serve, Crash, books, people
  <2> QED BY <2>1, <2>2 DEF ClientsInv, StaffInv
<1>3. ASSUME NEW r \in Releases, Deploy(r) \/ Retreat(r) \/ Reverse \/ GiveUp \/ Retreated
      PROVE  BooksInv'
  <2>1. PlanInv'
    BY <1>3, OperatorKeepsPlan
  <2>2. UNCHANGED <<clients, clientSeries, staff, staffSeries, short>>
    BY <1>3 DEF Deploy, Retreat, Reverse, GiveUp, Retreated, books, people, Backward
  <2>3. applied' \subseteq applied
    BY <1>3 DEF Deploy, Retreat, Reverse, GiveUp, Retreated
  <2> QED BY <2>1, <2>2, <2>3 DEF ClientsInv, StaffInv
<1>4. ASSUME \/ \E j \in Jobs : \/ OpenCard(j) \/ Quote(j)
                                \/ \E rule \in graph.rules : Move(j, rule)
             \/ \E rule \in graph.rules : SetGate(rule)
      PROVE  BooksInv'
  <2>1. UNCHANGED <<Systems, clients, clientSeries, staff, staffSeries, short>>
    BY <1>4 DEF OpenCard, Quote, Move, SetGate, people
  <2> QED BY <2>1 DEF Systems, PlanInv, ClientsInv, StaffInv
<1>5. CASE AddClient
  <2>1. UNCHANGED <<Systems, staff, staffSeries, short>>
    BY <1>5 DEF AddClient
  <2> QED BY <1>5, <2>1, AddClientKeeps DEF Systems, PlanInv, StaffInv
<1>6. ASSUME NEW name \in Newcomers, AddEmployee(name) PROVE BooksInv'
  <2>1. UNCHANGED <<Systems, clients, clientSeries>>
    BY <1>6 DEF AddEmployee
  <2> QED BY <1>6, <2>1, AddEmployeeKeeps DEF Systems, PlanInv, ClientsInv
<1>7. code \in Releases
  BY DEF PlanInv
<1> QED BY <1>1, <1>2, <1>3, <1>4, <1>5, <1>6, <1>7 DEF SystemNext, Start

\* However containers crash, race to migrate and are taken back, the tables
\* have no migration the image lacks and a container that serves lacks none;
\* no code is given twice, and no series is behind a code unless hr 0003 met
\* part of its roster on a staff smaller than the roster.
THEOREM BooksSafe == ASSUME DeployAssumption PROVE SystemSpec => []BooksInv
<1>1. SystemInit => BooksInv
  BY BooksInit
<1>2. BooksInv /\ [SystemNext]_systemVars => BooksInv'
  <2>1. CASE SystemNext
    BY <2>1, BooksStep
  <2>2. CASE UNCHANGED systemVars
    BY <2>2 DEF systemVars, BooksInv, PlanInv, ClientsInv, StaffInv
  <2> QED BY <2>1, <2>2
<1> QED BY <1>1, <1>2, PTL DEF SystemSpec

\* sales 0003, hr 0002 and hr 0003 write codes by hand, perhaps two containers
\* one after the other, perhaps while people add clients and employees between
\* deployments, and whoever is on file: no two rows have one code, and no series
\* will give out a code a row has, but for the employees' after hr 0003 has
\* realigned part of its roster on a staff smaller than the roster.
THEOREM CodesKept == ASSUME DeployAssumption PROVE SystemSpec => []CodesNeverReissued
<1>1. BooksInv => CodesNeverReissued
  BY DEF BooksInv, ClientsInv, StaffInv, CodesNeverReissued
<1> QED BY <1>1, BooksSafe, PTL

\* Every variable of Deployment keeps its type.
THEOREM SystemTyped == ASSUME DeployAssumption PROVE SystemSpec => []SystemTypeOK
<1>1. BooksInv => SystemTypeOK
  BY DEF BooksInv, PlanInv, ClientsInv, StaffInv, SystemTypeOK
<1> QED BY <1>1, BooksSafe, PTL

---------------------------------------------------------------------------
\* Unique keys.  The database refuses a second row with a key; the proof is
\* that no migration, in any order, twice or backwards, asks for one.

\* As many keys as rows, when no two rows share one.
LEMMA KeysAsRows ==
  ASSUME NEW S, NEW key, IsFiniteSet(S),
         \A a, b \in S : key[a] = key[b] => a = b
  PROVE  Cardinality({key[a] : a \in S}) = Cardinality(S)
<1> DEFINE K == {key[a] : a \in S}
           f == [a \in S |-> key[a]]
<1>1. f \in Bijection(S, K)
  BY DEF Bijection, Injection, Surjection, IsInjective
<1>2. ExistsBijection(S, K)
  BY <1>1 DEF ExistsBijection
<1> QED BY <1>2, FS_Bijection

\* Rows with keys in a finite set and no two alike are finitely many.
LEMMA FiniteByKey ==
  ASSUME NEW S, NEW key, NEW K, IsFiniteSet(K),
         \A a \in S : key[a] \in K,
         \A a, b \in S : key[a] = key[b] => a = b
  PROVE  IsFiniteSet(S)
<1> DEFINE f == [a \in S |-> key[a]]
<1>1. f \in Injection(S, K)
  BY DEF Injection, IsInjective
<1> QED BY <1>1, FS_Injection

---------------------------------------------------------------------------
\* The grants.

Grants == [role : GridRoles, on : Permissions, level : 0..2, ifOwner : BOOLEAN]

\* Rows the unique key of auth_role_permissions lets stand together.
GrantsFit(held) ==
  /\ held \subseteq Grants
  /\ \A a, b \in held : SameKey(a, b) => a = b

JobViews == {"job_card:view", "job_line:view"}

\* Who is confined to rows of their own, where GRID says so.
OwnRowsOnly(role, on) ==
  \/ on = "password:edit"
  \/ on = "employee:view" /\ role \notin Office
  \/ on \in JobViews /\ role = "SALES"

GridRows ==
  {g \in Grants : /\ g.ifOwner <=> OwnRowsOnly(g.role, g.on)
                  /\ g.on \in JobViews => g.level = 0}

\* The row of a cell, and the roles and permissions whose rows the key allows.
RowOf(level, ifOwner, role, on) ==
  [role |-> role, on |-> on, level |-> level, ifOwner |-> ifOwner]

Allowed(level, ifOwner, roles, permissions) ==
  \A r \in roles, p \in permissions \cap Permissions : RowOf(level, ifOwner, r, p) \in GridRows

LEMMA CellsAllowed ==
  ASSUME NEW level, NEW ifOwner, NEW roles, NEW permissions,
         Allowed(level, ifOwner, roles, permissions)
  PROVE  Cells(level, ifOwner, roles, permissions) \subseteq GridRows
BY DEF Allowed, Cells, RowOf

\* GRID has one row of a role, a permission and a level.
LEMMA GridFits == GRID \subseteq GridRows
<1> USE DEF Allowed, RowOf, GridRows, OwnRowsOnly, Grants, GridRoles,
            JobViews, Office, Managers, Sellers
<1>1. Allowed(0, FALSE, GridRoles, {"document:create"})
  OBVIOUS
<1>2. Allowed(0, FALSE, GridRoles \ {"HR"}, {"job_note:create"})
  OBVIOUS
<1>3. Allowed(0, FALSE, GridRoles \ {"HR", "SALES"}, {"job_card:view", "job_line:view"})
  OBVIOUS
<1>4. Allowed(0, FALSE, Office, {"admin_site:view", "user_account:view",
       "user_account:create", "user_account:edit"})
  OBVIOUS
<1>5. Allowed(0, FALSE, Managers, {"role_assignment:create", "role_assignment:delete",
       "transition_rule:view", "transition_rule:edit", "audit_log:view"})
  OBVIOUS
<1>6. Allowed(0, FALSE, Managers \cup {"SALES", "PURCH", "ACCT"}, {"client:view"})
  OBVIOUS
<1>7. Allowed(0, FALSE, Office \cup {"SALES"}, {"client:create"})
  OBVIOUS
<1>8. Allowed(0, FALSE, Managers \cup {"SALES", "ACCT"}, {"quotation:view"})
  OBVIOUS
<1>9. Allowed(0, FALSE, Sellers, {"client:edit", "job_card:create", "job_card:edit",
       "job_card:cancel", "job_line:create", "job_line:edit", "quotation:edit"})
  OBVIOUS
<1>10. Allowed(0, FALSE, {"OWNER", "ACCT"}, {"quotation:create", "sheet_export:view"})
  OBVIOUS
<1>11. Allowed(1, FALSE, Office, {"employee:view", "employee:create", "employee:edit",
       "employee:delete"})
  OBVIOUS
<1>12. Allowed(2, FALSE, {"OWNER", "HR"}, {"employee_document:view"})
  OBVIOUS
<1>13. Allowed(0, TRUE, GridRoles, {"password:edit"})
  OBVIOUS
<1>14. Allowed(0, TRUE, GridRoles \ Office, {"employee:view"})
  OBVIOUS
<1>15. Allowed(0, TRUE, {"SALES"}, {"job_card:view", "job_line:view"})
  OBVIOUS
<1> HIDE DEF Allowed, RowOf, GridRows, OwnRowsOnly, Grants, GridRoles,
            JobViews, Office, Managers, Sellers
<1>16. /\ Cells(0, FALSE, GridRoles, {"document:create"}) \subseteq GridRows
       /\ Cells(0, FALSE, GridRoles \ {"HR"}, {"job_note:create"}) \subseteq GridRows
       /\ Cells(0, FALSE, GridRoles \ {"HR", "SALES"}, {"job_card:view", "job_line:view"})
            \subseteq GridRows
       /\ Cells(0, FALSE, Office, {"admin_site:view", "user_account:view",
            "user_account:create", "user_account:edit"}) \subseteq GridRows
       /\ Cells(0, FALSE, Managers, {"role_assignment:create", "role_assignment:delete",
            "transition_rule:view", "transition_rule:edit", "audit_log:view"})
            \subseteq GridRows
       /\ Cells(0, FALSE, Managers \cup {"SALES", "PURCH", "ACCT"}, {"client:view"})
            \subseteq GridRows
       /\ Cells(0, FALSE, Office \cup {"SALES"}, {"client:create"}) \subseteq GridRows
       /\ Cells(0, FALSE, Managers \cup {"SALES", "ACCT"}, {"quotation:view"}) \subseteq
            GridRows
       /\ Cells(0, FALSE, Sellers, {"client:edit", "job_card:create", "job_card:edit",
            "job_card:cancel", "job_line:create", "job_line:edit", "quotation:edit"})
            \subseteq GridRows
       /\ Cells(0, FALSE, {"OWNER", "ACCT"}, {"quotation:create", "sheet_export:view"})
            \subseteq GridRows
       /\ Cells(1, FALSE, Office, {"employee:view", "employee:create", "employee:edit",
            "employee:delete"}) \subseteq GridRows
       /\ Cells(2, FALSE, {"OWNER", "HR"}, {"employee_document:view"}) \subseteq GridRows
       /\ Cells(0, TRUE, GridRoles, {"password:edit"}) \subseteq GridRows
       /\ Cells(0, TRUE, GridRoles \ Office, {"employee:view"}) \subseteq GridRows
       /\ Cells(0, TRUE, {"SALES"}, {"job_card:view", "job_line:view"}) \subseteq GridRows
  BY <1>1, <1>2, <1>3, <1>4, <1>5, <1>6, <1>7, <1>8, <1>9, <1>10, <1>11, <1>12, <1>13, <1>14, <1>15,
     CellsAllowed, Zenon
<1> QED BY <1>16 DEF GRID

---------------------------------------------------------------------------
\* The grids of earlier releases.

Previous(grid, n) == (grid \ Brought(n)) \cup Took(n)
\* The recursion of GridOf, one release at a time.
LEMMA GridSteps ==
  /\ GridOf[10] = GRID
  /\ \A n \in 2..9 : GridOf[n] = Previous(GridOf[n + 1], n + 1)
<1> DEFINE eq(f) == f = [n \in First..Latest |->
                           IF n = Latest THEN GRID ELSE (f[n + 1] \ Brought(n + 1)) \cup Took(n + 1)]
           g9 == Previous(GRID, 10)
           g8 == Previous(g9, 9)
           g7 == Previous(g8, 8)
           g6 == Previous(g7, 7)
           g5 == Previous(g6, 6)
           g4 == Previous(g5, 5)
           g3 == Previous(g4, 4)
           g2 == Previous(g3, 3)
           w == [n \in First..Latest |->
                  IF n = 10 THEN GRID ELSE IF n = 9 THEN g9 ELSE IF n = 8 THEN g8
                  ELSE IF n = 7 THEN g7 ELSE IF n = 6 THEN g6 ELSE IF n = 5 THEN g5
                  ELSE IF n = 4 THEN g4 ELSE IF n = 3 THEN g3 ELSE g2]
<1>0. First..Latest = 2..10 /\ Latest = 10
  BY DEF First, Latest
<1>1. eq(w)
  <2> HIDE DEF g2, g3, g4, g5, g6, g7, g8, g9
  <2>1. \A n \in 2..9 : w[n] = Previous(w[n + 1], n + 1)
    <3>1. /\ w[10] = GRID /\ w[9] = g9 /\ w[8] = g8 /\ w[7] = g7 /\ w[6] = g6
          /\ w[5] = g5 /\ w[4] = g4 /\ w[3] = g3 /\ w[2] = g2
      BY <1>0
    <3> HIDE DEF w
    <3> QED BY <3>1 DEF g2, g3, g4, g5, g6, g7, g8, g9
  <2>2. w[10] = GRID
    BY <1>0
  <2>3. w = [n \in First..Latest |-> w[n]]
    OBVIOUS
  <2> HIDE DEF w
  <2>4. \A n \in First..Latest :
          w[n] = IF n = Latest THEN GRID ELSE (w[n + 1] \ Brought(n + 1)) \cup Took(n + 1)
    <3> SUFFICES ASSUME NEW n \in 2..10
                 PROVE  w[n] = IF n = Latest THEN GRID ELSE Previous(w[n + 1], n + 1)
      BY <1>0 DEF Previous
    <3>1. CASE n = 10
      BY <1>0, <2>2, <3>1
    <3>2. CASE n \in 2..9
      BY <1>0, <2>1, <3>2
    <3> QED BY <3>1, <3>2
  <2> QED BY <2>3, <2>4, Zenon
<1> HIDE DEF w
<1> DEFINE grid == CHOOSE f : eq(f)
<1>2. eq(grid)
  <2>1. \E f : eq(f)
    BY <1>1
  <2> HIDE DEF eq
  <2> QED BY <2>1
<1>3. GridOf = [n \in First..Latest |-> grid[n]]
  BY DEF GridOf
<1> HIDE DEF grid
<1> QED BY <1>0, <1>2, <1>3 DEF Previous

\* Before 0008 SALES sees every card; the rest of the grid is as now.
OldGridRows ==
  {g \in Grants : /\ g.ifOwner <=> (OwnRowsOnly(g.role, g.on)
                                    /\ ~(g.on \in JobViews /\ g.role = "SALES"))
                  /\ g.on \in JobViews => g.level = 0}

LEMMA RowsFit ==
  ASSUME NEW held, held \subseteq GridRows \/ held \subseteq OldGridRows
  PROVE  GrantsFit(held)
<1>1. held \subseteq Grants
  BY DEF GridRows, OldGridRows
<1>2. ASSUME NEW a \in held, NEW b \in held, SameKey(a, b) PROVE a = b
  <2>1. a.ifOwner <=> b.ifOwner
    BY <1>2 DEF SameKey, GridRows, OldGridRows
  <2>2. a \in Grants /\ b \in Grants
    BY <1>1
  <2> QED BY <1>2, <2>1, <2>2 DEF SameKey, Grants
<1> QED BY <1>1, <1>2 DEF GrantsFit

\* What a migration took from the grid, as rows.
LEMMA TookRows ==
  /\ Took(10) = {} /\ Took(6) = {} /\ Took(5) = {} /\ Took(4) = {} /\ Took(3) = {}
  /\ Took(9) \subseteq GridRows /\ Took(9) \subseteq OldGridRows
  /\ Took(8) \subseteq OldGridRows /\ Took(7) \subseteq OldGridRows
<1> USE DEF Cells, GridRows, OldGridRows, OwnRowsOnly, Grants, GridRoles,
            JobViews, Office, Managers, Sellers
<1>1. Took(10) = {} /\ Took(6) = {} /\ Took(5) = {} /\ Took(4) = {} /\ Took(3) = {}
  BY DEF Took
<1>2. /\ \A r \in {"OWNER"}, p \in {"quotation:approve"} \cap Permissions :
            RowOf(0, FALSE, r, p) \in GridRows \cap OldGridRows
      /\ \A r \in Sellers, p \in {"quotation:share"} \cap Permissions :
            RowOf(0, FALSE, r, p) \in GridRows \cap OldGridRows
      /\ \A p \in {"job_card:view", "job_line:view"} \cap Permissions :
            RowOf(0, FALSE, "SALES", p) \in OldGridRows
      /\ \A p \in {"quotation:create"} \cap Permissions :
            RowOf(0, FALSE, "SALES", p) \in OldGridRows
  BY DEF RowOf
<1> HIDE DEF GridRows, OldGridRows, Sellers, Cells
<1>3. Took(9) \subseteq GridRows /\ Took(9) \subseteq OldGridRows
  <2>1. Took(9) = Cells(0, FALSE, {"OWNER"}, {"quotation:approve"})
                  \cup Cells(0, FALSE, Sellers, {"quotation:share"})
    BY DEF Took
  <2> QED BY <1>2, <2>1 DEF Cells, RowOf
<1>4. Took(8) \subseteq OldGridRows
  <2>1. Took(8) = Cells(0, FALSE, {"SALES"}, {"job_card:view", "job_line:view"})
    BY DEF Took
  <2> QED BY <1>2, <2>1 DEF Cells, RowOf
<1>5. Took(7) \subseteq OldGridRows
  <2>1. Took(7) = Cells(0, FALSE, {"SALES"}, {"quotation:create"})
    BY DEF Took
  <2> QED BY <1>2, <2>1 DEF Cells, RowOf
<1> QED BY <1>1, <1>3, <1>4, <1>5

\* The grid of every release has one row of a key.
LEMMA EveryGridFits ==
  ASSUME NEW n \in 2..10
  PROVE  GrantsFit(GridOf[n])
<1> DEFINE Now(k) == GridOf[k] \subseteq GridRows
           Then(k) == GridOf[k] \subseteq OldGridRows
<1>1. Now(10) /\ Now(9) /\ Now(8)
  BY GridSteps, GridFits, TookRows DEF Previous
<1>2. Then(7)
  <2>1. \A g \in GridRows : g \notin Brought(8) => g \in OldGridRows
    <3>1. Brought(8) = Cells(0, TRUE, {"SALES"}, JobViews)
      BY DEF Brought, JobViews
    <3> SUFFICES ASSUME NEW g \in GridRows, g \notin OldGridRows PROVE g \in Brought(8)
      OBVIOUS
    <3>2. g.role = "SALES" /\ g.on \in JobViews /\ g \in Grants
      BY DEF GridRows, OldGridRows
    <3>3. g.level = 0 /\ g.ifOwner = TRUE
      BY <3>2 DEF GridRows, OwnRowsOnly, Grants
    <3>4. g = [role |-> "SALES", on |-> g.on, level |-> 0, ifOwner |-> TRUE]
      BY <3>2, <3>3 DEF Grants
    <3>5. g.on \in Permissions
      BY <3>2 DEF Grants
    <3> QED BY <3>1, <3>2, <3>4, <3>5 DEF Cells
  <2>2. GridOf[7] = (GridOf[8] \ Brought(8)) \cup Took(8)
    BY GridSteps DEF Previous
  <2> QED BY <1>1, <2>1, <2>2, TookRows
<1>3. Then(6) /\ Then(5) /\ Then(4) /\ Then(3) /\ Then(2)
  BY <1>2, GridSteps, TookRows DEF Previous
<1> HIDE DEF Now, Then
<1>4. Now(n) \/ Then(n)
  BY <1>1, <1>2, <1>3
<1> QED BY <1>4, RowsFit DEF Now, Then

---------------------------------------------------------------------------
\* The migrations of the grid, forwards and backwards.

LEMMA UpsertFits ==
  ASSUME NEW held, NEW more, GrantsFit(held), GrantsFit(more)
  PROVE  GrantsFit(Upsert(held, more))
BY DEF GrantsFit, Upsert, SameKey

LEMMA PartFits ==
  ASSUME NEW held, GrantsFit(held), NEW part \in SUBSET held
  PROVE  GrantsFit(part)
BY DEF GrantsFit

LEMMA WithOwnerFits ==
  ASSUME NEW held, GrantsFit(held), NEW ifOwner \in BOOLEAN
  PROVE  GrantsFit(WithOwner(held, ifOwner))
<1> DEFINE to(g) == IF g.role = "SALES" /\ g.on \in {"job_card:view", "job_line:view"}
                    THEN [g EXCEPT !.ifOwner = ifOwner] ELSE g
<1>1. \A g \in held : to(g) \in Grants /\ SameKey(to(g), g)
  BY DEF GrantsFit, Grants, SameKey
<1>2. \A g, h \in held : SameKey(to(g), to(h)) => SameKey(g, h)
  BY <1>1 DEF SameKey
<1>3. WithOwner(held, ifOwner) = {to(g) : g \in held}
  BY DEF WithOwner
<1> HIDE DEF to
<1> QED BY <1>1, <1>2, <1>3 DEF GrantsFit

\* One migration of the grid, of the nine there are.
LEMMA SeedGridFits ==
  ASSUME NEW n \in 2..10, NEW held, NEW grid, GrantsFit(held), GrantsFit(grid)
  PROVE  GrantsFit(SeedGrid(n, held, grid))
<1> DEFINE new == SeedGrid(n, held, grid)
           some == {g \in OnPermission(grid, "client:create") : g.role \in {"ADMIN", "HR"}}
<1>1. \A on : GrantsFit(OnPermission(grid, on))
  BY PartFits DEF OnPermission
<1>2. GrantsFit(some)
  BY <1>1, PartFits
<1>3. \A roles, ons : GrantsFit(Without(held, roles, ons))
  BY PartFits DEF Without
<1>4. GrantsFit(WithOwner(held, TRUE))
  <2>1. TRUE \in BOOLEAN
    OBVIOUS
  <2> QED BY <2>1, WithOwnerFits, Zenon
<1>5. n = 2 => new = Upsert(held, grid)
  BY DEF SeedGrid
<1>6. n = 3 => new = Upsert(held, OnPermission(grid, "user_account:view"))
  BY DEF SeedGrid
<1>7. n = 4 => new = Upsert(held, OnPermission(grid, "employee:delete"))
  BY DEF SeedGrid
<1>8. n = 5 => new = Upsert(held, OnPermission(grid, "quotation:create"))
  BY DEF SeedGrid
<1>9. n = 6 => new = Upsert(held, some)
  BY DEF SeedGrid
<1>10. n = 7 => new = Without(held, {"SALES"}, {"quotation:create"})
  BY DEF SeedGrid
<1>11. n = 8 => new = WithOwner(held, TRUE)
  BY DEF SeedGrid
<1>12. n = 9 => new = Without(held, GridRoles, {"quotation:approve", "quotation:share"})
  BY DEF SeedGrid
<1>13. n = 10 => new = Upsert(held, OnPermission(grid, "sheet_export:view"))
  BY DEF SeedGrid
<1> HIDE DEF new, some
<1>14. n \in {2, 3, 4, 5, 6, 7, 8, 9, 10}
  OBVIOUS
<1>15. \A more : GrantsFit(more) => GrantsFit(Upsert(held, more))
  BY UpsertFits
<1>16. GrantsFit(new)
  BY <1>1, <1>2, <1>3, <1>4, <1>5, <1>6, <1>7, <1>8, <1>9, <1>10, <1>11, <1>12, <1>13, <1>14, <1>15, Zenon
<1> QED BY <1>16 DEF new

\* One reverse migration; 0002 is never taken back.
LEMMA UnseedGridFits ==
  ASSUME NEW n \in 3..10, NEW held, GrantsFit(held)
  PROVE  GrantsFit(UnseedGrid(n, held))
<1> DEFINE new == UnseedGrid(n, held)
<1>1. \A roles, ons : GrantsFit(Without(held, roles, ons))
  BY PartFits DEF Without
<1>2. GrantsFit(WithOwner(held, FALSE))
  <2>1. FALSE \in BOOLEAN
    OBVIOUS
  <2> QED BY <2>1, WithOwnerFits, Zenon
<1>3. GrantsFit(Took(7)) /\ GrantsFit(Took(9))
  BY TookRows, RowsFit
<1>4. n = 3 => new = Without(held, GridRoles, {"user_account:view"})
  BY DEF UnseedGrid
<1>5. n = 4 => new = Without(held, GridRoles, {"employee:delete"})
  BY DEF UnseedGrid
<1>6. n = 5 => new = Without(held, {"ACCT"}, {"quotation:create"})
  BY DEF UnseedGrid
<1>7. n = 6 => new = Without(held, {"ADMIN", "HR"}, {"client:create"})
  BY DEF UnseedGrid
<1>8. n = 7 => new = Upsert(held, Took(7))
  BY DEF UnseedGrid, Took
<1>9. n = 8 => new = WithOwner(held, FALSE)
  BY DEF UnseedGrid
<1>10. n = 9 => new = Upsert(held, Took(9))
  BY DEF UnseedGrid
<1>11. n = 10 => new = Without(held, GridRoles, {"sheet_export:view"})
  BY DEF UnseedGrid
<1> HIDE DEF new
<1>12. n \in {3, 4, 5, 6, 7, 8, 9, 10}
  OBVIOUS
<1>13. GrantsFit(Upsert(held, Took(7))) /\ GrantsFit(Upsert(held, Took(9)))
  BY <1>3, UpsertFits
<1>14. GrantsFit(new)
  BY <1>1, <1>2, <1>4, <1>5, <1>6, <1>7, <1>8, <1>9, <1>10, <1>11, <1>12, <1>13, Zenon
<1> QED BY <1>14 DEF new

LEMMA RolesFinite == IsFiniteSet(GridRoles) /\ IsFiniteSet(0..2)
<1> DEFINE f == [i \in 1..9 |-> CASE i = 1 -> "OWNER" [] i = 2 -> "ADMIN" [] i = 3 -> "HR"
                   [] i = 4 -> "SALES" [] i = 5 -> "DESIGN" [] i = 6 -> "PROD"
                   [] i = 7 -> "PURCH" [] i = 8 -> "STORE" [] i = 9 -> "ACCT"]
<1>1. IsFiniteSet(1..9) /\ IsFiniteSet(0..2)
  <2>1. 1 \in Int /\ 9 \in Int /\ 0 \in Int /\ 2 \in Int
    OBVIOUS
  <2> QED BY <2>1, FS_Interval, Zenon
<1>2. f \in Surjection(1..9, GridRoles)
  BY DEF Surjection, GridRoles
<1> QED BY <1>1, <1>2, FS_Surjection

\* Rows that fit are as many as their keys.
LEMMA GrantKeys ==
  ASSUME DeployAssumption, NEW held, GrantsFit(held)
  PROVE  Cardinality({<<g.role, g.on, g.level>> : g \in held}) = Cardinality(held)
<1> DEFINE key == [g \in held |-> <<g.role, g.on, g.level>>]
           pair == [g \in held |-> <<g.role, <<g.on, g.level>>>>]
           K == GridRoles \X (Permissions \X (0..2))
<1>1. IsFiniteSet(K)
  BY RolesFinite, FS_Product DEF DeployAssumption, GridAssumption
<1>2. \A g \in held : pair[g] \in K
  BY DEF GrantsFit, Grants
<1>3. \A a, b \in held : pair[a] = pair[b] => a = b
  BY DEF GrantsFit, SameKey
<1>4. IsFiniteSet(held)
  <2> HIDE DEF pair, K
  <2> QED BY <1>1, <1>2, <1>3, FiniteByKey
<1>5. \A a, b \in held : key[a] = key[b] => a = b
  BY DEF GrantsFit, SameKey
<1>6. {<<g.role, g.on, g.level>> : g \in held} = {key[g] : g \in held}
  OBVIOUS
<1> HIDE DEF key
<1> QED BY <1>4, <1>5, <1>6, KeysAsRows

---------------------------------------------------------------------------
\* The stage graph.

GraphActions == {"quote", "cancel", "negotiate", "rework", "lose", "confirm"}
Verdicts == {"none", "won", "lost", "cancelled"}
RuleRows ==
  [from : SeededStages, action : GraphActions, role : SeededRoles, to : SeededStages,
   selfApproval : BOOLEAN, needsNote : BOOLEAN, condition : {"none", "quoted"}]

Graphs ==
  [rules : SUBSET RuleRows, active : SUBSET SeededStages, hides : SUBSET SeededStages,
   cascades : [SeededStages -> Verdicts]]

SameEdge(a, b) == a.from = b.from /\ a.action = b.action /\ a.role = b.role

\* Rows the unique key of pipeline_transition_rules lets stand together.
RulesFit(rules) ==
  /\ rules \subseteq RuleRows
  /\ \A a, b \in rules : SameEdge(a, b) => a = b

\* Where an action of 0003 leads from a stage.
Leads(from, action) ==
  IF action = "quote" THEN "QUOTATION"
  ELSE IF action = "cancel" THEN "CANCELLED"
  ELSE IF action = "negotiate" THEN "NEGOTIATION"
  ELSE IF action = "lose" THEN "LOST"
  ELSE IF action = "confirm" THEN "ORDER_CONFIRMED"
  ELSE IF from = "QUOTATION" THEN "ENQUIRY" ELSE "QUOTATION"

NoteOf(action) == IF action \in {"quote", "negotiate", "confirm"} THEN FALSE ELSE TRUE

FirstRow(from, action, role) ==
  [from |-> from, action |-> action, role |-> role, to |-> Leads(from, action),
   selfApproval |-> TRUE, needsNote |-> NoteOf(action), condition |-> "none"]

FirstRows ==
  {FirstRow(from, action, role) : from \in SeededStages, action \in GraphActions,
                                  role \in SeededRoles}

\* The rules of 0003 have one row for an edge and a role.
LEMMA FirstRowsFit ==
  ASSUME NEW rules \in SUBSET FirstRows
  PROVE  RulesFit(rules)
<1>1. ASSUME NEW a \in rules
      PROVE  /\ a = FirstRow(a.from, a.action, a.role)
             /\ a.from \in SeededStages /\ a.action \in GraphActions /\ a.role \in SeededRoles
  <2>1. PICK from \in SeededStages, action \in GraphActions, role \in SeededRoles :
          a = FirstRow(from, action, role)
    BY DEF FirstRows
  <2>2. a.from = from /\ a.action = action /\ a.role = role
    BY <2>1 DEF FirstRow
  <2> QED BY <2>1, <2>2
<1>2. ASSUME NEW from \in SeededStages, NEW action \in GraphActions, NEW role \in SeededRoles
      PROVE  FirstRow(from, action, role) \in RuleRows
  <2>1. Leads(from, action) \in SeededStages
    BY DEF Leads, SeededStages
  <2>2. NoteOf(action) \in BOOLEAN
    BY DEF NoteOf
  <2> QED BY <2>1, <2>2 DEF FirstRow, RuleRows
<1>3. rules \subseteq RuleRows
  BY <1>2 DEF FirstRows
<1>4. \A a, b \in rules : SameEdge(a, b) => a = b
  BY <1>1, Zenon DEF SameEdge
<1> QED BY <1>3, <1>4 DEF RulesFit

Led(from, action, to, roles, needsNote) ==
  /\ from \in SeededStages /\ action \in GraphActions /\ roles \subseteq SeededRoles
  /\ to = Leads(from, action) /\ needsNote = NoteOf(action)

LEMMA LedRows ==
  ASSUME NEW from, NEW action, NEW to, NEW roles, NEW needsNote,
         Led(from, action, to, roles, needsNote)
  PROVE  Row(from, action, to, roles, needsNote, "none") \subseteq FirstRows
BY DEF Led, Row, FirstRows, FirstRow

LEMMA FirstRulesFit == FirstRules \subseteq FirstRows
<1> USE DEF Led, NoteOf, SeededStages, GraphActions, SeededRoles, Leads
<1>1. Led("ENQUIRY", "quote", "QUOTATION", {"SALES", "OWNER"}, FALSE)
  OBVIOUS
<1>2. Led("ENQUIRY", "cancel", "CANCELLED", {"SALES", "OWNER"}, TRUE)
  OBVIOUS
<1>3. Led("QUOTATION", "negotiate", "NEGOTIATION", {"SALES", "OWNER"}, FALSE)
  OBVIOUS
<1>4. Led("QUOTATION", "rework", "ENQUIRY", {"SALES", "OWNER"}, TRUE)
  OBVIOUS
<1>5. Led("QUOTATION", "lose", "LOST", {"SALES", "OWNER"}, TRUE)
  OBVIOUS
<1>6. Led("QUOTATION", "cancel", "CANCELLED", {"SALES", "OWNER"}, TRUE)
  OBVIOUS
<1>7. Led("NEGOTIATION", "confirm", "ORDER_CONFIRMED", {"OWNER"}, FALSE)
  OBVIOUS
<1>8. Led("NEGOTIATION", "rework", "QUOTATION", {"SALES", "OWNER"}, TRUE)
  OBVIOUS
<1>9. Led("NEGOTIATION", "lose", "LOST", {"SALES", "OWNER"}, TRUE)
  OBVIOUS
<1>10. Led("NEGOTIATION", "cancel", "CANCELLED", {"SALES", "OWNER"}, TRUE)
  OBVIOUS
<1>11. Led("ORDER_CONFIRMED", "cancel", "CANCELLED", {"OWNER"}, TRUE)
  OBVIOUS
<1> HIDE DEF Led
<1>12. /\ Row("ENQUIRY", "quote", "QUOTATION", {"SALES", "OWNER"}, FALSE, "none") \subseteq
            FirstRows
       /\ Row("ENQUIRY", "cancel", "CANCELLED", {"SALES", "OWNER"}, TRUE, "none") \subseteq
            FirstRows
       /\ Row("QUOTATION", "negotiate", "NEGOTIATION", {"SALES", "OWNER"}, FALSE, "none")
            \subseteq FirstRows
       /\ Row("QUOTATION", "rework", "ENQUIRY", {"SALES", "OWNER"}, TRUE, "none") \subseteq
            FirstRows
       /\ Row("QUOTATION", "lose", "LOST", {"SALES", "OWNER"}, TRUE, "none") \subseteq
            FirstRows
       /\ Row("QUOTATION", "cancel", "CANCELLED", {"SALES", "OWNER"}, TRUE, "none")
            \subseteq FirstRows
       /\ Row("NEGOTIATION", "confirm", "ORDER_CONFIRMED", {"OWNER"}, FALSE, "none")
            \subseteq FirstRows
       /\ Row("NEGOTIATION", "rework", "QUOTATION", {"SALES", "OWNER"}, TRUE, "none")
            \subseteq FirstRows
       /\ Row("NEGOTIATION", "lose", "LOST", {"SALES", "OWNER"}, TRUE, "none") \subseteq
            FirstRows
       /\ Row("NEGOTIATION", "cancel", "CANCELLED", {"SALES", "OWNER"}, TRUE, "none")
            \subseteq FirstRows
       /\ Row("ORDER_CONFIRMED", "cancel", "CANCELLED", {"OWNER"}, TRUE, "none") \subseteq
            FirstRows
  BY <1>1, <1>2, <1>3, <1>4, <1>5, <1>6, <1>7, <1>8, <1>9, <1>10, <1>11,
     LedRows, Zenon
<1> QED BY <1>12 DEF FirstRules

---------------------------------------------------------------------------
\* The migrations of the graph, forwards and backwards.

LEMMA UpsertRulesFits ==
  ASSUME NEW rules, NEW more, RulesFit(rules), RulesFit(more)
  PROVE  RulesFit(UpsertRules(rules, more))
BY DEF RulesFit, UpsertRules, SameEdge

LEMMA SomeRulesFit ==
  ASSUME NEW rules, RulesFit(rules), NEW part \in SUBSET rules
  PROVE  RulesFit(part)
BY DEF RulesFit

\* Rows given the conditions of the rules they replace.
LEMMA KeepingFits ==
  ASSUME NEW rules, NEW more, RulesFit(rules), RulesFit(more)
  PROVE  /\ RulesFit(KeepingConditions(rules, more))
         /\ \A a \in KeepingConditions(rules, more) : \E b \in more : SameEdge(a, b)
<1> DEFINE old(b) == {a \in rules : a.from = b.from /\ a.action = b.action /\ a.role = b.role}
           cond(b) == (CHOOSE a \in old(b) : TRUE).condition
           to(b) == IF old(b) = {} THEN b ELSE [b EXCEPT !.condition = cond(b)]
<1>1. \A b \in more : old(b) # {} => cond(b) \in {"none", "quoted"}
  <2> SUFFICES ASSUME NEW b \in more, old(b) # {} PROVE cond(b) \in {"none", "quoted"}
    OBVIOUS
  <2>1. (CHOOSE a \in old(b) : TRUE) \in old(b)
    OBVIOUS
  <2>2. (CHOOSE a \in old(b) : TRUE) \in RuleRows
    BY <2>1 DEF RulesFit
  <2> QED BY <2>2 DEF RuleRows
<1>2. KeepingConditions(rules, more) = {to(b) : b \in more}
  BY DEF KeepingConditions
<1> HIDE DEF old, cond
<1>3. \A b \in more : to(b) \in RuleRows /\ SameEdge(to(b), b)
  BY <1>1 DEF RulesFit, RuleRows, SameEdge
<1> HIDE DEF to
<1>4. \A a, b \in more : SameEdge(to(a), to(b)) => a = b
  BY <1>3 DEF RulesFit, SameEdge
<1> QED BY <1>2, <1>3, <1>4 DEF RulesFit

LEMMA NegotiateFits ==
  ASSUME NEW g \in Graphs, RulesFit(g.rules), NEW condition \in {"none", "quoted"}
  PROVE  /\ WithNegotiateCondition(g, condition) \in Graphs
         /\ RulesFit(WithNegotiateCondition(g, condition).rules)
<1> DEFINE to(r) == IF r.from = "QUOTATION" /\ r.action = "negotiate"
                    THEN [r EXCEPT !.condition = condition] ELSE r
           new == WithNegotiateCondition(g, condition)
<1>1. new = [g EXCEPT !.rules = {to(r) : r \in g.rules}]
  BY DEF WithNegotiateCondition
<1>2. \A r \in g.rules : to(r) \in RuleRows /\ SameEdge(to(r), r)
  BY DEF RulesFit, RuleRows, SameEdge
<1> HIDE DEF to, new
<1>3. \A a, b \in g.rules : SameEdge(to(a), to(b)) => a = b
  BY <1>2 DEF RulesFit, SameEdge
<1>4. RulesFit({to(r) : r \in g.rules})
  BY <1>2, <1>3 DEF RulesFit
<1>5. new \in Graphs /\ new.rules = {to(r) : r \in g.rules}
  BY <1>1, <1>4 DEF Graphs, RulesFit
<1> QED BY <1>4, <1>5 DEF new

\* The rows of one edge.
LEMMA EdgeFits ==
  ASSUME NEW from \in SeededStages, NEW action \in GraphActions, NEW to \in SeededStages,
         NEW roles \in SUBSET SeededRoles, NEW needsNote \in BOOLEAN,
         NEW condition \in {"none", "quoted"}
  PROVE  /\ RulesFit(Row(from, action, to, roles, needsNote, condition))
         /\ \A r \in Row(from, action, to, roles, needsNote, condition) : r.from = from
<1> DEFINE row(role) == [from |-> from, action |-> action, role |-> role, to |-> to,
                         selfApproval |-> TRUE, needsNote |-> needsNote,
                         condition |-> condition]
           more == Row(from, action, to, roles, needsNote, condition)
<1>1. more = {row(role) : role \in roles}
  BY DEF Row
<1>2. \A role \in roles : row(role) \in RuleRows /\ row(role).from = from /\ row(role).role = role
  BY DEF RuleRows
<1> HIDE DEF row, more
<1>3. \A a, b \in more : a.role = b.role => a = b
  BY <1>1, <1>2
<1>4. RulesFit(more) /\ \A r \in more : r.from = from
  BY <1>1, <1>2, <1>3 DEF RulesFit, SameEdge
<1> QED BY <1>4 DEF more

LEMMA BothFit ==
  ASSUME NEW rules, NEW more, RulesFit(rules), RulesFit(more),
         \A a \in rules, b \in more : a.from # b.from
  PROVE  RulesFit(rules \cup more)
BY DEF RulesFit, SameEdge

GraphFits(g) == g \in Graphs /\ RulesFit(g.rules)

LEMMA FirstFits == ASSUME NEW g, GraphFits(g) PROVE GraphFits(SeedFirst(g))
<1> DEFINE rules == UpsertRules(g.rules, KeepingConditions(g.rules, FirstRules))
<1>1. RulesFit(rules)
  BY FirstRulesFit, FirstRowsFit, KeepingFits, UpsertRulesFits DEF GraphFits
<1>2. SeedFirst(g) = [g EXCEPT !.rules = rules, !.active = SeededStages]
  BY DEF SeedFirst
<1> HIDE DEF rules
<1>3. SeededStages \in SUBSET SeededStages
  OBVIOUS
<1> QED BY <1>1, <1>2, <1>3 DEF GraphFits, Graphs, RulesFit

LEMMA NegotiateSeedFits == ASSUME NEW g, GraphFits(g) PROVE GraphFits(SeedNegotiate(g))
<1> DEFINE more == Row("QUOTATION", "negotiate", "NEGOTIATION", {"ACCT"}, FALSE, "none")
           rules == UpsertRules(g.rules, KeepingConditions(g.rules, more))
<1>1. RulesFit(more)
  <2>1. /\ "QUOTATION" \in SeededStages /\ "NEGOTIATION" \in SeededStages
        /\ "negotiate" \in GraphActions /\ {"ACCT"} \in SUBSET SeededRoles
        /\ "none" \in {"none", "quoted"} /\ FALSE \in BOOLEAN
    BY DEF SeededStages, GraphActions, SeededRoles
  <2> QED BY <2>1, EdgeFits, Zenon
<1> HIDE DEF more
<1>2. RulesFit(rules)
  BY <1>1, KeepingFits, UpsertRulesFits DEF GraphFits
<1>3. SeedNegotiate(g) = [g EXCEPT !.rules = rules]
  BY DEF SeedNegotiate, more
<1> HIDE DEF rules
<1> QED BY <1>2, <1>3 DEF GraphFits, Graphs, RulesFit

LEMMA MergeFits == ASSUME NEW g, GraphFits(g) PROVE GraphFits(SeedMerge(g))
<1> DEFINE confirm == Row("QUOTATION", "confirm", "ORDER_CONFIRMED", {"OWNER"}, FALSE, "quoted")
           quote == Row("ENQUIRY", "quote", "QUOTATION", {"ACCT"}, FALSE, "none")
           kept == KeepingConditions(g.rules, quote)
           left == WithoutEdges(WithoutEdges(g.rules, "QUOTATION", {"negotiate"}), "NEGOTIATION",
                                {"confirm", "rework", "lose", "cancel"})
           rules == UpsertRules(left, confirm \cup kept)
<1>1. /\ RulesFit(confirm) /\ \A r \in confirm : r.from = "QUOTATION"
      /\ RulesFit(quote) /\ \A r \in quote : r.from = "ENQUIRY"
  <2>1. /\ "QUOTATION" \in SeededStages /\ "ORDER_CONFIRMED" \in SeededStages
        /\ "ENQUIRY" \in SeededStages
        /\ "confirm" \in GraphActions /\ "quote" \in GraphActions
        /\ {"OWNER"} \in SUBSET SeededRoles /\ {"ACCT"} \in SUBSET SeededRoles
        /\ "none" \in {"none", "quoted"} /\ "quoted" \in {"none", "quoted"} /\ FALSE \in BOOLEAN
    BY DEF SeededStages, GraphActions, SeededRoles
  <2> QED BY <2>1, EdgeFits, Zenon
<1>2. RulesFit(left)
  BY SomeRulesFit DEF GraphFits, WithoutEdges
<1>3. SeedMerge(g) = [g EXCEPT !.rules = rules, !.active = g.active \ {"NEGOTIATION"}]
  BY DEF SeedMerge
<1> HIDE DEF confirm, quote
<1>4. RulesFit(kept) /\ \A r \in kept : r.from = "ENQUIRY"
  BY <1>1, KeepingFits DEF GraphFits, SameEdge
<1> HIDE DEF kept, left
<1>5. RulesFit(rules)
  <2>1. \A a \in confirm, b \in kept : a.from # b.from
    BY <1>1, <1>4
  <2>2. RulesFit(confirm \cup kept)
    BY <1>1, <1>4, <2>1, BothFit
  <2> QED BY <1>2, <2>2, UpsertRulesFits
<1> HIDE DEF rules
<1>6. g.active \ {"NEGOTIATION"} \in SUBSET SeededStages
  BY DEF GraphFits, Graphs
<1> QED BY <1>3, <1>5, <1>6 DEF GraphFits, Graphs, RulesFit

LEMMA UnmergeFits == ASSUME NEW g, GraphFits(g) PROVE GraphFits(UnseedMerge(g))
<1> DEFINE back == {r \in FirstRules : r.from = "NEGOTIATION"}
           negotiate == Row("QUOTATION", "negotiate", "NEGOTIATION", {"SALES", "OWNER", "ACCT"},
                            FALSE, "quoted")
           left == {r \in WithoutEdges(g.rules, "QUOTATION", {"confirm"}) :
                      ~(r.from = "ENQUIRY" /\ r.action = "quote" /\ r.role = "ACCT")}
           rules == UpsertRules(left, back \cup negotiate)
<1>1. RulesFit(back) /\ \A r \in back : r.from = "NEGOTIATION"
  <2>1. back \in SUBSET FirstRows
    BY FirstRulesFit
  <2> QED BY <2>1, FirstRowsFit
<1>2. RulesFit(negotiate) /\ \A r \in negotiate : r.from = "QUOTATION"
  <2>1. /\ "QUOTATION" \in SeededStages /\ "NEGOTIATION" \in SeededStages
        /\ "negotiate" \in GraphActions /\ {"SALES", "OWNER", "ACCT"} \in SUBSET SeededRoles
        /\ "quoted" \in {"none", "quoted"} /\ FALSE \in BOOLEAN
    BY DEF SeededStages, GraphActions, SeededRoles
  <2> QED BY <2>1, EdgeFits, Zenon
<1>3. RulesFit(left)
  BY SomeRulesFit DEF GraphFits, WithoutEdges
<1>4. UnseedMerge(g) = [g EXCEPT !.rules = rules, !.active = g.active \cup {"NEGOTIATION"}]
  BY DEF UnseedMerge
<1> HIDE DEF back, negotiate, left
<1>5. RulesFit(rules)
  <2>1. \A a \in back, b \in negotiate : a.from # b.from
    BY <1>1, <1>2
  <2>2. RulesFit(back \cup negotiate)
    BY <1>1, <1>2, <2>1, BothFit
  <2> QED BY <1>3, <2>2, UpsertRulesFits
<1> HIDE DEF rules
<1>6. g.active \cup {"NEGOTIATION"} \in SUBSET SeededStages
  BY DEF GraphFits, Graphs, SeededStages
<1> QED BY <1>4, <1>5, <1>6 DEF GraphFits, Graphs, RulesFit

LEMMA CascadeFits ==
  ASSUME NEW g, GraphFits(g), NEW stages, NEW statusOf \in [SeededStages -> Verdicts]
  PROVE  GraphFits(WithCascade(g, stages, statusOf))
<1> DEFINE cascades == [s \in SeededStages |-> IF s \in stages THEN statusOf[s] ELSE g.cascades[s]]
<1>1. cascades \in [SeededStages -> Verdicts]
  BY DEF GraphFits, Graphs
<1>2. WithCascade(g, stages, statusOf) = [g EXCEPT !.cascades = cascades]
  BY DEF WithCascade
<1> HIDE DEF cascades
<1> QED BY <1>1, <1>2 DEF GraphFits, Graphs

LEMMA HidesFits ==
  ASSUME NEW g, GraphFits(g), NEW hides \in SUBSET SeededStages
  PROVE  GraphFits([g EXCEPT !.hides = hides])
BY DEF GraphFits, Graphs

LEMMA VerdictsOf ==
  SeededCascades \in [SeededStages -> Verdicts] /\ Nothing \in [SeededStages -> Verdicts]
BY DEF SeededCascades, Nothing, Verdicts

\* One migration of the graph, of the seven there are.
LEMMA SeedStagesFits ==
  ASSUME NEW n \in 3..9, NEW g, GraphFits(g)
  PROVE  GraphFits(SeedStages(n, g))
<1> DEFINE new == SeedStages(n, g)
<1>1. n = 3 => new = SeedFirst(g)
  BY DEF SeedStages
<1>2. n = 4 => new = SeedNegotiate(g)
  BY DEF SeedStages
<1>3. n = 5 => new = WithNegotiateCondition(g, "quoted")
  BY DEF SeedStages
<1>4. n = 6 => new = SeedMerge(g)
  BY DEF SeedStages
<1>5. n = 7 => new = [g EXCEPT !.hides = {"CANCELLED"}]
  BY DEF SeedStages
<1>6. n = 8 => new = WithCascade(g, {"CANCELLED", "LOST"}, SeededCascades)
  BY DEF SeedStages
<1>7. n = 9 => new = WithCascade(g, {"ORDER_CONFIRMED"}, SeededCascades)
  BY DEF SeedStages
<1> HIDE DEF new
<1>8. n \in {3, 4, 5, 6, 7, 8, 9}
  OBVIOUS
<1>9. GraphFits(WithNegotiateCondition(g, "quoted"))
  <2>1. "quoted" \in {"none", "quoted"}
    OBVIOUS
  <2> QED BY <2>1, NegotiateFits, Zenon DEF GraphFits
<1>10. {"CANCELLED"} \in SUBSET SeededStages
  BY DEF SeededStages
<1>11. GraphFits([g EXCEPT !.hides = {"CANCELLED"}])
  BY <1>10, HidesFits, Zenon
<1>12. \A stages : GraphFits(WithCascade(g, stages, SeededCascades))
  BY CascadeFits, VerdictsOf, Zenon
<1>13. GraphFits(SeedFirst(g)) /\ GraphFits(SeedNegotiate(g)) /\ GraphFits(SeedMerge(g))
  BY FirstFits, NegotiateSeedFits, MergeFits
<1>14. GraphFits(new)
  BY <1>1, <1>2, <1>3, <1>4, <1>5, <1>6, <1>7, <1>8, <1>9, <1>11, <1>12, <1>13, Zenon
<1> QED BY <1>14 DEF new

\* One reverse migration; 0003 is never taken back.
LEMMA UnseedStagesFits ==
  ASSUME NEW n \in 4..9, NEW g, GraphFits(g)
  PROVE  GraphFits(UnseedStages(n, g))
<1> DEFINE new == UnseedStages(n, g)
           some == {r \in g.rules : ~(r.from = "QUOTATION" /\ r.role = "ACCT"
                                      /\ r.action = "negotiate")}
<1>1. n = 4 => new = [g EXCEPT !.rules = some]
  BY DEF UnseedStages
<1>2. n = 5 => new = WithNegotiateCondition(g, "none")
  BY DEF UnseedStages
<1>3. n = 6 => new = UnseedMerge(g)
  BY DEF UnseedStages
<1>4. n = 7 => new = [g EXCEPT !.hides = {}]
  BY DEF UnseedStages
<1>5. n = 8 => new = WithCascade(g, {"CANCELLED", "LOST"}, Nothing)
  BY DEF UnseedStages
<1>6. n = 9 => new = WithCascade(g, {"ORDER_CONFIRMED"}, Nothing)
  BY DEF UnseedStages
<1>7. GraphFits([g EXCEPT !.rules = some])
  <2>1. RulesFit(some)
    BY SomeRulesFit DEF GraphFits
  <2> HIDE DEF some
  <2> QED BY <2>1 DEF GraphFits, Graphs, RulesFit
<1> HIDE DEF new, some
<1>8. n \in {4, 5, 6, 7, 8, 9}
  OBVIOUS
<1>9. GraphFits(WithNegotiateCondition(g, "none"))
  <2>1. "none" \in {"none", "quoted"}
    OBVIOUS
  <2> QED BY <2>1, NegotiateFits, Zenon DEF GraphFits
<1>10. {} \in SUBSET SeededStages
  OBVIOUS
<1>11. GraphFits([g EXCEPT !.hides = {}])
  BY <1>10, HidesFits, Zenon
<1>12. \A stages : GraphFits(WithCascade(g, stages, Nothing))
  BY CascadeFits, VerdictsOf, Zenon
<1>13. GraphFits(UnseedMerge(g))
  BY UnmergeFits
<1>14. GraphFits(new)
  BY <1>1, <1>2, <1>3, <1>4, <1>5, <1>6, <1>7, <1>8, <1>9, <1>11, <1>12, <1>13, Zenon
<1> QED BY <1>14 DEF new

\* Rules that fit are as many as their keys.
LEMMA RuleKeys ==
  ASSUME NEW rules, RulesFit(rules)
  PROVE  Cardinality({<<r.from, r.action, r.role>> : r \in rules}) = Cardinality(rules)
<1> DEFINE key == [r \in rules |-> <<r.from, r.action, r.role>>]
           pair == [r \in rules |-> <<r.from, <<r.action, r.role>>>>]
           K == SeededStages \X (GraphActions \X SeededRoles)
<1>1. IsFiniteSet(K)
  <2>1. IsFiniteSet(SeededStages) /\ IsFiniteSet(GraphActions) /\ IsFiniteSet(SeededRoles)
    <3> DEFINE stage == [i \in 1..6 |-> CASE i = 1 -> "ENQUIRY" [] i = 2 -> "QUOTATION"
                           [] i = 3 -> "NEGOTIATION" [] i = 4 -> "ORDER_CONFIRMED"
                           [] i = 5 -> "LOST" [] i = 6 -> "CANCELLED"]
               action == [i \in 1..6 |-> CASE i = 1 -> "quote" [] i = 2 -> "cancel"
                            [] i = 3 -> "negotiate" [] i = 4 -> "rework"
                            [] i = 5 -> "lose" [] i = 6 -> "confirm"]
               role == [i \in 1..3 |-> CASE i = 1 -> "SALES" [] i = 2 -> "OWNER"
                          [] i = 3 -> "ACCT"]
    <3>1. 1 \in Int /\ 6 \in Int /\ 3 \in Int
      OBVIOUS
    <3>2. IsFiniteSet(1..6) /\ IsFiniteSet(1..3)
      BY <3>1, FS_Interval, Zenon
    <3>3. stage \in Surjection(1..6, SeededStages)
      BY DEF Surjection, SeededStages
    <3>4. action \in Surjection(1..6, GraphActions)
      BY DEF Surjection, GraphActions
    <3>5. role \in Surjection(1..3, SeededRoles)
      BY DEF Surjection, SeededRoles
    <3> HIDE DEF stage, action, role
    <3> QED BY <3>2, <3>3, <3>4, <3>5, FS_Surjection
  <2> QED BY <2>1, FS_Product
<1>2. \A r \in rules : pair[r] \in K
  BY DEF RulesFit, RuleRows
<1>3. \A a, b \in rules : pair[a] = pair[b] => a = b
  BY DEF RulesFit, SameEdge
<1>4. IsFiniteSet(rules)
  <2> HIDE DEF pair, K
  <2> QED BY <1>1, <1>2, <1>3, FiniteByKey
<1>5. \A a, b \in rules : key[a] = key[b] => a = b
  BY DEF RulesFit, SameEdge
<1>6. {<<r.from, r.action, r.role>> : r \in rules} = {key[r] : r \in rules}
  OBVIOUS
<1> HIDE DEF key
<1> QED BY <1>4, <1>5, <1>6, KeysAsRows

---------------------------------------------------------------------------
\* Rows and checks through every step.  A migration's own transaction looks at
\* the checks; what people write between migrations is what has to agree with
\* the migrations recorded, and PlanInv says which those are while somebody
\* serves.

CardRows ==
  [stage : SeededStages \cup {"none"}, last : SeededStages \cup {"none"},
   status : {"none", "open", "quoted", "won", "lost", "cancelled", "rework"},
   quote : {"none", "draft", "active", "sent", "superseded", "accepted", "lost"}]

\* The history of a card's line ends where it stands, or 0006 moved it.
Explained(card) ==
  card.last = card.stage \/ (card.last = "NEGOTIATION" /\ card.stage = "QUOTATION")

Cards == {card \in CardRows : Explained(card)}

RowsInv ==
  /\ GrantsFit(grants) /\ GraphFits(graph)
  /\ jobs \in [Jobs -> Cards] /\ Fit(jobs, applied)

KeptInv == BooksInv /\ RowsInv

LEMMA RowsInit == ASSUME DeployAssumption, SystemInit PROVE RowsInv
<1>1. grants = {} /\ graph = NoGraph /\ jobs = [j \in Jobs |-> NoCard] /\ applied = {}
  BY DEF SystemInit
<1>2. GrantsFit({})
  BY DEF GrantsFit
<1>3. GraphFits(NoGraph)
  BY DEF GraphFits, Graphs, NoGraph, RulesFit, Verdicts
<1>4. NoCard \in Cards
  <2>1. NoCard \in CardRows
    BY DEF NoCard, CardRows
  <2>2. Explained(NoCard)
    BY DEF NoCard, Explained
  <2> QED BY <2>1, <2>2 DEF Cards
<1>5. Fit(jobs, applied)
  BY <1>1 DEF Fit, NoCard, QuoteStatuses, CardStatuses
<1> QED BY <1>1, <1>2, <1>3, <1>4, <1>5 DEF RowsInv

\* A migration that rewrites cards leaves them cards.
LEMMA CardsAfter ==
  ASSUME jobs \in [Jobs -> Cards], NEW m
  PROVE  JobsAfter(m) \in [Jobs -> Cards]
<1>1. ASSUME NEW j \in Jobs
      PROVE  Rehomed(jobs[j]) \in Cards /\ Reclassified(jobs[j]) \in Cards
             /\ Backfilled(jobs[j]) \in Cards
  BY DEF Rehomed, Reclassified, Backfilled, Cards, CardRows, Explained, SeededStages
<1>2. JobsAfter(m) \in {[j \in Jobs |-> Rehomed(jobs[j])],
                       [j \in Jobs |-> Reclassified(jobs[j])],
                       [j \in Jobs |-> Backfilled(jobs[j])], jobs}
  BY DEF JobsAfter
<1> QED BY <1>1, <1>2

\* A migration writes rows the keys allow, and its transaction is rolled back
\* when a card breaks a check.
LEMMA ApplyKeepsRows ==
  ASSUME DeployAssumption, KeptInv, NEW c \in Containers, Apply(c)
  PROVE  RowsInv'
<1> DEFINE m == Earliest(plan[c])
<1>1. m \in Migrations /\ code \in Releases
  <2>1. plan[c] \in SUBSET Migrations /\ plan[c] # {} /\ code \in Releases
    BY MigrationsOfRelease DEF DeployAssumption, KeptInv, BooksInv, PlanInv, Apply
  <2> QED BY <2>1, FirstAndLast
<1>2. Works(m) /\ Forward(m) /\ applied' = applied \cup {m}
  BY DEF Apply
<1> HIDE DEF m
<1>3. /\ m[1] = "identity" => m[2] \in 2..10
      /\ m[1] = "pipeline" => m[2] \in 3..9
  BY <1>1 DEF Migrations, Between
<1>4. GrantsFit(grants')
  <2>1. GrantsFit(GridOf[code.identity])
    <3>1. code.identity \in 2..10
      BY <1>1 DEF DeployAssumption, ReleaseAssumption
    <3> QED BY <3>1, EveryGridFits
  <2>2. CASE m[1] = "identity"
    <3>1. grants' = SeedGrid(m[2], grants, GridOf[code.identity])
      BY <1>2, <2>2 DEF Forward
    <3> QED BY <1>3, <2>1, <2>2, <3>1, SeedGridFits DEF KeptInv, RowsInv
  <2>3. CASE m[1] # "identity"
    BY <1>2, <2>3 DEF Forward, KeptInv, RowsInv
  <2> QED BY <2>2, <2>3
<1>5. GraphFits(graph')
  <2>1. CASE m[1] = "pipeline"
    <3>1. graph' = SeedStages(m[2], graph)
      BY <1>2, <2>1 DEF Forward
    <3> QED BY <1>3, <2>1, <3>1, SeedStagesFits DEF KeptInv, RowsInv
  <2>2. CASE m[1] # "pipeline"
    BY <1>2, <2>2 DEF Forward, KeptInv, RowsInv
  <2> QED BY <2>1, <2>2
<1>6. jobs' = JobsAfter(m)
  BY <1>2 DEF Forward
<1>7. jobs' \in [Jobs -> Cards]
  BY <1>6, CardsAfter DEF KeptInv, RowsInv
<1>8. Fit(jobs', applied')
  BY <1>2, <1>6 DEF Works
<1> QED BY <1>4, <1>5, <1>7, <1>8 DEF RowsInv

\* A reverse migration is one the earlier release lacks, so never the first of
\* its app, and the cards are looked at before the check comes back.
LEMMA ReverseKeepsRows ==
  ASSUME DeployAssumption, KeptInv, Reverse
  PROVE  RowsInv'
<1> DEFINE m == LatestOf(applied \ MigrationsOf(goal))
<1>1. m \in Migrations /\ m \notin MigrationsOf(goal) /\ goal \in Releases
  <2>1. /\ applied \ MigrationsOf(goal) \in SUBSET Migrations
        /\ applied \ MigrationsOf(goal) # {} /\ goal \in Releases
    BY MigrationsOfRelease DEF DeployAssumption, KeptInv, BooksInv, PlanInv, Reverse
  <2> QED BY <2>1, FirstAndLast
<1>2. Backward(m) /\ Fit(jobs, applied')
  BY DEF Reverse
<1> HIDE DEF m
<1>3. /\ m[1] = "identity" => m[2] \in 3..10
      /\ m[1] = "pipeline" => m[2] \in 4..9
  BY <1>1, MigrationsOfRelease DEF DeployAssumption, Migrations, Between
<1>4. GrantsFit(grants')
  BY <1>2, <1>3, UnseedGridFits DEF Backward, KeptInv, RowsInv
<1>5. GraphFits(graph')
  BY <1>2, <1>3, UnseedStagesFits DEF Backward, KeptInv, RowsInv
<1>6. UNCHANGED jobs
  BY <1>2 DEF Backward
<1> QED BY <1>2, <1>4, <1>5, <1>6 DEF KeptInv, RowsInv

\* What a container that serves has migrated.
LEMMA ServingHas ==
  ASSUME DeployAssumption, PlanInv, Working
  PROVE  applied = MigrationsOf(code)
BY DEF PlanInv, Working

\* What people write fits the checks of the migrations their release has.
LEMMA WorkKeepsRows ==
  ASSUME DeployAssumption, KeptInv, NEW j \in Jobs,
         OpenCard(j) \/ Quote(j) \/ \E rule \in graph.rules : Move(j, rule)
  PROVE  RowsInv'
<1>1. /\ applied = MigrationsOf(code) /\ code \in Releases
      /\ UNCHANGED <<applied, grants, graph>>
  <2>1. Working /\ UNCHANGED <<applied, grants, graph>>
    BY DEF OpenCard, Quote, Move, Systems
  <2> QED BY <2>1, ServingHas DEF KeptInv, BooksInv, PlanInv
<1>2. /\ code.sales \in 1..4
      /\ <<"sales", 2>> \in applied => code.sales >= 2
      /\ code.sales >= 4 => <<"sales", 4>> \in applied
  BY <1>1 DEF DeployAssumption, ReleaseAssumption, MigrationsOf, Between
<1>3. jobs \in [Jobs -> Cards] /\ Fit(jobs, applied)
  BY DEF KeptInv, RowsInv
<1>4. /\ {"none", "draft", "superseded"} \subseteq QuoteStatuses(applied)
      /\ code.sales < 2 => "sent" \in QuoteStatuses(applied)
      /\ {"none", "open", "quoted", "won", "lost", "cancelled"} \subseteq CardStatuses(applied)
      /\ code.sales >= 4 => "rework" \in CardStatuses(applied)
  BY <1>2 DEF QuoteStatuses, CardStatuses
<1>5. jobs' \in [Jobs -> Cards]
      /\ (\A i \in Jobs \ {j} : jobs'[i] = jobs[i])
      /\ jobs'[j].quote \in QuoteStatuses(applied)
      /\ jobs'[j].status \in CardStatuses(applied)
  <2>1. CASE OpenCard(j)
    BY <1>3, <1>4, <2>1 DEF OpenCard, Cards, CardRows, Explained, SeededInitial, SeededStages
  <2>2. CASE Quote(j)
    <3>1. jobs[j].status \in CardStatuses(applied)
      BY <1>3 DEF Fit
    <3>2. jobs[j] \in Cards
      BY <1>3
    <3> DEFINE quote == IF code.sales < 2 THEN "sent" ELSE "draft"
               status == IF jobs[j].status = "open" THEN "quoted" ELSE jobs[j].status
    <3>3. quote \in QuoteStatuses(applied) /\ quote \in {"sent", "draft"}
      BY <1>2, <1>4
    <3>4. /\ status \in CardStatuses(applied)
          /\ status \in {"none", "open", "quoted", "won", "lost", "cancelled", "rework"}
      BY <1>4, <3>1, <3>2 DEF Cards, CardRows
    <3>5. jobs' = [jobs EXCEPT ![j].quote = quote, ![j].status = status]
      BY <1>3, <2>2, <3>2 DEF Quote, Cards, CardRows
    <3> HIDE DEF quote, status
    <3> QED BY <1>3, <3>2, <3>3, <3>4, <3>5 DEF Cards, CardRows, Explained
  <2>3. ASSUME NEW rule \in graph.rules, Move(j, rule)
        PROVE  jobs' \in [Jobs -> Cards]
               /\ (\A i \in Jobs \ {j} : jobs'[i] = jobs[i])
               /\ jobs'[j].quote \in QuoteStatuses(applied)
               /\ jobs'[j].status \in CardStatuses(applied)
    <3>1. rule.to \in SeededStages /\ graph.cascades[rule.to] \in Verdicts
      BY DEF KeptInv, RowsInv, GraphFits, Graphs, RuleRows
    <3>2. jobs[j].status \in CardStatuses(applied) /\ jobs[j].quote \in QuoteStatuses(applied)
      BY <1>3 DEF Fit
    <3>3. jobs[j] \in Cards
      BY <1>3
    <3> DEFINE status == IF graph.cascades[rule.to] # "none" THEN graph.cascades[rule.to]
                         ELSE IF rule.to = SeededInitial /\ jobs[j].quote # "none"
                                 /\ code.sales >= 4
                              THEN "rework" ELSE jobs[j].status
    <3>4. /\ status \in CardStatuses(applied)
          /\ status \in {"none", "open", "quoted", "won", "lost", "cancelled", "rework"}
      BY <1>4, <3>1, <3>2, <3>3 DEF Verdicts, Cards, CardRows
    <3>5. jobs' = [jobs EXCEPT ![j].stage = rule.to, ![j].last = rule.to, ![j].status = status]
      BY <1>3, <2>3, <3>3 DEF Move, Cards, CardRows
    <3> HIDE DEF status
    <3> QED BY <1>3, <3>1, <3>2, <3>3, <3>4, <3>5 DEF Cards, CardRows, Explained
  <2> QED BY <2>1, <2>2, <2>3
<1>6. Fit(jobs', applied')
  BY <1>1, <1>3, <1>5 DEF Fit
<1> QED BY <1>1, <1>5, <1>6 DEF KeptInv, RowsInv

\* An administrator's edit of a rule leaves its edge and its role alone.
LEMMA GateKeepsRows ==
  ASSUME KeptInv, NEW rule \in graph.rules, SetGate(rule)
  PROVE  RowsInv'
<1> DEFINE new == [rule EXCEPT !.selfApproval = ~@]
<1>1. /\ graph \in Graphs /\ graph.rules \subseteq RuleRows
      /\ \A a, b \in graph.rules : SameEdge(a, b) => a = b
  BY DEF KeptInv, RowsInv, GraphFits, RulesFit
<1>2. new \in RuleRows /\ SameEdge(new, rule)
  BY <1>1 DEF RuleRows, SameEdge
<1> HIDE DEF new
<1>3. graph' = [graph EXCEPT !.rules = (graph.rules \ {rule}) \cup {new}]
  BY DEF SetGate, new
<1> DEFINE rules == (graph.rules \ {rule}) \cup {new}
<1>4. RulesFit(rules)
  <2>1. rules \subseteq RuleRows
    BY <1>1, <1>2
  <2>2. \A a \in graph.rules \ {rule} : ~SameEdge(a, new) /\ ~SameEdge(new, a)
    BY <1>1, <1>2 DEF SameEdge
  <2> QED BY <1>1, <2>1, <2>2 DEF RulesFit
<1> HIDE DEF rules
<1>5. GraphFits(graph')
  <2>1. graph' = [graph EXCEPT !.rules = rules]
    BY <1>3 DEF rules
  <2>2. rules \in SUBSET RuleRows
    BY <1>4 DEF RulesFit
  <2> QED BY <1>1, <1>4, <2>1, <2>2 DEF GraphFits, Graphs
<1>6. UNCHANGED <<applied, grants, jobs>>
  BY DEF SetGate, Systems
<1> QED BY <1>5, <1>6 DEF KeptInv, RowsInv

\* KeptInv is inductive: only migrations and work on cards write rows.
LEMMA KeptStep == ASSUME DeployAssumption, KeptInv, SystemNext PROVE KeptInv'
<1>1. BooksInv'
  BY BooksStep DEF KeptInv
<1>2. RowsInv'
  <2>1. ASSUME NEW c \in Containers, Boot(c) \/ Fail(c) \/ Serve(c) \/ Crash(c) PROVE RowsInv'
    BY <2>1 DEF Boot, Fail, Serve, Crash, books, KeptInv, RowsInv
  <2>2. ASSUME NEW r \in Releases, Deploy(r) \/ Retreat(r) \/ GiveUp \/ Retreated PROVE RowsInv'
    BY <2>2 DEF Deploy, Retreat, GiveUp, Retreated, books, KeptInv, RowsInv
  <2>3. ASSUME NEW name \in Newcomers, AddEmployee(name) PROVE RowsInv'
    BY <2>3 DEF AddEmployee, Systems, KeptInv, RowsInv
  <2>4. ASSUME AddClient PROVE RowsInv'
    BY <2>4 DEF AddClient, Systems, KeptInv, RowsInv
  <2>5. code \in Releases
    BY DEF KeptInv, BooksInv, PlanInv
  <2> QED BY <2>1, <2>2, <2>3, <2>4, <2>5, ApplyKeepsRows, ReverseKeepsRows, WorkKeepsRows,
             GateKeepsRows
          DEF SystemNext, Start
<1> QED BY <1>1, <1>2 DEF KeptInv

\* However migrations interleave with each other and with people's work,
\* forwards, repeated or backwards, every grant, rule and card is one the
\* schema of the migrations recorded can hold.
THEOREM RowsSafe == ASSUME DeployAssumption PROVE SystemSpec => []KeptInv
<1>1. SystemInit => KeptInv
  BY BooksInit, RowsInit DEF KeptInv
<1>2. KeptInv /\ [SystemNext]_systemVars => KeptInv'
  <2>1. CASE SystemNext
    BY <2>1, KeptStep
  <2>2. CASE UNCHANGED systemVars
    BY <2>2 DEF systemVars, KeptInv, BooksInv, PlanInv, ClientsInv, StaffInv, RowsInv
  <2> QED BY <2>1, <2>2
<1> QED BY <1>1, <1>2, PTL DEF SystemSpec

\* At every moment of an upgrade or a rollback, for any number of containers,
\* releases and cards, the rows meet the checks of sales 0002 and 0004 and the
\* unique keys of grants and rules, and a line's history explains where it
\* stands: a reverse migration looks at the cards first, nobody writes a card
\* the migrations recorded refuse, and 0006 moves only lines in NEGOTIATION.
THEOREM RowsKept == ASSUME DeployAssumption PROVE SystemSpec => []RowsAccountedFor
<1>1. KeptInv => ConstraintsMet
  BY GrantKeys, RuleKeys DEF KeptInv, RowsInv, GraphFits, ConstraintsMet
<1>2. KeptInv => LinesExplained
  BY DEF KeptInv, RowsInv, Cards, Explained, LinesExplained
<1> QED BY <1>1, <1>2, RowsSafe, PTL DEF RowsAccountedFor

=============================================================================
