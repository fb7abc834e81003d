----------------------------- MODULE SheetProofs -----------------------------
(***************************************************************************)
(* Theorems of JobSheet, for any number of presses, cards and changes:     *)
(* its types, and that a sync nobody disturbed leaves the ledger as it is. *)
(***************************************************************************)
EXTENDS JobSheet, SequenceTheorems, TLAPS

---------------------------------------------------------------------------
\* Rows and sheets are sequences.

\* A sequence is a function on an initial segment of the numbers.
LEMMA SeqIsFunction ==
  ASSUME NEW S, NEW s \in Seq(S)
  PROVE  /\ Len(s) \in Nat /\ DOMAIN s = 1..Len(s)
         /\ \A n \in DOMAIN s : s[n] \in S
BY LenProperties, ElementOfSeq

LEMMA FunctionIsSeq ==
  ASSUME NEW S, NEW n \in Nat, NEW f \in [1..n -> S]
  PROVE  f \in Seq(S)
BY SeqDef

\* A reading of a list of cards is a sequence of rows.
LEMMA RowsAreRows ==
  ASSUME NEW list, NEW quoted,
         list \in Seq(LiveCard) \/ list \in Seq(SheetRow),
         quoted \in [1..MaxCards -> 0..MaxChanges]
  PROVE  RowsOfCards(list, quoted) \in Seq(SheetRow)
<1>1. /\ Len(list) \in Nat /\ DOMAIN list = 1..Len(list)
      /\ \A n \in DOMAIN list :
            list[n].no \in 1..MaxCards /\ list[n].card \in 0..MaxChanges
  <2>1. ASSUME NEW S, list \in Seq(S), S = LiveCard \/ S = SheetRow
        PROVE  /\ Len(list) \in Nat /\ DOMAIN list = 1..Len(list)
               /\ \A n \in DOMAIN list :
                     list[n].no \in 1..MaxCards /\ list[n].card \in 0..MaxChanges
    <3>1. /\ Len(list) \in Nat /\ DOMAIN list = 1..Len(list)
          /\ \A n \in DOMAIN list : list[n] \in S
      BY <2>1, SeqIsFunction
    <3> QED  BY <2>1, <3>1 DEF LiveCard, SheetRow
  <2> QED  BY <2>1
<1>2. RowsOfCards(list, quoted) \in [1..Len(list) -> SheetRow]
  BY <1>1 DEF RowsOfCards, SheetRow
<1> QED  BY <1>1, <1>2, FunctionIsSeq

\* An update leaves a sequence, the longer of the two.
LEMMA WrittenIsSheet ==
  ASSUME NEW S, NEW T, NEW s, NEW t,
         T \subseteq S, s \in Seq(S), t \in Seq(T)
  PROVE  [n \in DOMAIN s \cup DOMAIN t |-> IF n \in DOMAIN t THEN t[n] ELSE s[n]]
           \in Seq(S)
<1> DEFINE m == IF Len(s) < Len(t) THEN Len(t) ELSE Len(s)
           u == [n \in DOMAIN s \cup DOMAIN t |-> IF n \in DOMAIN t THEN t[n] ELSE s[n]]
<1>1. /\ m \in Nat /\ DOMAIN s \cup DOMAIN t = 1..m
      /\ DOMAIN s = 1..Len(s) /\ DOMAIN t = 1..Len(t)
      /\ \A n \in DOMAIN s : s[n] \in S
      /\ \A n \in DOMAIN t : t[n] \in S
  BY SeqIsFunction
<1>2. ASSUME NEW n \in 1..m  PROVE u[n] \in S
  <2>1. CASE n \in DOMAIN t  BY <2>1, <1>1
  <2>2. CASE n \notin DOMAIN t  BY <2>2, <1>1, <1>2
  <2> QED  BY <2>1, <2>2
<1>3. u \in [1..m -> S]  BY <1>1, <1>2
<1> QED  BY <1>1, <1>3, FunctionIsSeq

\* A sequence without one of its places is a sequence.
LEMMA WithoutOne ==
  ASSUME NEW S, NEW s \in Seq(S), NEW n \in DOMAIN s
  PROVE  [m \in 1..(Len(s) - 1) |-> s[IF m < n THEN m ELSE m + 1]] \in Seq(S)
<1> DEFINE u == [m \in 1..(Len(s) - 1) |-> s[IF m < n THEN m ELSE m + 1]]
<1>1. /\ Len(s) \in Nat \ {0} /\ n \in 1..Len(s)
      /\ \A m \in 1..Len(s) : s[m] \in S
  BY SeqIsFunction
<1>2. \A m \in 1..(Len(s) - 1) : u[m] \in S  BY <1>1
<1>3. u \in [1..(Len(s) - 1) -> S]  BY <1>2
<1> QED  BY <1>1, <1>3, FunctionIsSeq

---------------------------------------------------------------------------

\* The types of JobSheet: the ledger, the readings and the worksheet stay
\* sequences of rows through every order of the calls.
THEOREM SheetTypeCorrect == ASSUME SheetAssumption PROVE SheetSpec => []SheetTypeOK
<1>1. SheetInit => SheetTypeOK
  BY DEF SheetInit, SheetTypeOK, SheetAssumption, SyncPoints, LiveCard, SheetRow
<1>2. ASSUME SheetTypeOK, [SheetNext]_sheetVars  PROVE SheetTypeOK'
  <2> USE <1>2 DEF SheetTypeOK
  <2> USE DEF SheetAssumption
  <2>1. CASE UNCHANGED sheetVars  BY <2>1 DEF sheetVars, office
  <2>2. ASSUME Touch
        PROVE  /\ changes + 1 \in 0..MaxChanges /\ changes' \in 0..MaxChanges
               /\ failures' \in 0..MaxFailures /\ sheet' = sheet /\ syncPc' = syncPc
               /\ rows' = rows /\ alone' \in [Writers -> BOOLEAN]
    BY <2>2 DEF Touch
  <2>3. CASE OpenCard
    <3>1. [no |-> opened + 1, card |-> changes + 1] \in LiveCard
      BY <2>2, <2>3 DEF OpenCard, LiveCard
    <3>2. ledger' \in Seq(LiveCard)  BY <2>3, <3>1 DEF OpenCard
    <3> QED  BY <2>2, <2>3, <3>2 DEF OpenCard
  <2>4. ASSUME NEW n \in DOMAIN ledger, ChangeCard(n)  PROVE SheetTypeOK'
    <3>1. ledger[n] \in LiveCard  BY SeqIsFunction
    <3>2. [ledger[n] EXCEPT !.card = changes + 1] \in LiveCard
      BY <2>2, <2>4, <3>1 DEF ChangeCard, LiveCard
    <3>3. ledger' = [ledger EXCEPT ![n] = [ledger[n] EXCEPT !.card = changes + 1]]
      BY <2>4 DEF ChangeCard
    <3>4. ledger' \in Seq(LiveCard)  BY <3>2, <3>3, ExceptSeq
    <3> QED  BY <2>2, <2>4, <3>4 DEF ChangeCard
  <2>5. ASSUME NEW n \in DOMAIN ledger, Quote(n)  PROVE SheetTypeOK'
    <3>0. ledger[n] \in LiveCard  BY SeqIsFunction
    <3>1. ledger[n].no \in 1..MaxCards  BY <3>0 DEF LiveCard
    <3>2. quotation' \in [1..MaxCards -> 0..MaxChanges]
      BY <2>2, <2>5, <3>1 DEF Quote
    <3> QED  BY <2>2, <2>5, <3>2 DEF Quote
  <2>6. ASSUME NEW n \in DOMAIN ledger, RemoveCard(n)  PROVE SheetTypeOK'
    <3>1. ledger' \in Seq(LiveCard)  BY <2>6, WithoutOne DEF RemoveCard
    <3> QED  BY <2>2, <2>6, <3>1 DEF RemoveCard
  <2>7. CASE Tick  BY <2>7 DEF Tick, office, SyncPoints, Writers
  <2>8. ASSUME NEW w \in Writers, SyncStep(w) \/ Fail(w)  PROVE SheetTypeOK'
    <3>1. CASE ReadCards(w)
      <4>1. [no \in 1..MaxCards |-> 0] \in [1..MaxCards -> 0..MaxChanges]  OBVIOUS
      <4>2. RowsOfCards(ledger, [no \in 1..MaxCards |-> 0]) \in Seq(SheetRow)
        BY <4>1, RowsAreRows
      <4> QED  BY <3>1, <4>2 DEF ReadCards, office, SyncPoints
    <3>2. CASE ReadQuotations(w)
      <4>1. RowsOfCards(rows[w], quotation) \in Seq(SheetRow)  BY RowsAreRows
      <4> QED  BY <3>2, <4>1 DEF ReadQuotations, office, SyncPoints
    <3>3. CASE Clear(w)
      <4>1. sheet' \in [1..Len(sheet) -> SheetRow \cup {BlankRow}]
        BY <3>3, SeqIsFunction DEF Clear, Cleared
      <4>2. sheet' \in Seq(SheetRow \cup {BlankRow})
        BY <4>1, SeqIsFunction, FunctionIsSeq
      <4> QED  BY <3>3, <4>2 DEF Clear, office, SyncPoints
    <3>4. CASE Write(w)
      <4> DEFINE Cell == SheetRow \cup {BlankRow}
      <4>1. rows[w] \in Seq(SheetRow) /\ sheet \in Seq(Cell)  OBVIOUS
      <4>2. SheetRow \subseteq Cell  OBVIOUS
      <4> HIDE DEF Cell
      <4>3. Written(w) \in Seq(Cell)  BY ONLY <4>1, <4>2, WrittenIsSheet DEF Written
      <4> USE DEF Cell
      <4> QED  BY <3>4, <4>3 DEF Write, office, SyncPoints
    <3>5. CASE Format(w)  BY <3>5 DEF Format, office, SyncPoints
    <3>6. CASE Fail(w)  BY <3>6 DEF Fail, office, SyncPoints
    <3> QED  BY <2>8, <3>1, <3>2, <3>3, <3>4, <3>5, <3>6 DEF SyncStep
  <2> QED
    BY <1>2, <2>1, <2>3, <2>4, <2>5, <2>6, <2>7, <2>8 DEF SheetNext, Office
<1> QED  BY <1>1, <1>2, PTL DEF SheetSpec

---------------------------------------------------------------------------

\* What a sync nobody has disturbed has to show for itself at each point:
\* no other is under way, it holds the ledger, and the sheet is empty or
\* shows it.
AloneAt(w) ==
  /\ \A y \in Writers \ {w} : syncPc[y] \in {"idle", "done"}
  /\ syncPc[w] = "cards" => rows[w] = RowsOfCards(ledger, [no \in 1..MaxCards |-> 0])
  /\ syncPc[w] \notin {"idle", "cards"} => rows[w] = Ledger
  /\ syncPc[w] = "cleared" => \A n \in DOMAIN sheet : sheet[n] = BlankRow
  /\ syncPc[w] \in {"written", "done"} => Shown(Ledger)

SheetInv == \A w \in Writers : alone[w] => AloneAt(w)

\* Reading the quotations of cards read before gives the ledger.
LEMMA SecondReading ==
  ASSUME NEW list, NEW quoted, NEW before
  PROVE  RowsOfCards(RowsOfCards(list, before), quoted) = RowsOfCards(list, quoted)
BY DEF RowsOfCards

\* A sync nobody disturbed leaves the ledger as it is in the database, with
\* nothing of an earlier or failed sync below it: write_rows clears down to
\* the worksheet's last row before it updates.
THEOREM UndisturbedSyncIsExact ==
  ASSUME SheetAssumption PROVE SheetSpec => []UndisturbedIsExact
<1>1. SheetInit => SheetInv
  BY DEF SheetInit, SheetInv
<1>2. ASSUME SheetTypeOK, SheetInv, [SheetNext]_sheetVars  PROVE SheetInv'
  <2> SUFFICES ASSUME NEW w \in Writers, alone'[w]  PROVE AloneAt(w)'
    BY DEF SheetInv
  <2> USE <1>2 DEF SheetInv
  <2>t. /\ syncPc \in [Writers -> SyncPoints] /\ alone \in [Writers -> BOOLEAN]
        /\ rows \in [Writers -> Seq(SheetRow)] /\ Sidecar \in Writers
    BY DEF SheetTypeOK, Writers
  <2>1. CASE UNCHANGED sheetVars
    BY <2>1 DEF sheetVars, office, AloneAt, Ledger, Shown
  <2>2. CASE Office
    <3>1. alone'[w] = FALSE
      BY <2>2 DEF Office, OpenCard, ChangeCard, Quote, RemoveCard, Touch
    <3> QED  BY <3>1
  <2>3. CASE Tick
    <3>1. alone[w] /\ AloneAt(w)  BY <2>3, <2>t DEF Tick
    <3>2. UNCHANGED <<office, sheet, rows>>  BY <2>3 DEF Tick
    <3>3. CASE w = Sidecar  BY <2>3, <2>t, <3>1, <3>2, <3>3 DEF Tick, AloneAt, office
    <3>4. CASE w # Sidecar
      BY <2>3, <2>t, <3>1, <3>2, <3>4 DEF Tick, AloneAt, office, Ledger, Shown
    <3> QED  BY <3>3, <3>4
  <2>4. ASSUME NEW x \in Writers, ReadCards(x)  PROVE AloneAt(w)'
    <3>1. w = x /\ \A y \in Writers \ {w} : syncPc[y] \in {"idle", "done"}
      BY <2>4 DEF ReadCards
    <3> QED  BY <2>4, <2>t, <3>1 DEF ReadCards, AloneAt, office
  <2>5. ASSUME NEW x \in Writers, alone[w], UNCHANGED office,
               syncPc[x] \notin {"idle", "done"},
               ReadQuotations(x) \/ Clear(x) \/ Write(x) \/ Format(x) \/ Fail(x)
        PROVE  AloneAt(w)'
    <3>1. AloneAt(w) /\ x = w  BY <2>5 DEF AloneAt
    <3>2. \A y \in Writers \ {w} : syncPc'[y] \in {"idle", "done"}
      BY <2>5, <2>t, <3>1
      DEF AloneAt, ReadQuotations, Clear, Write, Format, Fail
    <3>3. CASE ReadQuotations(w)
      <4>1. rows'[w] = Ledger
        BY <3>1, <3>3, <2>t, SecondReading DEF AloneAt, ReadQuotations, Ledger
      <4> QED
        BY <2>5, <2>t, <3>1, <3>2, <3>3, <4>1
        DEF AloneAt, ReadQuotations, office, Ledger
    <3>4. CASE Clear(w)
      BY <2>5, <2>t, <3>1, <3>2, <3>4 DEF AloneAt, Clear, Cleared, office, Ledger
    <3>5. CASE Write(w)
      <4>1. rows[w] = Ledger /\ \A n \in DOMAIN sheet : sheet[n] = BlankRow
        BY <3>1, <3>5 DEF AloneAt, Write
      <4>2. Ledger' = Ledger  BY <2>5 DEF office, Ledger
      <4>3. Shown(Ledger)'  BY <3>5, <4>1, <4>2 DEF Write, Written, Shown
      <4> QED  BY <2>t, <3>1, <3>2, <3>5, <4>1, <4>2, <4>3 DEF AloneAt, Write
    <3>6. CASE Format(w)
      BY <2>5, <2>t, <3>1, <3>2, <3>6 DEF AloneAt, Format, office, Ledger, Shown
    <3>7. CASE Fail(w)  BY <2>t, <3>7 DEF Fail
    <3> QED  BY <2>5, <3>1, <3>3, <3>4, <3>5, <3>6, <3>7
  <2>6. ASSUME NEW x \in Writers, SyncStep(x) \/ Fail(x)  PROVE AloneAt(w)'
    <3>1. CASE ReadCards(x)  BY <2>4, <3>1
    <3>2. CASE ~ReadCards(x)
      <4>1. alone[w] /\ UNCHANGED office /\ syncPc[x] \notin {"idle", "done"}
        BY <2>6, <2>t, <3>2
        DEF SyncStep, ReadQuotations, Clear, Write, Format, Fail
      <4> QED  BY <2>5, <2>6, <3>2, <4>1 DEF SyncStep
    <3> QED  BY <3>1, <3>2
  <2> QED  BY <1>2, <2>1, <2>2, <2>3, <2>6 DEF SheetNext
<1>3. SheetInv => UndisturbedIsExact
  BY DEF SheetInv, UndisturbedIsExact, AloneAt
<1> QED  BY <1>1, <1>2, <1>3, SheetTypeCorrect, PTL DEF SheetSpec
=============================================================================
