------------------------------ MODULE JobSheet ------------------------------
(***************************************************************************)
(* The job-card ledger in the office's Google Sheet.                       *)
(*                                                                         *)
(* A sync reads the cards, then their quotations, then overwrites the      *)
(* worksheet in remote calls of their own: clear, update, format.  The     *)
(* sheets-sync container runs one on a timer for ever and swallows its     *)
(* failures; the "Sync now" button runs another beside it.                 *)
(***************************************************************************)
EXTENDS Integers, Sequences

CONSTANTS
  Presses,      \* requests of the button
  Sidecar,      \* the container's loop
  MaxCards,     \* bound: job cards
  MaxChanges,   \* bound: changes to cards and quotations
  MaxFailures,  \* bound: failing Google API calls
  BlankRow      \* a row of empty cells

Writers == Presses \cup {Sidecar}

VARIABLES
  ledger,     \* the live job cards in the order of their job_no
  opened,     \* how many cards were opened
  quotation,  \* quotation[no]: the latest change of the card's quotation
  changes,    \* how many changes were made
  failures,   \* how many calls failed
  sheet,      \* the rows below the header
  syncPc,     \* syncPc[w]: how far w's sync has got
  rows,       \* rows[w]: what w's sync has read
  alone       \* alone[w]: nothing moved since w's sync began (history)

office == <<ledger, opened, quotation, changes>>
sheetVars == <<office, failures, sheet, syncPc, rows, alone>>

\* A card: its number and the latest change of what the ledger shows of it.
LiveCard == [no : 1..MaxCards, card : 0..MaxChanges]

SheetRow == [no : 1..MaxCards, card : 0..MaxChanges, quotation : 0..MaxChanges]

SheetAssumption ==
  /\ Sidecar \notin Presses
  /\ MaxCards \in Nat /\ MaxChanges \in Nat /\ MaxFailures \in Nat
  /\ BlankRow \notin SheetRow

\* The rows that cards have, given what their quotations are.
RowsOfCards(list, quoted) ==
  [n \in DOMAIN list |->
     [no |-> list[n].no, card |-> list[n].card, quotation |-> quoted[list[n].no]]]

\* What job_card_export_rows would answer now.
Ledger == RowsOfCards(ledger, quotation)

SyncPoints == {"idle", "cards", "read", "cleared", "written", "done"}

---------------------------------------------------------------------------

SheetInit ==
  /\ ledger = <<>> /\ opened = 0 /\ changes = 0 /\ failures = 0
  /\ quotation = [no \in 1..MaxCards |-> 0]
  /\ sheet = <<>>
  /\ syncPc = [w \in Writers |-> "idle"]
  /\ rows = [w \in Writers |-> <<>>]
  /\ alone = [w \in Writers |-> FALSE]

\* The office works: a card is opened, changed, quoted anew or removed.
Touch ==
  /\ changes < MaxChanges
  /\ changes' = changes + 1
  /\ alone' = [w \in Writers |-> FALSE]
  /\ UNCHANGED <<failures, sheet, syncPc, rows>>

OpenCard ==
  /\ opened < MaxCards
  /\ opened' = opened + 1
  /\ ledger' = Append(ledger, [no |-> opened + 1, card |-> changes + 1])
  /\ UNCHANGED quotation
  /\ Touch

ChangeCard(n) ==
  /\ ledger' = [ledger EXCEPT ![n].card = changes + 1]
  /\ UNCHANGED <<opened, quotation>>
  /\ Touch

Quote(n) ==
  /\ quotation' = [quotation EXCEPT ![ledger[n].no] = changes + 1]
  /\ UNCHANGED <<ledger, opened>>
  /\ Touch

\* The admin's form sets deleted_at.
RemoveCard(n) ==
  /\ ledger' = [m \in 1..(Len(ledger) - 1) |-> ledger[IF m < n THEN m ELSE m + 1]]
  /\ UNCHANGED <<opened, quotation>>
  /\ Touch

\* The first query of job_card_export_rows; the sync is alone as long as no
\* other one is under way.
ReadCards(w) ==
  /\ syncPc[w] = "idle"
  /\ syncPc' = [syncPc EXCEPT ![w] = "cards"]
  /\ rows' = [rows EXCEPT ![w] = RowsOfCards(ledger, [no \in 1..MaxCards |-> 0])]
  /\ alone' = [x \in Writers |->
                 x = w /\ \A y \in Writers \ {w} : syncPc[y] \in {"idle", "done"}]
  /\ UNCHANGED <<office, failures, sheet>>

\* The quotations, attachments and counts of those cards.
ReadQuotations(w) ==
  /\ syncPc[w] = "cards"
  /\ syncPc' = [syncPc EXCEPT ![w] = "read"]
  /\ rows' = [rows EXCEPT ![w] = RowsOfCards(rows[w], quotation)]
  /\ UNCHANGED <<office, failures, sheet, alone>>

\* Mutant: only the rows about to be written are cleared.
Cleared_OwnRows(w) ==
  [n \in DOMAIN sheet |-> IF n \in DOMAIN rows[w] THEN BlankRow ELSE sheet[n]]

\* Our columns are blanked down to the worksheet's last row.
Cleared(w) == [n \in DOMAIN sheet |-> BlankRow]

\* Opening the worksheet, or adding it when it is not there, and the clear.
Clear(w) ==
  /\ syncPc[w] = "read"
  /\ syncPc' = [syncPc EXCEPT ![w] = "cleared"]
  /\ sheet' = Cleared(w)
  /\ UNCHANGED <<office, failures, rows, alone>>

\* What an update leaves: its rows over what was there.
Written(w) ==
  [n \in DOMAIN sheet \cup DOMAIN rows[w] |->
     IF n \in DOMAIN rows[w] THEN rows[w][n] ELSE sheet[n]]

Write(w) ==
  /\ syncPc[w] = "cleared"
  /\ syncPc' = [syncPc EXCEPT ![w] = "written"]
  /\ sheet' = Written(w)
  /\ UNCHANGED <<office, failures, rows, alone>>

\* Padding, header, frozen row and column widths: nothing a reader of the
\* rows could tell.
Format(w) ==
  /\ syncPc[w] = "written"
  /\ syncPc' = [syncPc EXCEPT ![w] = "done"]
  /\ UNCHANGED <<office, failures, sheet, rows, alone>>

\* A call fails: the command exits non-zero, the button answers 502; what
\* was cleared stays cleared.
Fail(w) ==
  /\ syncPc[w] \in {"read", "cleared", "written"}
  /\ failures < MaxFailures
  /\ failures' = failures + 1
  /\ syncPc' = [syncPc EXCEPT ![w] = "done"]
  /\ alone' = [alone EXCEPT ![w] = FALSE]
  /\ UNCHANGED <<office, sheet, rows>>

\* Mutant: the loop writes the table it read at its first turn.
Tick_ReadOnce ==
  /\ syncPc[Sidecar] = "done"
  /\ syncPc' = [syncPc EXCEPT ![Sidecar] = "read"]
  /\ UNCHANGED <<office, failures, sheet, rows, alone>>

\* sleep 18000: the next turn of the loop.
Tick ==
  /\ syncPc[Sidecar] = "done"
  /\ syncPc' = [syncPc EXCEPT ![Sidecar] = "idle"]
  /\ UNCHANGED <<office, failures, sheet, rows, alone>>

SyncStep(w) == ReadCards(w) \/ ReadQuotations(w) \/ Clear(w) \/ Write(w) \/ Format(w)

Office ==
  OpenCard \/ \E n \in DOMAIN ledger : ChangeCard(n) \/ Quote(n) \/ RemoveCard(n)

SheetNext == Office \/ Tick \/ \E w \in Writers : SyncStep(w) \/ Fail(w)

SheetSpec == SheetInit /\ [][SheetNext]_sheetVars

---------------------------------------------------------------------------
\* Properties

SheetTypeOK ==
  /\ ledger \in Seq(LiveCard) /\ opened \in 0..MaxCards
  /\ quotation \in [1..MaxCards -> 0..MaxChanges]
  /\ changes \in 0..MaxChanges /\ failures \in 0..MaxFailures
  /\ sheet \in Seq(SheetRow \cup {BlankRow})
  /\ syncPc \in [Writers -> SyncPoints]
  /\ rows \in [Writers -> Seq(SheetRow)]
  /\ alone \in [Writers -> BOOLEAN]

\* The sheet shows a table: its rows in their order, nothing below them.
Shown(table) ==
  /\ DOMAIN table \subseteq DOMAIN sheet
  /\ \A n \in DOMAIN sheet :
        sheet[n] = IF n \in DOMAIN table THEN table[n] ELSE BlankRow

\* A sync that ran undisturbed leaves the ledger as it is in the database,
\* row for row, whatever an earlier failed or overlapping sync had left.
UndisturbedIsExact ==
  \A w \in Writers : syncPc[w] = "done" /\ alone[w] => Shown(Ledger)

\* "The next tick is the retry": a clear without its update, or an old
\* reading written over a new one, does not outlast the loop.
SheetCatchesUp == []<>Shown(Ledger)
=============================================================================
