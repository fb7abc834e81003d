----------------------------- MODULE AuditTrail -----------------------------
(***************************************************************************)
(* One database connection, as a worker uses it for one piece of work      *)
(* after another: who the audit trigger says made a write, which bytes a   *)
(* document row relies on, and which partition its audit rows go to.       *)
(*                                                                         *)
(* A piece of work is a request, whose view ATOMIC_REQUESTS wraps in a     *)
(* transaction, or a management command, which opens its own.  Inside it,  *)
(* atomic blocks and audit_actor blocks nest; each is a savepoint, which   *)
(* an exception rolls back on its way out.  SET LOCAL lasts to the end of  *)
(* the transaction, unless a rollback to a savepoint made before undoes    *)
(* it.  Object storage takes no part in any of this.                       *)
(***************************************************************************)
EXTENDS Naturals, Sequences

CONSTANTS
  Users, Nobody,   \* Nobody: changed_by IS NULL
  Keys,            \* storage keys; a fresh one per upload
  NoKey,
  Initial,         \* quarters the first migration opens, counted from 0
  Ahead,           \* AUDIT_PARTITION_QUARTERS_AHEAD
  MaxDepth, MaxRows, MaxQuarter   \* bounds of the instance

AuditAssumption ==
  /\ Nobody \notin Users /\ NoKey \notin Keys
  /\ Initial \in Nat /\ Ahead \in Nat /\ MaxQuarter \in Nat
  /\ MaxDepth \in Nat /\ MaxRows \in Nat

Actors == Users \cup {Nobody}

VARIABLES
  requester,   \* who is signed in on the request at work
  frames,      \* the open blocks, outermost first
  setting,     \* app.current_user_id as the connection has it
  pending,     \* the audit rows of the open transaction
  documents,   \* the document rows of the open transaction
  raised,      \* an exception is on its way out
  filed,       \* the storage keys of the committed document rows
  stored,      \* the keys object storage has bytes for
  upload,      \* the key whose bytes are stored and whose row is not written
  quarter,     \* today
  began,       \* the quarter the open transaction began in: NOW()
  partitions,  \* the quarters core_audit_logs has a partition for
  started      \* the last quarter a container started in

work == <<requester, frames, setting, raised>>
rows == <<pending, documents>>
storage == <<stored, upload>>
calendar == <<quarter, partitions, started>>
vars == <<work, rows, filed, storage, calendar, began>>

\* by: what changed_by says; meant: the actor of the innermost audit_actor
\* block around the write; requester: whose request it was.
AuditRow == [by : Actors, meant : Actors, requester : Actors]

\* A block: whether it is an audit_actor and whose, and what a rollback of it
\* returns to.
Frame == [actor : Actors, named : BOOLEAN, setting : Actors,
          rows : Nat, documents : SUBSET Keys]

Depth == Len(frames)
Top == frames[Depth]

\* The actor the code around the current statement named, if any did.
Meant ==
  LET named == {i \in 1..Depth : frames[i].named}
  IN  IF named = {} THEN Nobody
      ELSE frames[CHOOSE i \in named : \A j \in named : j <= i].actor

---------------------------------------------------------------------------

\* Mutant: the window starts with the quarter that has just ended.
Window_Previous(q) == (q - 1)..(q + Ahead - 2)

\* quarters_from: Ahead quarters, the current one included.
Window(q) == q..(q + Ahead - 1)

\* The first container has started: migrate, then ensure_audit_partitions.
Init ==
  /\ requester = Nobody /\ frames = <<>> /\ setting = Nobody /\ raised = FALSE
  /\ pending = <<>> /\ documents = {}
  /\ filed = {}
  /\ stored = {} /\ upload = NoKey
  /\ quarter = 0 /\ partitions = 0..Initial \cup Window(0) /\ started = 0 /\ began = 0

\* A request arrives: the middleware's SET LOCAL is a statement of its own,
\* outside any transaction, and has no effect.
Arrive(u) ==
  /\ Depth = 0
  /\ requester' = u
  /\ UNCHANGED <<frames, setting, raised, rows, filed, storage, calendar, began>>

Push(actor, named) ==
  /\ Depth < MaxDepth /\ ~raised
  /\ frames' = Append(frames,
       [actor |-> actor, named |-> named, setting |-> setting,
        rows |-> Len(pending), documents |-> documents])
  /\ began' = IF Depth = 0 THEN quarter ELSE began
  /\ UNCHANGED <<requester, raised, rows, filed, storage, calendar>>

\* atomic(): BEGIN for the view or a command, a savepoint further in.
EnterAtomic == Push(Nobody, FALSE) /\ UNCHANGED setting

\* audit_actor(u): remembers the setting and writes its own.  In a request it
\* is always inside the view's transaction, and names somebody.
EnterActor(u) ==
  /\ requester = Nobody \/ (Depth > 0 /\ u # Nobody)
  /\ Push(u, TRUE)
  /\ setting' = u

\* Mutant: the previous actor is not put back.
Restored_NotRestored == setting

\* What the setting is once a block has ended well: audit_actor puts back
\* what it found, a plain block leaves it alone.
Restored == IF Top.named THEN Top.setting ELSE setting

\* The block ends well: its savepoint is released, the setting stays.
Leave ==
  /\ Depth > 1 /\ ~raised /\ upload = NoKey
  /\ setting' = Restored
  /\ frames' = SubSeq(frames, 1, Depth - 1)
  /\ UNCHANGED <<requester, raised, rows, filed, storage, calendar, began>>

\* SET LOCAL ends with the transaction.
AfterTransaction == Nobody

Reset ==
  /\ frames' = <<>> /\ setting' = AfterTransaction /\ raised' = FALSE
  /\ pending' = <<>> /\ documents' = {} /\ upload' = NoKey /\ requester' = Nobody

\* The outermost block ends well.
Commit ==
  /\ Depth = 1 /\ ~raised /\ upload = NoKey
  /\ filed' = filed \cup documents
  /\ Reset
  /\ UNCHANGED <<stored, calendar, began>>

\* The trigger's INSERT: the row's occurred_at is when the transaction began,
\* and without a partition for that the statement fails.
AuditedWrite ==
  /\ Depth > 0 /\ ~raised /\ Len(pending) < MaxRows
  /\ \/ /\ began \in partitions
        /\ pending' = Append(pending,
             [by |-> setting, meant |-> Meant, requester |-> requester])
        /\ UNCHANGED raised
     \/ /\ began \notin partitions
        /\ raised' = TRUE
        /\ UNCHANGED pending
  /\ UNCHANGED <<requester, frames, setting, documents, filed, storage, calendar, began>>

\* A check refuses, a constraint bites, object storage does not answer.
Raise ==
  /\ Depth > 0 /\ ~raised
  /\ raised' = TRUE
  /\ UNCHANGED <<requester, frames, setting, rows, filed, storage, calendar, began>>

\* The exception leaves the innermost block, which is rolled back, and is
\* caught outside it or goes on.
Unwind ==
  /\ raised /\ Depth > 1
  /\ setting' = Top.setting
  /\ pending' = SubSeq(pending, 1, Top.rows)
  /\ documents' = Top.documents
  /\ frames' = SubSeq(frames, 1, Depth - 1)
  /\ raised' \in BOOLEAN
  /\ upload' = NoKey
  /\ UNCHANGED <<requester, filed, stored, calendar, began>>

\* The exception leaves the transaction, or the worker dies.
Abort ==
  /\ Depth > 0
  /\ Reset
  /\ UNCHANGED <<filed, stored, calendar, began>>

---------------------------------------------------------------------------
\* Documents.

\* Mutant: the row is made first and the bytes when the transaction is over.
StoreBytes_Later(k) ==
  /\ Depth > 0 /\ ~raised /\ upload = NoKey
  /\ k \notin stored
  /\ upload' = k
  /\ UNCHANGED <<work, rows, filed, stored, calendar, began>>

\* upload_document, once the size is accepted: the bytes first.
StoreBytes(k) ==
  /\ Depth > 0 /\ ~raised /\ upload = NoKey
  /\ k \notin stored
  /\ stored' = stored \cup {k}
  /\ upload' = k
  /\ UNCHANGED <<work, rows, filed, calendar, began>>

\* Then, in an audit_actor block of its own, the row.
RecordDocument ==
  /\ upload # NoKey /\ ~raised /\ Top.named
  /\ documents' = documents \cup {upload}
  /\ upload' = NoKey
  /\ UNCHANGED <<work, pending, filed, stored, calendar, began>>

---------------------------------------------------------------------------
\* Partitions.

NextQuarter ==
  /\ quarter < MaxQuarter
  /\ quarter' = quarter + 1
  /\ UNCHANGED <<work, rows, filed, storage, partitions, started, began>>

\* A container starts: ensure_audit_partitions.
EnsurePartitions ==
  /\ partitions' = partitions \cup Window(quarter)
  /\ started' = quarter
  /\ UNCHANGED <<work, rows, filed, storage, quarter, began>>

Next ==
  \/ \E u \in Users : Arrive(u) \/ EnterActor(u)
  \/ EnterActor(Nobody)
  \/ EnterAtomic \/ Leave \/ Commit \/ AuditedWrite \/ Raise \/ Unwind \/ Abort
  \/ \E k \in Keys : StoreBytes(k)
  \/ RecordDocument \/ NextQuarter \/ EnsurePartitions

Spec == Init /\ [][Next]_vars
---------------------------------------------------------------------------
\* Properties

TypeOK ==
  /\ requester \in Actors /\ setting \in Actors /\ raised \in BOOLEAN
  /\ frames \in Seq(Frame)
  /\ pending \in Seq(AuditRow)
  /\ documents \subseteq Keys /\ filed \subseteq Keys /\ stored \subseteq Keys
  /\ upload \in Keys \cup {NoKey}
  /\ quarter \in Nat /\ began \in Nat /\ started \in Nat
  /\ partitions \subseteq Nat

\* audit_actor's promise: an audit row names the actor of the
\* innermost audit_actor around the write, and nobody outside of any, across
\* nested blocks, exceptions caught half way out, and the work the connection
\* did before.
Attributed == \A i \in 1..Len(pending) : pending[i].by = pending[i].meant

\* The middleware's promise: what a signed-in user's request writes names that
\* user, or whoever an audit_actor named.
NamesRequester ==
  \A i \in 1..Len(pending) : pending[i].by = Nobody => pending[i].requester = Nobody

\* upload_document's order: a committed document row has its bytes, whatever
\* is rolled back, caught or killed in between.
RowsHaveBytes == filed \subseteq stored

\* There is a partition for today unless the first migration's window is over
\* and no container has started for Ahead quarters.
PartitionUnlessIdle ==
  quarter \notin partitions => quarter > Initial /\ quarter >= started + Ahead
=============================================================================
