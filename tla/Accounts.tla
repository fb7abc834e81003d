------------------------------ MODULE Accounts ------------------------------
(***************************************************************************)
(* Logins: the row of auth_user_accounts as concurrent requests write it.  *)
(*                                                                         *)
(* Every request loads the row without a lock, works on its copy and saves *)
(* some columns of it.  authenticate() saves the failure counter it has    *)
(* computed; the account services save constants to named columns; the     *)
(* admin form saves every column, the password hash it happened to load    *)
(* included.  A save waits for the row lock and commits with the request,  *)
(* so saving and committing are one step, and what can come in between is  *)
(* whatever commits after the load.                                        *)
(*                                                                         *)
(* There is one account per employee (uk_user_accounts_employee), so an    *)
(* account stands for its employee too.  Every password set gets a salt of *)
(* its own, so hashes are numbered in the order they are made.             *)
(***************************************************************************)
EXTENDS Naturals

CONSTANTS
  Accounts,     \* employees, and the login each may have
  Clients,      \* browsers and staff; each runs one request at a time
  MaxFailures,  \* LOGIN_MAX_FAILURES
  LockSpan,     \* LOGIN_LOCKOUT_MINUTES, in ticks of the clock
  MaxClock, MaxHashes, MaxStreak,   \* bounds of the instance
  TypedCounts, TypedLocks,   \* what an administrator may type for a counter, a lock
  NoAccount     \* what an idle client works on

AccountsAssumption ==
  /\ NoAccount \notin Accounts
  /\ MaxFailures \in Nat \ {0} /\ LockSpan \in Nat \ {0}
  /\ MaxClock \in Nat /\ MaxHashes \in Nat /\ MaxStreak \in Nat
  /\ TypedCounts \subseteq Nat /\ TypedLocks \subseteq Nat

VARIABLES
  row,      \* row[a]: the committed row of account a
  gone,     \* gone[a]: how employee a got its deleted_at, if it has one
  clock,    \* timezone.now()
  made,     \* how many password hashes have been made
  job,      \* job[c]: the request client c is running, and its copy of the row
  issued,   \* the hashes of passwords somebody else chose
  latest,   \* latest[a]: the hash last set for a on purpose
  streak,   \* streak[a]: failed logins in a row, in the order they committed
  caveats   \* caveats[a]: kinds of request that saved a from a stale copy, and
            \* "count", "must" and "revive": what an administrator did to a
            \* counter, a flag or a removed employee on purpose

vars == <<row, gone, clock, made, job, issued, latest, streak, caveats>>

Hashes == 0..MaxHashes          \* 0: none

Row == [exists : BOOLEAN, active : BOOLEAN, must : BOOLEAN, hash : Hashes,
        fails : Nat, until : Nat]

NoRow == [exists |-> FALSE, active |-> FALSE, must |-> FALSE, hash |-> 0,
          fails |-> 0, until |-> 0]

Kinds == {"idle", "login", "change", "render", "edit", "remove"}

\* fresh: nobody has saved the row since the request read it.
Job == [kind : Kinds, on : Accounts \cup {NoAccount}, copy : Row,
        right : BOOLEAN, fresh : BOOLEAN]

NoJob == [kind |-> "idle", on |-> NoAccount, copy |-> NoRow,
          right |-> FALSE, fresh |-> TRUE]

\* What a save of the account may have against it.
Caveats == Kinds \cup {"count", "must", "revive"}

Locked(r) == r.until > clock

\* user_can_authenticate.  UserAccount.deleted_at, which only the admin form
\* can set, counts as not active.
MayAuthenticate(r) == r.exists /\ r.active

---------------------------------------------------------------------------

Init ==
  /\ row = [a \in Accounts |-> NoRow]
  /\ gone = [a \in Accounts |-> "no"]
  /\ clock = 0 /\ made = 0
  /\ job = [c \in Clients |-> NoJob]
  /\ issued = {}
  /\ latest = [a \in Accounts |-> 0]
  /\ streak = [a \in Accounts |-> 0]
  /\ caveats = [a \in Accounts |-> {}]

\* copy is as much of the row as the request uses later on.
Start(c, kind, a, copy, right) ==
  /\ job[c].kind = "idle"
  /\ job' = [job EXCEPT ![c] =
       [kind |-> kind, on |-> a, copy |-> copy, right |-> right, fresh |-> TRUE]]

\* What a login keeps of the row it has loaded.
Standing(a) == [row[a] EXCEPT !.must = FALSE, !.until = 0]

\* A save of a's row: the other requests that have read it are out of date.
Outdate(jobs, a) ==
  [c \in Clients |-> IF jobs[c].on = a THEN [jobs[c] EXCEPT !.fresh = FALSE] ELSE jobs[c]]

Write(a, r) ==
  /\ row' = [row EXCEPT ![a] = r]
  /\ job' = Outdate(job, a)

\* The same by client c, whose request ends with it.
WriteAndEnd(c, r) ==
  /\ row' = [row EXCEPT ![job[c].on] = r]
  /\ job' = Outdate([job EXCEPT ![c] = NoJob], job[c].on)

\* What ending c's request leaves on record about its copy.
NoteStale(c) ==
  caveats' = [caveats EXCEPT ![job[c].on] =
                @ \cup (IF job[c].fresh THEN {} ELSE {job[c].kind})]

---------------------------------------------------------------------------
\* Signing in and out.

\* authenticate() loads the row; a running lock refuses at once, without
\* counting.
BeginLogin(c, a) ==
  /\ row[a].exists /\ ~Locked(row[a])
  /\ \E right \in BOOLEAN : Start(c, "login", a, Standing(a), right)
  /\ UNCHANGED <<row, gone, clock, made, issued, latest, streak, caveats>>

\* Mutant: a success leaves the counter alone.
OnSuccess_CountKept(c) == [row[job[c].on] EXCEPT !.until = 0]

\* Mutant: save() without update_fields.
OnSuccess_WholeRow(c) ==
  [row[job[c].on] EXCEPT !.hash = job[c].copy.hash, !.fails = 0, !.until = 0]

OnSuccess(c) == [row[job[c].on] EXCEPT !.fails = 0, !.until = 0]

\* _on_failure: the copy's counter plus one, and a lock only when that
\* reaches the limit, so that the lock column is otherwise left as it is.
OnFailure(c) ==
  LET count == job[c].copy.fails + 1
  IN  IF count >= MaxFailures
      THEN [row[job[c].on] EXCEPT !.fails = count, !.until = clock + LockSpan]
      ELSE [row[job[c].on] EXCEPT !.fails = count]

\* The right password of an account that may not sign in counts as a failure.
Succeeds(c) == job[c].right /\ MayAuthenticate(job[c].copy)

FinishLogin(c) ==
  /\ job[c].kind = "login"
  /\ \/ /\ Succeeds(c)
        /\ WriteAndEnd(c, OnSuccess(c))
        /\ streak' = [streak EXCEPT ![job[c].on] = 0]
     \/ /\ ~Succeeds(c)
        /\ streak[job[c].on] < MaxStreak
        /\ WriteAndEnd(c, OnFailure(c))
        /\ streak' = [streak EXCEPT ![job[c].on] = @ + 1]
  /\ NoteStale(c)
  /\ UNCHANGED <<gone, clock, made, issued, latest>>

---------------------------------------------------------------------------
\* Passwords.

\* The columns a password change writes, whoever makes it.
WithPassword(r, must) ==
  [r EXCEPT !.hash = made + 1, !.must = must, !.fails = 0, !.until = 0]

NewHash(a) ==
  /\ made < MaxHashes
  /\ made' = made + 1
  /\ latest' = [latest EXCEPT ![a] = made + 1]
  /\ streak' = [streak EXCEPT ![a] = 0]

\* It writes every column but is_active, so that no earlier save of them matters
\* any more.
Mend(a) == caveats' = [caveats EXCEPT ![a] = @ \ {"login", "edit", "count", "must"}]

\* change_own_password: the old password is checked against the user the
\* session middleware loaded, and nothing of that copy is used again.
BeginChange(c, a) ==
  /\ MayAuthenticate(row[a])
  /\ Start(c, "change", a, NoRow, TRUE)
  /\ UNCHANGED <<row, gone, clock, made, issued, latest, streak, caveats>>

FinishChange(c) ==
  /\ job[c].kind = "change"
  /\ NewHash(job[c].on)
  /\ WriteAndEnd(c, WithPassword(row[job[c].on], FALSE))
  /\ Mend(job[c].on)
  /\ UNCHANGED <<gone, clock, issued>>

\* Mutant: the reset forgets must_change_password.
SetPasswordFor_Unforced(a) ==
  /\ row[a].exists
  /\ NewHash(a)
  /\ Write(a, WithPassword(row[a], row[a].must))
  /\ issued' = issued \cup {made + 1}
  /\ Mend(a)
  /\ UNCHANGED <<gone, clock>>

\* set_password_for writes constants only.
SetPasswordFor(a) ==
  /\ row[a].exists
  /\ NewHash(a)
  /\ Write(a, WithPassword(row[a], TRUE))
  /\ issued' = issued \cup {made + 1}
  /\ Mend(a)
  /\ UNCHANGED <<gone, clock>>

---------------------------------------------------------------------------
\* Accounts and employees.

\* create_user_account, bootstrap_admin: refused when the employee has an
\* account, by the check or by the unique key; deleted_at is not looked at.
CreateUserAccount(a) ==
  /\ ~row[a].exists
  /\ NewHash(a)
  /\ Write(a, [WithPassword(NoRow, TRUE) EXCEPT !.exists = TRUE, !.active = TRUE])
  /\ issued' = issued \cup {made + 1}
  /\ caveats' = [caveats EXCEPT ![a] = @ \cup (IF gone[a] = "no" THEN {} ELSE {"revive"})]
  /\ UNCHANGED <<gone, clock>>

DeactivateUserAccount(a) ==
  /\ MayAuthenticate(row[a])
  /\ Write(a, [row[a] EXCEPT !.active = FALSE])
  /\ UNCHANGED <<gone, clock, made, issued, latest, streak, caveats>>

\* UserAccountAdmin: the page is rendered from the row ...
Render(c, a) ==
  /\ row[a].exists
  /\ Start(c, "render", a, [row[a] EXCEPT !.hash = 0], FALSE)
  /\ UNCHANGED <<row, gone, clock, made, issued, latest, streak, caveats>>

\* ... posting it loads the row again, of which only the hash survives ...
BeginEdit(c) ==
  /\ job[c].kind = "render"
  /\ job' = [job EXCEPT ![c].kind = "edit", ![c].copy.hash = row[job[c].on].hash]
  /\ UNCHANGED <<row, gone, clock, made, issued, latest, streak, caveats>>

\* ... and saves every column: the password as just loaded, the others as the
\* page showed them or as the administrator typed them, each for itself.
FormRow(c, active, must, fails, until) ==
  [job[c].copy EXCEPT !.active = active, !.must = must, !.fails = fails, !.until = until]

\* What the administrator has typed, other than an end to a run of failures.
Typed(c, must, fails, until) ==
  (IF must = job[c].copy.must THEN {} ELSE {"must"})
  \cup (IF <<fails, until>> \in {<<0, 0>>, <<job[c].copy.fails, job[c].copy.until>>}
        THEN {} ELSE {"count"})

FinishEdit(c) ==
  /\ job[c].kind = "edit"
  /\ \E active, must \in BOOLEAN,
        fails \in TypedCounts \cup {job[c].copy.fails}, until \in TypedLocks \cup {job[c].copy.until} :
        /\ WriteAndEnd(c, FormRow(c, active, must, fails, until))
        /\ streak' = [streak EXCEPT ![job[c].on] = IF fails = 0 /\ until = 0 THEN 0 ELSE @]
        /\ caveats' = [caveats EXCEPT ![job[c].on] =
             @ \cup (IF job[c].fresh THEN {} ELSE {"edit"})
               \cup Typed(c, must, fails, until)
               \cup (IF active /\ gone[job[c].on] # "no" THEN {"revive"} ELSE {})]
  /\ UNCHANGED <<gone, clock, made, issued, latest>>

\* soft_delete_employee has written deleted_at and looks for the account.
BeginRemove(c, a) ==
  /\ gone[a] = "no"
  /\ Start(c, "remove", a, [Standing(a) EXCEPT !.fails = 0, !.hash = 0], FALSE)
  /\ UNCHANGED <<row, gone, clock, made, issued, latest, streak, caveats>>

\* Mutant: the account is left for the administrator.
FinishRemove_EmployeeOnly(c) ==
  /\ job[c].kind = "remove"
  /\ gone' = [gone EXCEPT ![job[c].on] = "removed"]
  /\ WriteAndEnd(c, row[job[c].on])
  /\ NoteStale(c)
  /\ UNCHANGED <<clock, made, issued, latest, streak>>

\* It deactivates the account it found, if that was active.
FinishRemove(c) ==
  /\ job[c].kind = "remove"
  /\ gone' = [gone EXCEPT ![job[c].on] = "removed"]
  /\ WriteAndEnd(c, IF MayAuthenticate(job[c].copy)
                    THEN [row[job[c].on] EXCEPT !.active = FALSE]
                    ELSE row[job[c].on])
  /\ NoteStale(c)
  /\ UNCHANGED <<clock, made, issued, latest, streak>>

\* EmployeeAdmin: deleted_at typed into the form, and nothing else happens.
MarkDeleted(a) ==
  /\ gone[a] = "no"
  /\ gone' = [gone EXCEPT ![a] = "marked"]
  /\ UNCHANGED <<row, clock, made, job, issued, latest, streak, caveats>>

\* A request dies before it commits, or its page is never posted.
Abandon(c) ==
  /\ job[c].kind # "idle"
  /\ job' = [job EXCEPT ![c] = NoJob]
  /\ UNCHANGED <<row, gone, clock, made, issued, latest, streak, caveats>>

Tick ==
  /\ clock < MaxClock
  /\ clock' = clock + 1
  /\ UNCHANGED <<row, gone, made, job, issued, latest, streak, caveats>>

Next ==
  \/ \E c \in Clients : FinishLogin(c) \/ FinishChange(c)
       \/ BeginEdit(c) \/ FinishEdit(c) \/ FinishRemove(c) \/ Abandon(c)
  \/ \E c \in Clients, a \in Accounts : BeginLogin(c, a) \/ BeginChange(c, a)
       \/ Render(c, a) \/ BeginRemove(c, a)
  \/ \E a \in Accounts : SetPasswordFor(a) \/ CreateUserAccount(a)
       \/ DeactivateUserAccount(a) \/ MarkDeleted(a)
  \/ Tick

Spec == Init /\ [][Next]_vars
---------------------------------------------------------------------------
\* Properties

TypeOK ==
  /\ row \in [Accounts -> Row]
  /\ gone \in [Accounts -> {"no", "removed", "marked"}]
  /\ clock \in 0..MaxClock /\ made \in Hashes
  /\ job \in [Clients -> Job]
  /\ issued \subseteq Hashes
  /\ latest \in [Accounts -> Hashes]
  /\ streak \in [Accounts -> Nat]
  /\ caveats \in [Accounts -> SUBSET Caveats]

\* The backend's docstring: lockout punishes a run of failures.  The counter
\* is the number of failed logins in a row and a lock stands on a full run,
\* unless, since the password was last set, a login or an admin form saved a
\* stale copy of the row or an administrator typed another counter or lock.
CountIsStreak ==
  \A a \in Accounts :
    caveats[a] \cap {"login", "edit", "count"} = {} =>
      /\ row[a].fails = streak[a]
      /\ row[a].until > 0 => streak[a] >= MaxFailures

\* The password of an account is the one last set for it, however logins,
\* changes, resets and removals interleave: only an admin form that was open
\* meanwhile can bring an older one back.
PasswordStands ==
  \A a \in Accounts : "edit" \notin caveats[a] => row[a].hash = latest[a]

\* An account is made to change its password exactly while somebody else
\* chose the one it has: a reset that races the user's own change leaves hash
\* and flag of the same writer.  An admin form breaks the pair, a stale one or
\* one in which the flag itself was changed, until a password is set again.
MustMeansIssued ==
  \A a \in Accounts :
    caveats[a] \cap {"edit", "must"} = {} => (row[a].must <=> row[a].hash \in issued)

\* soft_delete_employee's promise: the account is deactivated with its
\* employee, unless it was saved while the employee was being removed, or
\* was created or activated afterwards.
RemovedStayOut ==
  \A a \in Accounts :
    gone[a] = "removed" /\ MayAuthenticate(row[a]) =>
      caveats[a] \cap {"remove", "revive"} # {}
=============================================================================
