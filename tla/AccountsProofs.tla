--------------------------- MODULE AccountsProofs ---------------------------
(***************************************************************************)
(* What Accounts promises for any accounts, browsers, limits and lengths   *)
(* of a lockout.  The strengthening is AccountInv: a request that nobody   *)
(* overtook has a faithful copy of what it read, and no hash in any row or *)
(* copy is newer than the last one made.                                   *)
(***************************************************************************)
EXTENDS Accounts, TLAPS

\* What a request of a kind relies on of its copy of the row r.
Faithful(kind, copy, r) ==
  /\ kind = "login" => copy.fails = r.fails
  /\ kind = "remove" => copy.exists = r.exists /\ copy.active = r.active
  /\ kind \in {"render", "edit"} =>
       copy.must = r.must /\ copy.fails = r.fails /\ copy.until = r.until
  /\ kind = "edit" => copy.hash = r.hash

CopyInv(c) ==
  job[c].kind # "idle" =>
    /\ job[c].on \in Accounts
    /\ job[c].copy.hash \in 0..made
    /\ job[c].fresh => Faithful(job[c].kind, job[c].copy, row[job[c].on])

HashInv == issued \subseteq 1..made /\ \A a \in Accounts : row[a].hash \in 0..made

Counted(a) ==
  caveats[a] \cap {"login", "edit", "count"} = {} =>
    /\ row[a].fails = streak[a]
    /\ row[a].until > 0 => streak[a] >= MaxFailures

Owned(a) ==
  /\ "edit" \notin caveats[a] => row[a].hash = latest[a]
  /\ caveats[a] \cap {"edit", "must"} = {} => (row[a].must <=> row[a].hash \in issued)

KeptOut(a) ==
  gone[a] = "removed" /\ MayAuthenticate(row[a]) =>
    caveats[a] \cap {"remove", "revive"} # {}

Good(a) == Counted(a) /\ Owned(a) /\ KeptOut(a)

AccountInv ==
  /\ TypeOK /\ HashInv
  /\ \A c \in Clients : CopyInv(c)
  /\ \A a \in Accounts : Good(a)

---------------------------------------------------------------------------

LEMMA AccountInit == ASSUME AccountsAssumption, Init PROVE AccountInv
<1>1. TypeOK
  BY DEF AccountsAssumption, Init, TypeOK, Row, NoRow, Hashes, Job, NoJob, Kinds
<1>2. HashInv /\ (\A c \in Clients : CopyInv(c)) /\ (\A a \in Accounts : Good(a))
  BY DEF Init, HashInv, CopyInv, Good, Counted, Owned, KeptOut, NoRow, NoJob
<1> QED BY <1>1, <1>2 DEF AccountInv

\* A request begins with a faithful copy and changes nothing yet.
LEMMA StartKeeps ==
  ASSUME AccountInv, NEW c \in Clients, NEW a \in Accounts,
         NEW kind \in Kinds \ {"idle"}, NEW right \in BOOLEAN, NEW copy \in Row,
         copy.hash \in 0..made, Faithful(kind, copy, row[a]),
         Start(c, kind, a, copy, right),
         UNCHANGED <<row, gone, clock, made, issued, latest, streak, caveats>>
  PROVE  AccountInv'
<1>1. job' = [job EXCEPT ![c] =
        [kind |-> kind, on |-> a, copy |-> copy, right |-> right, fresh |-> TRUE]]
  BY DEF Start
<1>2. TypeOK'
  BY <1>1 DEF AccountInv, TypeOK, Job
<1>3. \A d \in Clients : CopyInv(d)'
  <2> SUFFICES ASSUME NEW d \in Clients PROVE CopyInv(d)'
    OBVIOUS
  <2>1. CASE d = c
    BY <1>1, <2>1 DEF AccountInv, TypeOK, CopyInv
  <2>2. CASE d # c
    BY <1>1, <2>2 DEF AccountInv, TypeOK, CopyInv
  <2> QED BY <2>1, <2>2
<1>4. HashInv' /\ \A b \in Accounts : Good(b)'
  BY DEF AccountInv, HashInv, Good, Counted, Owned, KeptOut, MayAuthenticate
<1> QED BY <1>2, <1>3, <1>4 DEF AccountInv

\* A save of account a's row, by a request that ends or by one that is a single
\* step: the copies others have of it are stale, other accounts as they were.
LEMMA SaveKeeps ==
  ASSUME AccountInv, TypeOK', NEW a \in Accounts, NEW r \in Row,
         row' = [row EXCEPT ![a] = r],
         \A c \in Clients :
           \/ job'[c] = NoJob
           \/ job'[c] = [job[c] EXCEPT !.fresh = FALSE]
           \/ job'[c] = job[c] /\ job[c].on # a,
         \/ made' = made /\ issued' = issued
         \/ made' = made + 1 /\ issued' \in {issued, issued \cup {made + 1}},
         r.hash \in 0..made',
         \A b \in Accounts \ {a} :
           /\ gone'[b] = gone[b] /\ latest'[b] = latest[b]
           /\ streak'[b] = streak[b] /\ caveats'[b] = caveats[b],
         Good(a)'
  PROVE  AccountInv'
<1>1. made \in Nat /\ made' \in Nat /\ made <= made'
  BY DEF AccountInv, TypeOK, Hashes
<1>2. /\ row'[a] = r
      /\ \A b \in Accounts \ {a} : row'[b] = row[b]
  BY DEF AccountInv, TypeOK
<1>3. HashInv'
  BY <1>1, <1>2 DEF AccountInv, HashInv
<1>4. \A c \in Clients : CopyInv(c)'
  <2> SUFFICES ASSUME NEW c \in Clients PROVE CopyInv(c)'
    OBVIOUS
  <2>1. CopyInv(c) /\ job[c] \in Job
    BY DEF AccountInv, TypeOK
  <2>2. CASE job'[c] = NoJob
    BY <2>2 DEF CopyInv, NoJob
  <2>3. CASE job'[c] = [job[c] EXCEPT !.fresh = FALSE]
    BY <1>1, <2>1, <2>3 DEF CopyInv, Job
  <2>4. CASE job'[c] = job[c] /\ job[c].on # a
    BY <1>1, <1>2, <2>1, <2>4 DEF CopyInv
  <2> QED BY <2>2, <2>3, <2>4
<1>5. ASSUME NEW b \in Accounts, b # a PROVE Good(b)'
  <2>1. Good(b) /\ row[b].hash \in 0..made
    BY DEF AccountInv, HashInv
  <2>2. row[b].hash \in issued' <=> row[b].hash \in issued
    BY <1>1, <2>1
  <2> QED BY <1>2, <1>5, <2>1, <2>2 DEF Good, Counted, Owned, KeptOut, MayAuthenticate
<1> QED BY <1>3, <1>4, <1>5 DEF AccountInv

\* Outdate in the form SaveKeeps has it.
LEMMA OutdateMarks ==
  ASSUME TypeOK, NEW a \in Accounts, job' = Outdate(job, a)
  PROVE  /\ job' \in [Clients -> Job]
         /\ \A c \in Clients :
              \/ job'[c] = [job[c] EXCEPT !.fresh = FALSE]
              \/ job'[c] = job[c] /\ job[c].on # a
  BY DEF TypeOK, Outdate, Job

LEMMA EndingMarks ==
  ASSUME AccountsAssumption, TypeOK, NEW c \in Clients, job[c].on \in Accounts,
         job' = Outdate([job EXCEPT ![c] = NoJob], job[c].on)
  PROVE  /\ job' \in [Clients -> Job]
         /\ \A d \in Clients :
              \/ job'[d] = NoJob
              \/ job'[d] = [job[d] EXCEPT !.fresh = FALSE]
              \/ job'[d] = job[d] /\ job[d].on # job[c].on
<1>1. NoJob \in Job /\ NoJob.on = NoAccount
  BY DEF AccountsAssumption, NoJob, Job, Kinds, NoRow, Row, Hashes
<1>2. job'[c] = NoJob
  BY <1>1 DEF Outdate, TypeOK, AccountsAssumption
<1>3. \A d \in Clients \ {c} :
        job'[d] = IF job[d].on = job[c].on THEN [job[d] EXCEPT !.fresh = FALSE] ELSE job[d]
  BY DEF Outdate, TypeOK
<1>4. \A d \in Clients : job[d] \in Job /\ [job[d] EXCEPT !.fresh = FALSE] \in Job
  BY DEF TypeOK, Job
<1>5. job' \in [Clients -> Job]
  <2>1. job' = [d \in Clients |-> job'[d]]
    BY DEF Outdate
  <2> QED BY <1>1, <1>2, <1>3, <1>4, <2>1
<1> QED BY <1>2, <1>3, <1>5

\* What is known of a request at work and of the row it works on.
LEMMA AtWork ==
  ASSUME AccountInv, NEW c \in Clients, job[c].kind # "idle"
  PROVE  /\ job[c].on \in Accounts
         /\ job[c].copy \in Row /\ job[c].copy.hash \in 0..made
         /\ row[job[c].on] \in Row /\ row[job[c].on].hash \in 0..made
         /\ Good(job[c].on) /\ CopyInv(c)
         /\ job[c].kind \in Kinds /\ job[c].fresh \in BOOLEAN
  BY DEF AccountInv, TypeOK, HashInv, CopyInv, Job

LEMMA EndingTypes ==
  ASSUME AccountsAssumption, AccountInv, NEW c \in Clients, job[c].kind # "idle",
         NEW r \in Row, WriteAndEnd(c, r)
  PROVE  row' \in [Accounts -> Row] /\ job' \in [Clients -> Job]
<1>1. job[c].on \in Accounts
  BY AtWork
<1>2. TypeOK
  BY DEF AccountInv
<1> QED BY <1>1, <1>2, EndingMarks DEF WriteAndEnd, TypeOK

\* A request that ends with a save.
LEMMA EndKeeps ==
  ASSUME AccountsAssumption, AccountInv, TypeOK', NEW c \in Clients,
         job[c].kind # "idle", NEW a \in Accounts, a = job[c].on,
         NEW r \in Row, WriteAndEnd(c, r),
         \/ made' = made /\ issued' = issued
         \/ made' = made + 1 /\ issued' \in {issued, issued \cup {made + 1}},
         r.hash \in 0..made',
         \A b \in Accounts \ {a} :
           /\ gone'[b] = gone[b] /\ latest'[b] = latest[b]
           /\ streak'[b] = streak[b] /\ caveats'[b] = caveats[b],
         Good(a)'
  PROVE  AccountInv'
<1>1. TypeOK
  BY DEF AccountInv
<1>2. \A d \in Clients :
        \/ job'[d] = NoJob
        \/ job'[d] = [job[d] EXCEPT !.fresh = FALSE]
        \/ job'[d] = job[d] /\ job[d].on # a
  BY <1>1, EndingMarks DEF WriteAndEnd
<1>3. row' = [row EXCEPT ![a] = r]
  BY DEF WriteAndEnd
<1> QED BY <1>2, <1>3, SaveKeeps

---------------------------------------------------------------------------
\* Signing in.

LEMMA FinishLoginKeeps ==
  ASSUME AccountsAssumption, AccountInv, NEW c \in Clients, FinishLogin(c)
  PROVE  AccountInv'
<1>1. job[c].kind = "login"
  BY DEF FinishLogin
<1>2. PICK a \in Accounts : a = job[c].on
  BY <1>1, AtWork
<1>3. /\ job[c].copy \in Row /\ row[a] \in Row /\ row[a].hash \in 0..made
      /\ Good(a) /\ job[c].fresh \in BOOLEAN
      /\ job[c].fresh => job[c].copy.fails = row[a].fails
  BY <1>1, <1>2, AtWork DEF CopyInv, Faithful
<1>4. TypeOK
  BY DEF AccountInv
<1>5. /\ UNCHANGED <<gone, clock, made, issued, latest>>
      /\ caveats' = [caveats EXCEPT ![a] =
                        @ \cup (IF job[c].fresh THEN {} ELSE {"login"})]
  BY <1>1, <1>2 DEF FinishLogin, NoteStale
<1>6. caveats' \in [Accounts -> SUBSET Caveats]
  BY <1>2, <1>4, <1>5 DEF TypeOK, Kinds, Caveats
<1>7. ASSUME NEW r \in Row, NEW n \in Nat, WriteAndEnd(c, r),
             streak' = [streak EXCEPT ![a] = n],
             r.hash = row[a].hash, r.must = row[a].must,
             r.exists = row[a].exists, r.active = row[a].active,
             caveats[a] \cap {"login", "edit", "count"} = {} /\ job[c].fresh =>
               r.fails = n /\ (r.until > 0 => n >= MaxFailures)
      PROVE  AccountInv'
  <2>1. row' = [row EXCEPT ![a] = r]
    BY <1>2, <1>7 DEF WriteAndEnd
  <2>2. TypeOK'
    BY <1>1, <1>4, <1>5, <1>6, <1>7, EndingTypes DEF TypeOK
  <2>3. row'[a] = r /\ streak'[a] = n
    BY <1>4, <1>7, <2>1 DEF TypeOK
  <2>4. caveats[a] \subseteq caveats'[a] /\ (~job[c].fresh => "login" \in caveats'[a])
    BY <1>4, <1>5 DEF TypeOK
  <2>5. Good(a)'
    BY <1>3, <1>5, <1>7, <2>3, <2>4 DEF Good, Counted, Owned, KeptOut, MayAuthenticate
  <2>6. \A b \in Accounts \ {a} :
          /\ gone'[b] = gone[b] /\ latest'[b] = latest[b]
          /\ streak'[b] = streak[b] /\ caveats'[b] = caveats[b]
    BY <1>4, <1>5, <1>7 DEF TypeOK
  <2> QED BY <1>1, <1>2, <1>3, <1>5, <1>7, <2>2, <2>5, <2>6, EndKeeps
<1>8. CASE /\ WriteAndEnd(c, OnSuccess(c))
           /\ streak' = [streak EXCEPT ![job[c].on] = 0]
  <2>1. PICK r \in Row : r = OnSuccess(c)
    BY <1>2, <1>3 DEF OnSuccess, Row
  <2>2. /\ r.hash = row[a].hash /\ r.must = row[a].must /\ r.exists = row[a].exists
        /\ r.active = row[a].active /\ r.fails = 0 /\ r.until = 0
    BY <1>2, <1>3, <2>1 DEF OnSuccess, Row
  <2>3. PICK n \in Nat : n = 0
    OBVIOUS
  <2>4. WriteAndEnd(c, r) /\ streak' = [streak EXCEPT ![a] = n]
    BY <1>2, <1>8, <2>1, <2>3
  <2>5. r.fails = n /\ ~(r.until > 0)
    BY <2>2, <2>3
  <2> QED BY <1>7, <2>2, <2>4, <2>5
<1>9. CASE /\ WriteAndEnd(c, OnFailure(c))
           /\ streak' = [streak EXCEPT ![job[c].on] = @ + 1]
  <2>1. PICK count \in Nat : count = job[c].copy.fails + 1
    BY <1>3 DEF Row
  <2>2. PICK limit \in Nat : limit = IF count >= MaxFailures THEN clock + LockSpan ELSE row[a].until
    <3>1. clock + LockSpan \in Nat /\ row[a].until \in Nat
      BY <1>3, <1>4 DEF TypeOK, Row, AccountsAssumption
    <3> QED BY <3>1
  <2>3. PICK r \in Row : r = OnFailure(c)
    BY <1>2, <1>3, <2>1, <2>2 DEF OnFailure, Row
  <2>4. /\ r.hash = row[a].hash /\ r.must = row[a].must /\ r.exists = row[a].exists
        /\ r.active = row[a].active /\ r.fails = count /\ r.until = limit
    BY <1>2, <1>3, <2>1, <2>2, <2>3 DEF OnFailure, Row
  <2>5. streak[a] \in Nat /\ row[a].fails \in Nat /\ MaxFailures \in Nat
    BY <1>3, <1>4 DEF TypeOK, Row, AccountsAssumption
  <2>6. caveats[a] \cap {"login", "edit", "count"} = {} /\ job[c].fresh =>
          count = streak[a] + 1 /\ (limit > 0 => streak[a] + 1 >= MaxFailures)
    BY <1>3, <2>1, <2>2, <2>5 DEF Good, Counted
  <2>7. streak' = [streak EXCEPT ![a] = streak[a] + 1] /\ streak[a] + 1 \in Nat
    BY <1>2, <1>4, <1>9, <2>5 DEF TypeOK
  <2>8. WriteAndEnd(c, r)
    BY <1>9, <2>3
  <2> QED BY <1>7, <2>4, <2>6, <2>7, <2>8
<1> QED BY <1>8, <1>9 DEF FinishLogin
---------------------------------------------------------------------------
\* Passwords.

\* A save that is a request of one step.
LEMMA WriteKeeps ==
  ASSUME AccountInv, TypeOK', NEW a \in Accounts, NEW r \in Row, Write(a, r),
         \/ made' = made /\ issued' = issued
         \/ made' = made + 1 /\ issued' \in {issued, issued \cup {made + 1}},
         r.hash \in 0..made',
         \A b \in Accounts \ {a} :
           /\ gone'[b] = gone[b] /\ latest'[b] = latest[b]
           /\ streak'[b] = streak[b] /\ caveats'[b] = caveats[b],
         Good(a)'
  PROVE  AccountInv'
<1>1. TypeOK
  BY DEF AccountInv
<1>2. \A c \in Clients :
        \/ job'[c] = NoJob
        \/ job'[c] = [job[c] EXCEPT !.fresh = FALSE]
        \/ job'[c] = job[c] /\ job[c].on # a
  BY <1>1, OutdateMarks DEF Write
<1> QED BY <1>2, SaveKeeps DEF Write

\* What setting a password leaves of the caveats.
LEMMA Mended ==
  ASSUME TypeOK, NEW a \in Accounts, Mend(a)
  PROVE  /\ caveats' \in [Accounts -> SUBSET Caveats]
         /\ caveats[a] \cap {"remove", "revive"} \subseteq caveats'[a]
         /\ \A b \in Accounts \ {a} : caveats'[b] = caveats[b]
  BY DEF TypeOK, Mend

\* What setting a password makes of a row, and of the account's records.
LEMMA NewPassword ==
  ASSUME AccountsAssumption, AccountInv, NEW a \in Accounts, NewHash(a),
         NEW old \in Row, NEW must \in BOOLEAN
  PROVE  /\ WithPassword(old, must) \in Row
         /\ WithPassword(old, must).hash = made + 1
         /\ WithPassword(old, must).must = must
         /\ WithPassword(old, must).fails = 0 /\ WithPassword(old, must).until = 0
         /\ WithPassword(old, must).exists = old.exists
         /\ WithPassword(old, must).active = old.active
         /\ made' = made + 1 /\ made + 1 \in Hashes /\ made + 1 \in 0..made'
         /\ made + 1 \notin issued
         /\ latest' = [latest EXCEPT ![a] = made + 1] /\ latest' \in [Accounts -> Hashes]
         /\ streak' = [streak EXCEPT ![a] = 0] /\ streak' \in [Accounts -> Nat]
         /\ latest'[a] = made + 1 /\ streak'[a] = 0
<1>1. made + 1 \in Hashes /\ made \in Nat /\ made' = made + 1
  BY DEF AccountsAssumption, AccountInv, TypeOK, NewHash, Hashes
<1>2. made + 1 \notin issued
  BY <1>1 DEF AccountInv, HashInv
<1>3. /\ latest' = [latest EXCEPT ![a] = made + 1] /\ latest' \in [Accounts -> Hashes]
      /\ streak' = [streak EXCEPT ![a] = 0] /\ streak' \in [Accounts -> Nat]
      /\ latest'[a] = made + 1 /\ streak'[a] = 0
  BY <1>1 DEF NewHash, AccountInv, TypeOK
<1>4. /\ WithPassword(old, must) \in Row
      /\ WithPassword(old, must).hash = made + 1
      /\ WithPassword(old, must).must = must
      /\ WithPassword(old, must).fails = 0 /\ WithPassword(old, must).until = 0
      /\ WithPassword(old, must).exists = old.exists
      /\ WithPassword(old, must).active = old.active
  BY <1>1 DEF WithPassword, Row
<1> QED BY <1>1, <1>2, <1>3, <1>4

LEMMA FinishChangeKeeps ==
  ASSUME AccountsAssumption, AccountInv, NEW c \in Clients, FinishChange(c)
  PROVE  AccountInv'
<1>1. job[c].kind # "idle" /\ TypeOK
  BY DEF FinishChange, AccountInv
<1>2. PICK a \in Accounts : a = job[c].on
  BY <1>1, AtWork
<1>3. row[a] \in Row /\ Good(a) /\ NewHash(a)
  BY <1>1, <1>2, AtWork DEF FinishChange
<1>4. PICK r \in Row : r = WithPassword(row[a], FALSE)
  BY <1>3, NewPassword
<1>5. /\ r.hash = made + 1 /\ r.must = FALSE /\ r.fails = 0 /\ r.until = 0
      /\ r.exists = row[a].exists /\ r.active = row[a].active
      /\ made' = made + 1 /\ made + 1 \in Hashes /\ made + 1 \in 0..made'
      /\ made + 1 \notin issued
      /\ latest' = [latest EXCEPT ![a] = made + 1] /\ latest' \in [Accounts -> Hashes]
      /\ streak' = [streak EXCEPT ![a] = 0] /\ streak' \in [Accounts -> Nat]
      /\ latest'[a] = made + 1 /\ streak'[a] = 0
  BY <1>3, <1>4, NewPassword
<1>6. /\ WriteAndEnd(c, r) /\ UNCHANGED <<gone, clock, issued>>
      /\ caveats' \in [Accounts -> SUBSET Caveats]
      /\ caveats[a] \cap {"remove", "revive"} \subseteq caveats'[a]
      /\ \A b \in Accounts \ {a} : caveats'[b] = caveats[b]
  BY <1>1, <1>2, <1>4, Mended DEF FinishChange
<1>7. TypeOK'
  BY <1>1, <1>5, <1>6, EndingTypes DEF TypeOK
<1>8. row'[a] = r
  BY <1>1, <1>2, <1>6 DEF WriteAndEnd, TypeOK
<1>9. Good(a)'
  BY <1>3, <1>5, <1>6, <1>8 DEF Good, Counted, Owned, KeptOut, MayAuthenticate
<1>10. \A b \in Accounts \ {a} :
         /\ gone'[b] = gone[b] /\ latest'[b] = latest[b]
         /\ streak'[b] = streak[b] /\ caveats'[b] = caveats[b]
  BY <1>1, <1>5, <1>6 DEF TypeOK
<1> QED BY <1>1, <1>2, <1>5, <1>6, <1>7, <1>9, <1>10, EndKeeps

\* A password chosen by somebody else, for an account that exists or is made.
LEMMA IssueKeeps ==
  ASSUME AccountsAssumption, AccountInv, NEW a \in Accounts, NewHash(a),
         NEW r \in Row, Write(a, r), r.hash = made + 1, r.must, r.fails = 0, r.until = 0,
         issued' = issued \cup {made + 1}, UNCHANGED <<gone, clock>>,
         caveats' \in [Accounts -> SUBSET Caveats],
         caveats[a] \cap {"remove", "revive"} \subseteq caveats'[a],
         \A b \in Accounts \ {a} : caveats'[b] = caveats[b],
         \/ r.active = row[a].active /\ r.exists = row[a].exists
         \/ gone[a] = "no" \/ "revive" \in caveats'[a]
  PROVE  AccountInv'
<1>1. TypeOK /\ row[a] \in Row /\ Good(a)
  BY DEF AccountInv, TypeOK
<1>2. /\ made' = made + 1 /\ made + 1 \in Hashes /\ made + 1 \in 0..made'
      /\ latest' = [latest EXCEPT ![a] = made + 1] /\ latest' \in [Accounts -> Hashes]
      /\ streak' = [streak EXCEPT ![a] = 0] /\ streak' \in [Accounts -> Nat]
      /\ latest'[a] = made + 1 /\ streak'[a] = 0
  BY <1>1, NewPassword
<1>3. row' \in [Accounts -> Row] /\ job' \in [Clients -> Job] /\ row'[a] = r
  BY <1>1, OutdateMarks DEF Write, TypeOK
<1>4. TypeOK'
  BY <1>1, <1>2, <1>3 DEF TypeOK
<1>5. Counted(a)' /\ Owned(a)'
  BY <1>2, <1>3 DEF Counted, Owned
<1>6. KeptOut(a)'
  BY <1>1, <1>3 DEF Good, KeptOut, MayAuthenticate
<1>7. \A b \in Accounts \ {a} :
         /\ gone'[b] = gone[b] /\ latest'[b] = latest[b]
         /\ streak'[b] = streak[b] /\ caveats'[b] = caveats[b]
  BY <1>1, <1>2 DEF TypeOK
<1> QED BY <1>2, <1>4, <1>5, <1>6, <1>7, WriteKeeps DEF Good

LEMMA SetPasswordForKeeps ==
  ASSUME AccountsAssumption, AccountInv, NEW a \in Accounts, SetPasswordFor(a)
  PROVE  AccountInv'
<1>1. TypeOK /\ row[a] \in Row /\ NewHash(a)
  BY DEF AccountInv, TypeOK, SetPasswordFor
<1>2. PICK must \in BOOLEAN : must = TRUE
  OBVIOUS
<1>3. PICK r \in Row : r = WithPassword(row[a], must)
  BY <1>1, NewPassword
<1>4. /\ r.hash = made + 1 /\ r.must /\ r.fails = 0 /\ r.until = 0
      /\ r.exists = row[a].exists /\ r.active = row[a].active
  BY <1>1, <1>2, <1>3, NewPassword
<1>5. /\ Write(a, r) /\ issued' = issued \cup {made + 1}
      /\ UNCHANGED <<gone, clock>>
  BY <1>2, <1>3 DEF SetPasswordFor
<1>6. /\ caveats' \in [Accounts -> SUBSET Caveats]
      /\ caveats[a] \cap {"remove", "revive"} \subseteq caveats'[a]
      /\ \A b \in Accounts \ {a} : caveats'[b] = caveats[b]
  BY <1>1, Mended DEF SetPasswordFor
<1> QED BY <1>1, <1>4, <1>5, <1>6, IssueKeeps

LEMMA CreateKeeps ==
  ASSUME AccountsAssumption, AccountInv, NEW a \in Accounts, CreateUserAccount(a)
  PROVE  AccountInv'
<1>1. TypeOK /\ NewHash(a)
  BY DEF AccountInv, CreateUserAccount
<1>2. PICK empty \in Row : empty = NoRow
  <2>1. NoRow \in Row
    BY DEF AccountsAssumption, NoRow, Row, Hashes
  <2> QED BY <2>1
<1>3. PICK must \in BOOLEAN : must = TRUE
  OBVIOUS
<1>4. PICK set \in Row : set = WithPassword(empty, must)
  BY <1>1, NewPassword
<1>5. set.hash = made + 1 /\ set.must /\ set.fails = 0 /\ set.until = 0
  BY <1>1, <1>3, <1>4, NewPassword
<1>6. PICK r \in Row : r = [set EXCEPT !.exists = TRUE, !.active = TRUE]
  BY DEF Row
<1>7. r.hash = made + 1 /\ r.must /\ r.fails = 0 /\ r.until = 0
  BY <1>5, <1>6 DEF Row
<1>8. /\ Write(a, r) /\ issued' = issued \cup {made + 1}
      /\ UNCHANGED <<gone, clock>>
      /\ caveats' = [caveats EXCEPT ![a] =
                        @ \cup (IF gone[a] = "no" THEN {} ELSE {"revive"})]
  BY <1>2, <1>3, <1>4, <1>6 DEF CreateUserAccount
<1>9. /\ caveats' \in [Accounts -> SUBSET Caveats]
      /\ caveats[a] \subseteq caveats'[a]
      /\ \A b \in Accounts \ {a} : caveats'[b] = caveats[b]
      /\ gone[a] = "no" \/ "revive" \in caveats'[a]
  BY <1>1, <1>8 DEF TypeOK, Caveats
<1> QED BY <1>1, <1>7, <1>8, <1>9, IssueKeeps
---------------------------------------------------------------------------
\* Accounts and employees.

LEMMA DeactivateKeeps ==
  ASSUME AccountInv, NEW a \in Accounts, DeactivateUserAccount(a)
  PROVE  AccountInv'
<1>1. TypeOK /\ row[a] \in Row /\ row[a].hash \in 0..made /\ Good(a)
  BY DEF AccountInv, TypeOK, HashInv
<1>2. PICK r \in Row : r = [row[a] EXCEPT !.active = FALSE]
  BY <1>1 DEF Row
<1>3. /\ r.hash = row[a].hash /\ r.must = row[a].must /\ r.fails = row[a].fails
      /\ r.until = row[a].until /\ ~r.active
  BY <1>1, <1>2 DEF Row
<1>4. /\ Write(a, r)
      /\ UNCHANGED <<gone, clock, made, issued, latest, streak, caveats>>
  BY <1>2 DEF DeactivateUserAccount
<1>5. row' \in [Accounts -> Row] /\ job' \in [Clients -> Job] /\ row'[a] = r
  BY <1>1, <1>4, OutdateMarks DEF Write, TypeOK
<1>6. TypeOK'
  BY <1>1, <1>4, <1>5 DEF TypeOK
<1>7. Good(a)'
  BY <1>1, <1>3, <1>4, <1>5 DEF Good, Counted, Owned, KeptOut, MayAuthenticate
<1> QED BY <1>1, <1>3, <1>4, <1>6, <1>7, WriteKeeps

\* The page is posted: only the hash is read again.
LEMMA BeginEditKeeps ==
  ASSUME AccountInv, NEW c \in Clients, BeginEdit(c)
  PROVE  AccountInv'
<1>1. job[c].kind = "render" /\ TypeOK /\ job[c] \in Job
  BY DEF BeginEdit, AccountInv, TypeOK
<1>2. PICK a \in Accounts : a = job[c].on
  BY <1>1, AtWork
<1>3. /\ job[c].copy \in Row /\ row[a] \in Row /\ row[a].hash \in 0..made
      /\ job[c].fresh => Faithful("render", job[c].copy, row[a])
  BY <1>1, <1>2, AtWork DEF CopyInv
<1>4. PICK copy \in Row : copy = [job[c].copy EXCEPT !.hash = row[a].hash]
  BY <1>3 DEF Row
<1>5. /\ copy.hash = row[a].hash /\ copy.must = job[c].copy.must
      /\ copy.fails = job[c].copy.fails /\ copy.until = job[c].copy.until
  BY <1>3, <1>4 DEF Row
<1>6. PICK edit \in Job : edit = [job[c] EXCEPT !.kind = "edit", !.copy = copy]
  BY <1>1 DEF Job, Kinds
<1>7. /\ edit.kind = "edit" /\ edit.on = a /\ edit.copy = copy
      /\ edit.fresh = job[c].fresh
  BY <1>1, <1>2, <1>6 DEF Job
<1>8. /\ job' = [job EXCEPT ![c] = edit]
      /\ UNCHANGED <<row, gone, clock, made, issued, latest, streak, caveats>>
  BY <1>1, <1>2, <1>4, <1>6 DEF BeginEdit, TypeOK, Job
<1>9. TypeOK'
  BY <1>1, <1>8 DEF TypeOK
<1>10. \A d \in Clients : CopyInv(d)'
  <2> SUFFICES ASSUME NEW d \in Clients PROVE CopyInv(d)'
    OBVIOUS
  <2>1. CASE d = c
    BY <1>1, <1>3, <1>5, <1>7, <1>8, <2>1 DEF TypeOK, CopyInv, Faithful
  <2>2. CASE d # c
    BY <1>1, <1>8, <2>2 DEF AccountInv, TypeOK, CopyInv
  <2> QED BY <2>1, <2>2
<1>11. HashInv' /\ \A b \in Accounts : Good(b)'
  BY <1>8 DEF AccountInv, HashInv, Good, Counted, Owned, KeptOut, MayAuthenticate
<1> QED BY <1>9, <1>10, <1>11 DEF AccountInv

\* A form whose copy is faithful writes the row back, but for what was typed.
LEMMA FinishEditKeeps ==
  ASSUME AccountsAssumption, AccountInv, NEW c \in Clients, FinishEdit(c)
  PROVE  AccountInv'
<1>1. job[c].kind = "edit" /\ job[c].kind # "idle" /\ TypeOK
  BY DEF FinishEdit, AccountInv
<1>2. PICK a \in Accounts : a = job[c].on
  BY <1>1, AtWork
<1>3. /\ job[c].copy \in Row /\ job[c].copy.hash \in 0..made /\ row[a] \in Row
      /\ Good(a) /\ job[c].fresh \in BOOLEAN
      /\ job[c].fresh => Faithful("edit", job[c].copy, row[a])
  BY <1>1, <1>2, AtWork DEF CopyInv
<1>4. PICK active \in BOOLEAN, must \in BOOLEAN,
           fails \in TypedCounts \cup {job[c].copy.fails},
           until \in TypedLocks \cup {job[c].copy.until} :
        /\ WriteAndEnd(c, FormRow(c, active, must, fails, until))
        /\ streak' = [streak EXCEPT ![job[c].on] = IF fails = 0 /\ until = 0 THEN 0 ELSE @]
        /\ caveats' = [caveats EXCEPT ![job[c].on] =
             @ \cup (IF job[c].fresh THEN {} ELSE {"edit"})
               \cup Typed(c, must, fails, until)
               \cup (IF active /\ gone[job[c].on] # "no" THEN {"revive"} ELSE {})]
  BY DEF FinishEdit
<1>5. UNCHANGED <<gone, clock, made, issued, latest>>
  BY DEF FinishEdit
<1>6. PICK r \in Row : r = FormRow(c, active, must, fails, until)
  <2>1. fails \in Nat /\ until \in Nat
    BY <1>3 DEF AccountsAssumption, Row
  <2> QED BY <1>3, <2>1 DEF FormRow, Row
<1>7. /\ r.hash = job[c].copy.hash /\ r.must = must /\ r.active = active
      /\ r.fails = fails /\ r.until = until
  BY <1>3, <1>6 DEF FormRow, Row
<1>8. PICK typed \in SUBSET {"must", "count"} : typed = Typed(c, must, fails, until)
  BY DEF Typed
<1>9. /\ "must" \notin typed => must = job[c].copy.must
      /\ "count" \notin typed =>
            \/ fails = 0 /\ until = 0
            \/ fails = job[c].copy.fails /\ until = job[c].copy.until
  BY <1>8 DEF Typed
<1>10. /\ streak' \in [Accounts -> Nat]
       /\ streak'[a] = (IF fails = 0 /\ until = 0 THEN 0 ELSE streak[a])
       /\ caveats' \in [Accounts -> SUBSET Caveats]
       /\ caveats[a] \cup typed \subseteq caveats'[a]
       /\ ~job[c].fresh => "edit" \in caveats'[a]
       /\ active /\ gone[a] # "no" => "revive" \in caveats'[a]
  BY <1>1, <1>2, <1>4, <1>8 DEF TypeOK, Kinds, Caveats
<1>11. WriteAndEnd(c, r) /\ r.hash \in 0..made'
  BY <1>3, <1>4, <1>5, <1>6, <1>7
<1>12. TypeOK'
  BY <1>1, <1>5, <1>10, <1>11, EndingTypes DEF TypeOK
<1>13. row'[a] = r
  BY <1>1, <1>2, <1>11 DEF WriteAndEnd, TypeOK
<1>14. Counted(a)'
  <2> SUFFICES ASSUME caveats'[a] \cap {"login", "edit", "count"} = {}
               PROVE  r.fails = streak'[a] /\ (r.until > 0 => streak'[a] >= MaxFailures)
    BY <1>13 DEF Counted
  <2>1. job[c].fresh /\ "count" \notin typed /\ caveats[a] \cap {"login", "edit", "count"} = {}
    BY <1>3, <1>10
  <2>2. row[a].fails = streak[a] /\ (row[a].until > 0 => streak[a] >= MaxFailures)
    BY <1>3, <2>1 DEF Good, Counted
  <2>3. job[c].copy.fails = row[a].fails /\ job[c].copy.until = row[a].until
    BY <1>3, <2>1 DEF Faithful
  <2> QED BY <1>7, <1>9, <1>10, <2>1, <2>2, <2>3
<1>15. Owned(a)'
  <2>1. ASSUME "edit" \notin caveats'[a]
        PROVE  r.hash = latest[a] /\ job[c].copy.must = row[a].must /\ r.hash = row[a].hash
    BY <1>3, <1>7, <1>10, <2>1 DEF Good, Owned, Faithful
  <2>2. ASSUME caveats'[a] \cap {"edit", "must"} = {}
        PROVE  r.must <=> r.hash \in issued
    <3>1. caveats[a] \cap {"edit", "must"} = {} /\ "must" \notin typed
      BY <1>10, <2>2
    <3>2. row[a].must <=> row[a].hash \in issued
      BY <1>3, <3>1 DEF Good, Owned
    <3> QED BY <1>7, <1>9, <2>1, <2>2, <3>1, <3>2
  <2> QED BY <1>5, <1>13, <2>1, <2>2 DEF Owned
<1>16. KeptOut(a)'
  <2>1. r.exists = job[c].copy.exists
    BY <1>3, <1>6 DEF FormRow, Row
  <2> QED BY <1>3, <1>5, <1>7, <1>10, <1>13, <2>1 DEF Good, KeptOut, MayAuthenticate
<1>17. \A b \in Accounts \ {a} :
         /\ gone'[b] = gone[b] /\ latest'[b] = latest[b]
         /\ streak'[b] = streak[b] /\ caveats'[b] = caveats[b]
  BY <1>1, <1>2, <1>4, <1>5 DEF TypeOK
<1> QED BY <1>1, <1>2, <1>5, <1>11, <1>12, <1>14, <1>15, <1>16, <1>17, EndKeeps DEF Good

\* The account found is out, unless somebody saved it meanwhile.
LEMMA FinishRemoveKeeps ==
  ASSUME AccountsAssumption, AccountInv, NEW c \in Clients, FinishRemove(c)
  PROVE  AccountInv'
<1>1. job[c].kind = "remove" /\ job[c].kind # "idle" /\ TypeOK
  BY DEF FinishRemove, AccountInv
<1>2. PICK a \in Accounts : a = job[c].on
  BY <1>1, AtWork
<1>3. /\ row[a] \in Row /\ row[a].hash \in 0..made
      /\ Good(a) /\ job[c].fresh \in BOOLEAN
      /\ job[c].fresh => Faithful("remove", job[c].copy, row[a])
  BY <1>1, <1>2, AtWork DEF CopyInv
<1>4. PICK r \in Row :
        r = IF MayAuthenticate(job[c].copy) THEN [row[a] EXCEPT !.active = FALSE] ELSE row[a]
  BY <1>3 DEF Row
<1>5. /\ r.hash = row[a].hash /\ r.must = row[a].must /\ r.fails = row[a].fails
      /\ r.until = row[a].until
      /\ MayAuthenticate(r) => MayAuthenticate(row[a]) /\ ~MayAuthenticate(job[c].copy)
  BY <1>3, <1>4 DEF Row, MayAuthenticate
<1>6. /\ WriteAndEnd(c, r) /\ gone' = [gone EXCEPT ![a] = "removed"]
      /\ UNCHANGED <<clock, made, issued, latest, streak>>
      /\ caveats' = [caveats EXCEPT ![a] =
                        @ \cup (IF job[c].fresh THEN {} ELSE {"remove"})]
  BY <1>1, <1>2, <1>4 DEF FinishRemove, NoteStale
<1>7. /\ caveats' \in [Accounts -> SUBSET Caveats]
      /\ caveats[a] \subseteq caveats'[a]
      /\ ~job[c].fresh => "remove" \in caveats'[a]
      /\ job[c].fresh => caveats'[a] = caveats[a]
  BY <1>1, <1>6 DEF TypeOK, Kinds, Caveats
<1>8. TypeOK'
  BY <1>1, <1>6, <1>7, EndingTypes DEF TypeOK
<1>9. row'[a] = r
  BY <1>1, <1>2, <1>6 DEF WriteAndEnd, TypeOK
<1>10. Counted(a)' /\ Owned(a)'
  BY <1>3, <1>5, <1>6, <1>7, <1>9 DEF Good, Counted, Owned
<1>11. KeptOut(a)'
  BY <1>3, <1>5, <1>7, <1>9 DEF KeptOut, MayAuthenticate, Faithful
<1>12. \A b \in Accounts \ {a} :
         /\ gone'[b] = gone[b] /\ latest'[b] = latest[b]
         /\ streak'[b] = streak[b] /\ caveats'[b] = caveats[b]
  BY <1>1, <1>6 DEF TypeOK
<1> QED BY <1>1, <1>2, <1>3, <1>5, <1>6, <1>8, <1>10, <1>11, <1>12, EndKeeps DEF Good

---------------------------------------------------------------------------

LEMMA MarkDeletedKeeps ==
  ASSUME AccountInv, NEW a \in Accounts, MarkDeleted(a) PROVE AccountInv'
<1>1. TypeOK'
  BY DEF AccountInv, TypeOK, MarkDeleted
<1>2. HashInv' /\ \A c \in Clients : CopyInv(c)'
  BY DEF AccountInv, HashInv, CopyInv, Faithful, MarkDeleted
<1>3. \A b \in Accounts : Good(b)'
  BY DEF AccountInv, TypeOK, Good, Counted, Owned, KeptOut, MayAuthenticate, MarkDeleted
<1> QED BY <1>1, <1>2, <1>3 DEF AccountInv

LEMMA AbandonKeeps ==
  ASSUME AccountsAssumption, AccountInv, NEW c \in Clients, Abandon(c) PROVE AccountInv'
<1>1. NoJob \in Job /\ NoJob.kind = "idle"
  BY DEF AccountsAssumption, NoJob, Job, Kinds, NoRow, Row, Hashes
<1>2. TypeOK'
  BY <1>1 DEF AccountInv, TypeOK, Abandon
<1>3. \A d \in Clients : CopyInv(d)'
  BY <1>1 DEF AccountInv, TypeOK, CopyInv, Faithful, Abandon
<1>4. HashInv' /\ \A b \in Accounts : Good(b)'
  BY DEF AccountInv, HashInv, Good, Counted, Owned, KeptOut, MayAuthenticate, Abandon
<1> QED BY <1>2, <1>3, <1>4 DEF AccountInv

LEMMA TickKeeps ==
  ASSUME AccountsAssumption, AccountInv, Tick PROVE AccountInv'
<1>1. TypeOK'
  BY DEF AccountsAssumption, AccountInv, TypeOK, Tick
<1>2. HashInv' /\ \A c \in Clients : CopyInv(c)'
  BY DEF AccountInv, HashInv, CopyInv, Faithful, Tick
<1>3. \A b \in Accounts : Good(b)'
  BY DEF AccountInv, Good, Counted, Owned, KeptOut, MayAuthenticate, Tick
<1> QED BY <1>1, <1>2, <1>3 DEF AccountInv

\* The four requests that read a row first.
LEMMA BeginKeeps ==
  ASSUME AccountsAssumption, AccountInv, NEW c \in Clients, NEW a \in Accounts,
         BeginLogin(c, a) \/ BeginChange(c, a) \/ Render(c, a) \/ BeginRemove(c, a)
  PROVE  AccountInv'
<1>1. /\ row[a] \in Row /\ row[a].hash \in 0..made
      /\ made \in Nat /\ 0 \in 0..made /\ 0 \in Hashes /\ 0 \in Nat
  BY DEF AccountsAssumption, AccountInv, TypeOK, HashInv, Hashes
<1>2. CASE BeginLogin(c, a)
  <2>1. PICK copy \in Row : copy = Standing(a)
    BY <1>1 DEF Standing, Row
  <2>2. copy.hash = row[a].hash /\ copy.fails = row[a].fails
    BY <1>1, <2>1 DEF Standing, Row
  <2>3. PICK right \in BOOLEAN : Start(c, "login", a, copy, right)
    BY <1>2, <2>1 DEF BeginLogin
  <2> QED BY <1>1, <1>2, <2>2, <2>3, StartKeeps DEF BeginLogin, Kinds, Faithful
<1>3. CASE BeginChange(c, a)
  <2>1. PICK copy \in Row : copy = NoRow
    <3>1. NoRow \in Row
      BY DEF AccountsAssumption, NoRow, Row, Hashes
    <3> QED BY <3>1
  <2>2. copy.hash \in 0..made
    BY <1>1, <2>1 DEF NoRow
  <2>3. Start(c, "change", a, copy, TRUE)
    BY <1>3, <2>1 DEF BeginChange
  <2> QED BY <1>3, <2>2, <2>3, StartKeeps DEF BeginChange, Kinds, Faithful
<1>4. CASE Render(c, a)
  <2>1. PICK copy \in Row : copy = [row[a] EXCEPT !.hash = 0]
    BY <1>1 DEF Row
  <2>2. /\ copy.hash = 0 /\ copy.must = row[a].must /\ copy.fails = row[a].fails
        /\ copy.until = row[a].until
    BY <1>1, <2>1 DEF Row
  <2>3. Start(c, "render", a, copy, FALSE)
    BY <1>4, <2>1 DEF Render
  <2>4. copy.hash \in 0..made /\ Faithful("render", copy, row[a])
    BY <1>1, <2>2 DEF Faithful
  <2> QED BY <1>4, <2>3, <2>4, StartKeeps DEF Render, Kinds
<1>5. CASE BeginRemove(c, a)
  <2>1. PICK copy \in Row : copy = [Standing(a) EXCEPT !.fails = 0, !.hash = 0]
    BY <1>1 DEF Standing, Row
  <2>2. copy.hash = 0 /\ copy.exists = row[a].exists /\ copy.active = row[a].active
    BY <1>1, <2>1 DEF Standing, Row
  <2>3. Start(c, "remove", a, copy, FALSE)
    BY <1>5, <2>1 DEF BeginRemove
  <2>4. copy.hash \in 0..made /\ Faithful("remove", copy, row[a])
    BY <1>1, <2>2 DEF Faithful
  <2> QED BY <1>5, <2>3, <2>4, StartKeeps DEF BeginRemove, Kinds
<1> QED BY <1>2, <1>3, <1>4, <1>5

LEMMA AccountStep ==
  ASSUME AccountsAssumption, AccountInv, [Next]_vars PROVE AccountInv'
<1>1. CASE UNCHANGED vars
  <2>1. TypeOK' /\ HashInv'
    BY <1>1 DEF vars, AccountInv, TypeOK, HashInv
  <2>2. (\A c \in Clients : CopyInv(c)') /\ (\A a \in Accounts : Good(a)')
    BY <1>1 DEF vars, AccountInv, CopyInv, Faithful, Good, Counted, Owned, KeptOut,
      MayAuthenticate
  <2> QED BY <2>1, <2>2 DEF AccountInv
<1>2. ASSUME NEW c \in Clients,
             FinishLogin(c) \/ FinishChange(c) \/ BeginEdit(c) \/ FinishEdit(c)
               \/ FinishRemove(c) \/ Abandon(c)
      PROVE  AccountInv'
  BY <1>2, FinishLoginKeeps, FinishChangeKeeps, BeginEditKeeps, FinishEditKeeps,
    FinishRemoveKeeps, AbandonKeeps
<1>3. ASSUME NEW c \in Clients, NEW a \in Accounts,
             BeginLogin(c, a) \/ BeginChange(c, a) \/ Render(c, a) \/ BeginRemove(c, a)
      PROVE  AccountInv'
  BY <1>3, BeginKeeps
<1>4. ASSUME NEW a \in Accounts,
             SetPasswordFor(a) \/ CreateUserAccount(a) \/ DeactivateUserAccount(a)
               \/ MarkDeleted(a)
      PROVE  AccountInv'
  BY <1>4, SetPasswordForKeeps, CreateKeeps, DeactivateKeeps, MarkDeletedKeeps
<1> QED BY <1>1, <1>2, <1>3, <1>4, TickKeeps DEF Next

THEOREM AccountSafe == ASSUME AccountsAssumption PROVE Spec => []AccountInv
<1>1. Init => AccountInv
  BY AccountInit
<1>2. AccountInv /\ [Next]_vars => AccountInv'
  BY AccountStep
<1> QED BY <1>1, <1>2, PTL DEF Spec

---------------------------------------------------------------------------

\* auth_user_accounts: every variable of the model keeps its type.
THEOREM TypeCorrect == ASSUME AccountsAssumption PROVE Spec => []TypeOK
<1>1. AccountInv => TypeOK
  BY DEF AccountInv
<1> QED BY <1>1, AccountSafe, PTL

\* LockoutModelBackend: the counter is the run of failures since the last
\* success or password, whatever else is saved, unless since that password a
\* login or an admin form saved a stale copy, or an administrator typed another
\* counter or lock.
THEOREM CounterIsExact == ASSUME AccountsAssumption PROVE Spec => []CountIsStreak
<1>1. AccountInv => CountIsStreak
  BY DEF AccountInv, Good, Counted, CountIsStreak
<1> QED BY <1>1, AccountSafe, PTL

\* No login, change, reset or removal ever brings an old password back.
THEOREM PasswordsStand == ASSUME AccountsAssumption PROVE Spec => []PasswordStands
<1>1. AccountInv => PasswordStands
  BY DEF AccountInv, Good, Owned, PasswordStands
<1> QED BY <1>1, AccountSafe, PTL

\* must_change_password is set exactly while somebody else chose the password,
\* unless since then an admin form was stale or the flag was changed in one.
THEOREM MustChangeIsExact == ASSUME AccountsAssumption PROVE Spec => []MustMeansIssued
<1>1. AccountInv => MustMeansIssued
  BY DEF AccountInv, Good, Owned, MustMeansIssued
<1> QED BY <1>1, AccountSafe, PTL

\* soft_delete_employee: a removed employee signs in again only through an
\* account saved while the employee was being removed, or let in afterwards.
THEOREM RemovedAreOut == ASSUME AccountsAssumption PROVE Spec => []RemovedStayOut
<1>1. AccountInv => RemovedStayOut
  BY DEF AccountInv, Good, KeptOut, RemovedStayOut
<1> QED BY <1>1, AccountSafe, PTL
=============================================================================
