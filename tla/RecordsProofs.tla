---------------------------- MODULE RecordsProofs -----------------------------
(***************************************************************************)
(* Grants, the quotations of a card, and the pages of a browser tab: what  *)
(* Permissions, QuotationChain and QueryCache promise for any number of    *)
(* requests, uploads and writes under way.                                 *)
(***************************************************************************)
EXTENDS Permissions, QuotationChain, QueryCache, TLAPS

---------------------------------------------------------------------------
\* What Permissions guarantees for every grid, every assignment of roles
\* and any number of requests.  The algorithm is settled first, for any
\* set of rows (ResolvedAnswers); the state then only has to keep
\* CacheInv: a request's grants are those rows resolved, and the rows were
\* held since it began.

\* Resolution.

\* perm_level has a highest value in any set of levels.
LEMMA HighestLevel ==
  ASSUME NEW S \in SUBSET Levels, S # {}
  PROVE  Highest(S) \in S /\ \A m \in S : m <= Highest(S)
<1>1. \E n \in S : \A m \in S : m <= n
  <2>1. \A x \in S : x \in 0..9
    BY DEF Levels
  <2> DEFINE Above(k) == \A m \in S : m <= k
  <2>2. Above(9)
    BY <2>1
  <2>3. \A k \in 1..9 : Above(k) /\ k \notin S => Above(k - 1)
    BY <2>1
  <2>4. ~Above(-1)
    BY <2>1
  <2>5. Above(0) /\ 0 \notin S => Above(-1)
    BY <2>1
  <2> HIDE DEF Above
  <2>6. \E k \in 0..9 : k \in S /\ Above(k)
    BY <2>2, <2>3, <2>4, <2>5
  <2> QED
    BY <2>6 DEF Above
<1> QED
  BY <1>1 DEF Highest

LEMMA LevelsType ==
  ASSUME NEW rows \in SUBSET Row, NEW p
  PROVE  FreeLevels(rows, p) \in SUBSET Levels /\ OwnLevels(rows, p) \in SUBSET Levels
BY DEF FreeLevels, OwnLevels, Row

\* The members of the two sets of grants.
LEMMA GrantMembers ==
  ASSUME NEW rows
  PROVE  /\ \A g : g \in Unrestricted(rows) <=>
                \E p \in Perms : /\ FreeLevels(rows, p) # {}
                                 /\ g = [perm |-> p, ifOwner |-> FALSE,
                                         level |-> Highest(FreeLevels(rows, p))]
         /\ \A g : g \in OwnerOnly(rows) <=>
                \E p \in Perms : /\ ReachesHigher(rows, p)
                                 /\ g = [perm |-> p, ifOwner |-> TRUE,
                                         level |-> Highest(OwnLevels(rows, p))]
BY DEF Unrestricted, OwnerOnly

LEMMA ResolvedType ==
  ASSUME NEW rows \in SUBSET Row
  PROVE  Resolved(rows) \in SUBSET Grant
<1>1. ASSUME NEW g \in Unrestricted(rows)
      PROVE  g \in Grant
  <2>1. PICK p \in Perms : /\ FreeLevels(rows, p) # {}
                           /\ g = [perm |-> p, ifOwner |-> FALSE,
                                   level |-> Highest(FreeLevels(rows, p))]
    BY GrantMembers
  <2>2. Highest(FreeLevels(rows, p)) \in Levels
    BY <2>1, HighestLevel, LevelsType
  <2> QED
    BY <2>1, <2>2 DEF Grant
<1>2. ASSUME NEW g \in OwnerOnly(rows)
      PROVE  g \in Grant
  <2>1. PICK p \in Perms : /\ ReachesHigher(rows, p)
                           /\ g = [perm |-> p, ifOwner |-> TRUE,
                                   level |-> Highest(OwnLevels(rows, p))]
    BY GrantMembers
  <2>2. OwnLevels(rows, p) # {}
    BY <2>1 DEF ReachesHigher
  <2>3. Highest(OwnLevels(rows, p)) \in Levels
    BY <2>2, HighestLevel, LevelsType
  <2> QED
    BY <2>1, <2>3 DEF Grant
<1> QED
  BY <1>1, <1>2 DEF Resolved

\* Merging levels and dropping owner-scoped grants changes no answer.
LEMMA ResolvedAnswers ==
  ASSUME NEW rows \in SUBSET Row, NEW q \in Question
  PROVE  HasPermission(Resolved(rows), q) <=> Entitled(rows, q)
<1> DEFINE free == FreeLevels(rows, q.perm)
           mine == OwnLevels(rows, q.perm)
<1>1. q.perm \in Perms /\ q.level \in Levels /\ q.own \in BOOLEAN
  BY DEF Question
<1>2. free \in SUBSET Levels /\ mine \in SUBSET Levels
  BY <1>1, LevelsType
<1>3. /\ free # {} => Highest(free) \in free /\ \A m \in free : m <= Highest(free)
      /\ mine # {} => Highest(mine) \in mine /\ \A m \in mine : m <= Highest(mine)
  BY <1>2, HighestLevel
<1>4. Entitled(rows, q) <=> \/ \E n \in free : n >= q.level
                            \/ q.own /\ \E n \in mine : n >= q.level
  <2>1. ASSUME NEW row \in rows
        PROVE  row.ifOwner \in BOOLEAN
    BY <2>1 DEF Row
  <2> QED
    BY <2>1 DEF Entitled, FreeLevels, OwnLevels
<1>5. HasPermission(Unrestricted(rows), q) <=> free # {} /\ Highest(free) >= q.level
  <2>1. ASSUME NEW g \in Unrestricted(rows), g.perm = q.perm
        PROVE  free # {} /\ g.level = Highest(free)
    <3>1. PICK p \in Perms : /\ FreeLevels(rows, p) # {}
                             /\ g = [perm |-> p, ifOwner |-> FALSE,
                                     level |-> Highest(FreeLevels(rows, p))]
      BY GrantMembers
    <3>2. p = q.perm /\ g.level = Highest(FreeLevels(rows, p))
      BY <2>1, <3>1
    <3> QED
      BY <3>1, <3>2
  <2>2. ASSUME free # {}
        PROVE  \E g \in Unrestricted(rows) :
                 g.perm = q.perm /\ g.level = Highest(free) /\ ~g.ifOwner
    <3> DEFINE h == [perm |-> q.perm, ifOwner |-> FALSE, level |-> Highest(free)]
    <3>1. h \in Unrestricted(rows)
      BY <1>1, <2>2, GrantMembers
    <3> QED
      BY <3>1
  <2> HIDE DEF free
  <2> QED
    BY <2>1, <2>2 DEF HasPermission
<1>6. HasPermission(OwnerOnly(rows), q)
        <=> q.own /\ ReachesHigher(rows, q.perm) /\ Highest(mine) >= q.level
  <2>1. ASSUME NEW g \in OwnerOnly(rows), g.perm = q.perm
        PROVE  ReachesHigher(rows, q.perm) /\ g.level = Highest(mine) /\ g.ifOwner
    <3>1. PICK p \in Perms : /\ ReachesHigher(rows, p)
                             /\ g = [perm |-> p, ifOwner |-> TRUE,
                                     level |-> Highest(OwnLevels(rows, p))]
      BY GrantMembers
    <3>2. p = q.perm /\ g.level = Highest(OwnLevels(rows, p)) /\ g.ifOwner
      BY <2>1, <3>1
    <3> QED
      BY <3>1, <3>2
  <2>2. ASSUME ReachesHigher(rows, q.perm)
        PROVE  \E g \in OwnerOnly(rows) :
                 g.perm = q.perm /\ g.level = Highest(mine)
    <3> DEFINE h == [perm |-> q.perm, ifOwner |-> TRUE, level |-> Highest(mine)]
    <3>1. h \in OwnerOnly(rows)
      BY <1>1, <2>2, GrantMembers
    <3> QED
      BY <3>1
  <2> HIDE DEF mine
  <2> QED
    BY <2>1, <2>2 DEF HasPermission
<1>7. HasPermission(Resolved(rows), q)
        <=> HasPermission(Unrestricted(rows), q) \/ HasPermission(OwnerOnly(rows), q)
  BY DEF HasPermission, Resolved
<1>8. (\E n \in free : n >= q.level) <=> free # {} /\ Highest(free) >= q.level
  <2> HIDE DEF free
  <2>1. q.level \in Int /\ \A n \in free : n \in Int
    BY <1>1, <1>2 DEF Levels
  <2> QED
    BY <1>3, <2>1
<1>9. (\E n \in mine : n >= q.level) <=> mine # {} /\ Highest(mine) >= q.level
  <2> HIDE DEF mine
  <2>1. q.level \in Int /\ \A n \in mine : n \in Int
    BY <1>1, <1>2 DEF Levels
  <2> QED
    BY <1>3, <2>1
<1>10. ReachesHigher(rows, q.perm)
         <=> mine # {} /\ (free = {} \/ Highest(mine) > Highest(free))
  BY DEF ReachesHigher
<1>11. /\ free # {} => Highest(free) \in Int
       /\ mine # {} => Highest(mine) \in Int
       /\ q.level \in Int
  <2> HIDE DEF free, mine
  <2>1. \A n \in Levels : n \in Int
    BY DEF Levels
  <2> QED
    BY <1>1, <1>2, <1>3, <2>1
<1> HIDE DEF free, mine
<1> QED
  BY <1>1, <1>4, <1>5, <1>6, <1>7, <1>8, <1>9, <1>10, <1>11

\* An extra role never takes authority away, as perform_transition's
\* docstring says of every role.
THEOREM MoreRolesMoreAuthority ==
  ASSUME NEW rows \in SUBSET Row, NEW more \in SUBSET Row, rows \subseteq more,
         NEW q \in Question, HasPermission(Resolved(rows), q)
  PROVE  HasPermission(Resolved(more), q)
<1>1. Entitled(rows, q)
  BY ResolvedAnswers
<1>2. Entitled(more, q)
  BY <1>1 DEF Entitled
<1> QED
  BY <1>2, ResolvedAnswers

---------------------------------------------------------------------------
\* The state.

CacheInv ==
  \A r \in Requests : /\ cache[r] = Resolved(basis[r])
                      /\ basis[r] \subseteq since[r]
                      /\ pc[r] \in {"idle", "begun"} => basis[r] = {}

\* A running request's user is an account, and what it holds has been noted.
SinceInv ==
  \A r \in Requests :
    Running(r) => RowsOf(who[r], grid, assigned) \subseteq since[r]

PermissionInv == TypeOK /\ CacheInv /\ SinceInv

LEMMA NothingResolved == Resolved({}) = {}
BY DEF Resolved, Unrestricted, OwnerOnly, ReachesHigher, FreeLevels, OwnLevels

LEMMA InitInv == Init => PermissionInv
<1> SUFFICES ASSUME Init PROVE PermissionInv
  OBVIOUS
<1>1. TypeOK
  BY PermissionAssumption DEF Init, TypeOK
<1>2. CacheInv
  BY NothingResolved DEF Init, CacheInv
<1>3. SinceInv
  BY DEF Init, SinceInv, Running
<1> QED
  BY <1>1, <1>2, <1>3 DEF PermissionInv

LEMMA BeginKeeps ==
  ASSUME PermissionInv, NEW r \in Requests, NEW u \in Users, Begin(r, u)
  PROVE  PermissionInv'
<1>1. RowsOf(u, grid, assigned) \in SUBSET Row
  BY DEF PermissionInv, TypeOK, RowsOf
<1>2. TypeOK'
  BY <1>1 DEF PermissionInv, TypeOK, Begin, tables
<1>3. CacheInv'
  BY DEF PermissionInv, TypeOK, CacheInv, Begin
<1>4. SinceInv'
  <2>1. who'[r] = u /\ since'[r] = RowsOf(u, grid', assigned')
    BY DEF PermissionInv, TypeOK, Begin, tables
  <2>2. \A s \in Requests \ {r} :
          /\ Running(s)' => Running(s)
          /\ who'[s] = who[s] /\ since'[s] = since[s]
          /\ grid' = grid /\ assigned' = assigned
    BY DEF PermissionInv, TypeOK, Begin, tables, Running
  <2> QED
    BY <2>1, <2>2 DEF PermissionInv, SinceInv, Running
<1> QED
  BY <1>2, <1>3, <1>4 DEF PermissionInv

LEMMA ResolveKeeps ==
  ASSUME PermissionInv, NEW r \in Requests, Resolve(r)
  PROVE  PermissionInv'
<1> DEFINE rows == RowsOf(who[r], grid, assigned)
<1>1. rows \in SUBSET Row /\ rows \subseteq since[r]
  BY DEF PermissionInv, TypeOK, SinceInv, RowsOf, Resolve, Running
<1>2. Resolved(rows) \in SUBSET Grant
  BY <1>1, ResolvedType
<1>3. /\ basis' = [basis EXCEPT ![r] = rows]
      /\ cache' = [cache EXCEPT ![r] = Resolved(rows)]
      /\ pc' = [pc EXCEPT ![r] = "resolved"]
      /\ pc[r] = "begun"
      /\ UNCHANGED <<grid, assigned, standing, who, since>>
  BY DEF Resolve, tables
<1> HIDE DEF rows
<1>4. TypeOK'
  BY <1>1, <1>2, <1>3 DEF PermissionInv, TypeOK
<1>5. CacheInv'
  <2> SUFFICES ASSUME NEW s \in Requests
               PROVE  /\ cache'[s] = Resolved(basis'[s])
                      /\ basis'[s] \subseteq since'[s]
                      /\ pc'[s] \in {"idle", "begun"} => basis'[s] = {}
    BY DEF CacheInv
  <2>1. CASE s = r
    BY <1>1, <1>3, <2>1 DEF PermissionInv, TypeOK
  <2>2. CASE s # r
    BY <1>3, <2>2 DEF PermissionInv, TypeOK, CacheInv
  <2> QED
    BY <2>1, <2>2
<1>6. SinceInv'
  <2>1. \A s \in Requests : Running(s)' => Running(s)
    BY <1>3 DEF PermissionInv, TypeOK, Running
  <2> QED
    BY <1>3, <2>1 DEF PermissionInv, SinceInv
<1> QED
  BY <1>4, <1>5, <1>6 DEF PermissionInv

\* A request that ends changes the tables as it likes, as long as the rows
\* the others now hold are noted.
LEMMA EndingKeeps ==
  ASSUME PermissionInv, NEW r \in Requests, Running(r), End(r),
         (grid \subseteq Row /\ OneRowEach(grid))', (assigned \subseteq Users \X Roles)',
         (standing \subseteq Users)', UNCHANGED <<who, cache, basis>>,
         Track \/ UNCHANGED <<grid, assigned, since>>
  PROVE  PermissionInv'
<1>1. \A s \in Requests : /\ Running(s)' => Running(s)
                          /\ pc'[s] \in {"idle", "begun"} => pc[s] \in {"idle", "begun"}
                          /\ since[s] \subseteq since'[s]
  BY DEF PermissionInv, TypeOK, End, Running, Track
<1>2. since' \in [Requests -> SUBSET Row]
  <2>1. \A u : RowsOf(u, grid', assigned') \in SUBSET Row
    BY DEF RowsOf
  <2> QED
    BY <2>1 DEF PermissionInv, TypeOK, Track
<1>3. TypeOK'
  BY <1>2 DEF PermissionInv, TypeOK, End
<1>4. CacheInv'
  BY <1>1 DEF PermissionInv, CacheInv
<1>5. SinceInv'
  <2>1. CASE Track
    BY <1>1, <2>1 DEF Track, SinceInv
  <2>2. CASE UNCHANGED <<grid, assigned, since>>
    BY <1>1, <2>2 DEF PermissionInv, SinceInv
  <2> QED
    BY <2>1, <2>2
<1> QED
  BY <1>3, <1>4, <1>5 DEF PermissionInv

LEMMA ChangeKeeps ==
  ASSUME PermissionInv, NEW r \in Requests, Change(r)
  PROVE  PermissionInv'
<1> USE DEF PermissionInv, TypeOK, MayInAdmin, May, Running
<1>1. ASSUME NEW u \in Users, NEW role \in Roles, AssignRole(r, u, role)
      PROVE  PermissionInv'
  BY <1>1, EndingKeeps DEF AssignRole
<1>2. ASSUME NEW u \in Users, NEW role \in Roles, RevokeRole(r, u, role)
      PROVE  PermissionInv'
  BY <1>2, EndingKeeps DEF RevokeRole
<1>3. ASSUME NEW row \in Edits, AddGrant(r, row)
      PROVE  PermissionInv'
  BY <1>3, EndingKeeps, PermissionAssumption DEF AddGrant
<1>4. ASSUME NEW row \in grid, RemoveGrant(r, row)
      PROVE  PermissionInv'
  <2>1. OneRowEach(grid')
    BY <1>4 DEF RemoveGrant, OneRowEach
  <2> QED
    BY <1>4, <2>1, EndingKeeps DEF RemoveGrant
<1>5. ASSUME NEW u \in Users, SaveAccount(r, u)
      PROVE  PermissionInv'
  BY <1>5, EndingKeeps DEF SaveAccount
<1> QED
  BY <1>1, <1>2, <1>3, <1>4, <1>5 DEF Change

\* PermissionInv is inductive.
LEMMA PermissionInductive == Spec => []PermissionInv
<1>1. PermissionInv /\ [Next]_vars => PermissionInv'
  <2> SUFFICES ASSUME PermissionInv, [Next]_vars PROVE PermissionInv'
    OBVIOUS
  <2>1. ASSUME NEW r \in Requests, NEW u \in Users, Begin(r, u) PROVE PermissionInv'
    BY <2>1, BeginKeeps
  <2>2. ASSUME NEW r \in Requests, Resolve(r) PROVE PermissionInv'
    BY <2>2, ResolveKeeps
  <2>3. ASSUME NEW r \in Requests, Leave(r) PROVE PermissionInv'
    BY <2>3, EndingKeeps DEF Leave, tables, PermissionInv, TypeOK
  <2>4. ASSUME NEW r \in Requests, Change(r) PROVE PermissionInv'
    BY <2>4, ChangeKeeps
  <2>5. CASE UNCHANGED vars
    BY <2>5 DEF vars, tables, PermissionInv, TypeOK, CacheInv, SinceInv, Running
  <2> QED
    BY <2>1, <2>2, <2>3, <2>4, <2>5 DEF Next, Finished
<1> QED
  BY <1>1, InitInv, PTL DEF Spec

---------------------------------------------------------------------------

\* Every variable of Permissions keeps its type, the grid its unique key.
THEOREM TypeCorrect == Spec => []TypeOK
<1>1. PermissionInv => TypeOK
  BY DEF PermissionInv
<1> QED
  BY <1>1, PermissionInductive, PTL

\* resolve_permissions answers every question as the rows of the user's
\* roles do, whatever the grid.
THEOREM ResolutionIsExact == Spec => []ResolutionExact
<1>1. PermissionInv => ResolutionExact
  BY ResolvedAnswers DEF PermissionInv, TypeOK, CacheInv, ResolutionExact
<1> QED
  BY <1>1, PermissionInductive, PTL

\* owner_scope_for lets a list reach what has_permission lets one open.
THEOREM ListsAgreeWithRecords == Spec => []ListsAgree
<1>1. TypeOK => ListsAgree
  <2> SUFFICES ASSUME TypeOK, NEW r \in Requests, NEW p \in Perms
               PROVE  LET scope == OwnerScope(cache[r], p)
                      IN  /\ HasPermission(cache[r], Ask(p, FALSE)) <=> scope = "all"
                          /\ HasPermission(cache[r], Ask(p, TRUE)) <=> scope \in {"all", "own"}
    BY DEF ListsAgree
  <2>1. \A g \in cache[r] : g.level >= 0 /\ g.ifOwner \in BOOLEAN
    BY DEF TypeOK, Grant, Levels
  <2>2. HasPermission(cache[r], Ask(p, FALSE)) <=> \E g \in cache[r] : g.perm = p /\ ~g.ifOwner
    BY <2>1 DEF HasPermission, Ask
  <2>3. HasPermission(cache[r], Ask(p, TRUE)) <=> \E g \in cache[r] : g.perm = p
    BY <2>1 DEF HasPermission, Ask
  <2> QED
    BY <2>2, <2>3 DEF OwnerScope
<1> QED
  BY <1>1, TypeCorrect, PTL

\* A request decides by grants its user held since it began.
THEOREM GrantsWereHeld == Spec => []HeldDuringRequest
<1>1. PermissionInv => HeldDuringRequest
  BY DEF PermissionInv, CacheInv, HeldDuringRequest
<1> QED
  BY <1>1, PermissionInductive, PTL

\* Roles and grants change only by the authority of a request's user.
THEOREM EveryChangeAuthorised == Spec => ChangesAuthorised
<1> DEFINE Due ==
      /\ ~(assigned' \subseteq assigned /\ grid' \subseteq grid) => Authorised(AssignPerm)
      /\ ~(assigned \subseteq assigned' /\ grid \subseteq grid') => Authorised(RevokePerm)
<1>1. ASSUME PermissionInv, NEW r \in Requests, NEW perm \in Perms,
             May(r, perm, FALSE), End(r)
      PROVE  Authorised(perm)
  <2>1. Ask(perm, FALSE) \in Question
    BY DEF Ask, Question, Levels
  <2>2. Entitled(basis[r], Ask(perm, FALSE))
    BY <1>1, <2>1, ResolvedAnswers DEF PermissionInv, TypeOK, CacheInv, May
  <2>3. Entitled(since[r], Ask(perm, FALSE))
    BY <1>1, <2>2 DEF PermissionInv, CacheInv, Entitled
  <2> QED
    BY <1>1, <2>3 DEF Authorised, May, End, PermissionInv, TypeOK
<1>2. PermissionInv /\ [Next]_vars => [Due]_vars
  <2> SUFFICES ASSUME PermissionInv, [Next]_vars PROVE Due
    OBVIOUS
  <2>1. AssignPerm \in Perms /\ RevokePerm \in Perms
    BY PermissionAssumption
  <2>2. ASSUME NEW r \in Requests, NEW u \in Users, NEW role \in Roles, AssignRole(r, u, role)
        PROVE  Due
    BY <1>1, <2>1, <2>2 DEF AssignRole, MayInAdmin
  <2>3. ASSUME NEW r \in Requests, NEW u \in Users, NEW role \in Roles, RevokeRole(r, u, role)
        PROVE  Due
    BY <1>1, <2>1, <2>3 DEF RevokeRole, MayInAdmin
  <2>4. ASSUME NEW r \in Requests, NEW row \in Edits, AddGrant(r, row)
        PROVE  Due
    BY <1>1, <2>1, <2>4 DEF AddGrant, MayInAdmin
  <2>5. ASSUME NEW r \in Requests, NEW row \in grid, RemoveGrant(r, row)
        PROVE  Due
    BY <1>1, <2>1, <2>5 DEF RemoveGrant, MayInAdmin
  <2>6. CASE UNCHANGED <<grid, assigned>>
    BY <2>6
  <2> QED
    BY <2>2, <2>3, <2>4, <2>5, <2>6
    DEF Next, Change, Begin, Resolve, Leave, SaveAccount, Finished, vars, tables
<1> QED
  BY <1>2, PermissionInductive, PTL DEF Spec, ChangesAuthorised

---------------------------------------------------------------------------
\* What QuotationChain promises for any number of cards and uploads.  The
\* strengthening is ChainInv.  Of every card: a revision that a request
\* supersedes is held by it and is of its card, and the one row inserted and not
\* committed, if there is one, has a number and a predecessor that no committed
\* row has.  Of a card no revision was filed to or from: the numbers are 0 up to
\* one less than some count, every row follows another, and the row inserted has
\* the next number.

PreviousStands ==
  \A r \in Uploads :
    uploadPc[r] \in {"locked", "demoted", "inserted"} /\ previous[r] # None =>
      /\ previous[r] \in locked[r]
      /\ \E p \in quotes : p.id = previous[r] /\ p.card = CardOf[r]

Waiting == \A r \in Uploads : uploadPc[r] \in {"idle", "chosen"} => previous[r] = None

Apart ==
  \A p, q \in quotes :
    \/ p.id = q.id
    \/ p.card = q.card /\ p.no = q.no
    \/ p.supersedes = q.supersedes /\ q.supersedes # None
    => p = q

Authored == \A q \in quotes : q.id \in Uploads => uploadPc[q.id] = "done"

Chained == \A q \in quotes : q.card \notin refiled => Linked(q)

HasNo(card, k) == \E q \in quotes : q.card = card /\ q.no = k

Counts(card, n) == \A k \in Nat : HasNo(card, k) <=> k < n

Counted == \A card \in Cards \ refiled : \E n \in Nat : Counts(card, n)

\* No row stands in the way of row q.
Unclaimed(q) ==
  /\ \A p \in quotes : p.card = q.card => p.no # q.no
  /\ \A p \in quotes : q.supersedes # None => p.supersedes # q.supersedes

Ahead(q) == \A p \in quotes : p.card = q.card => p.no < q.no

IsDraftOf(q, r) ==
  /\ q \in Revision /\ q.id = r /\ q.card = CardOf[r]
  /\ q.status = "draft" /\ q.supersedes = previous[r]
  /\ Linked(q) /\ Unclaimed(q)
  /\ q.card \notin refiled => Ahead(q)

Drafted ==
  /\ \A r \in Uploads : uploadPc[r] # "inserted" => draft[r] = {}
  /\ \A r \in Uploads :
       uploadPc[r] = "inserted" => \E q \in Revision : draft[r] = {q} /\ IsDraftOf(q, r)
  /\ \A r, s \in Uploads : uploadPc[r] = "inserted" /\ uploadPc[s] = "inserted" => r = s

CurrentIsNewest ==
  saves = 0 =>
    /\ refiled = {}
    /\ \A q \in quotes :
         q.status = "draft" <=> \A p \in quotes : p.card = q.card => p.no <= q.no

ChainInv ==
  /\ ChainTypeOK
  /\ Waiting /\ PreviousStands /\ Apart /\ Authored /\ Chained
  /\ Counted /\ Drafted /\ CurrentIsNewest

---------------------------------------------------------------------------

LEMMA ChainBegins == ASSUME ChainAssumption, ChainInit PROVE ChainInv
<1>1. ChainTypeOK /\ Apart /\ Authored /\ Chained /\ Drafted /\ CurrentIsNewest
  BY DEF ChainInit, ChainAssumption, ChainTypeOK, Points, Apart, Authored, Chained, Drafted,
    CurrentIsNewest
<1>2. Counted
  <2>1. \A card \in Cards : Counts(card, 0)
    BY DEF ChainInit, Counts, HasNo
  <2> QED BY <2>1 DEF Counted
<1>3. Waiting /\ PreviousStands
  BY DEF ChainInit, Waiting, PreviousStands
<1> QED BY <1>1, <1>2, <1>3 DEF ChainInv

\* What is said of the committed rows alone stands as long as they do.
LEMMA RowsStand ==
  ASSUME UNCHANGED <<quotes, refiled, saves>>
  PROVE  /\ (Apart => Apart') /\ (Chained => Chained') /\ (Counted => Counted')
         /\ CurrentIsNewest => CurrentIsNewest'
         /\ \A q : Linked(q) => Linked(q)'
         /\ \A q : Unclaimed(q) => Unclaimed(q)'
         /\ \A q : Ahead(q) => Ahead(q)'
<1>1. quotes' = quotes /\ refiled' = refiled /\ saves' = saves
  OBVIOUS
<1>2. \A q : Linked(q)' <=> Linked(q)
  BY <1>1, Zenon DEF Linked
<1>3. (\A q : Unclaimed(q)' <=> Unclaimed(q)) /\ (\A q : Ahead(q)' <=> Ahead(q))
  BY <1>1, Zenon DEF Unclaimed, Ahead
<1>4. \A card, k : HasNo(card, k)' <=> HasNo(card, k)
  BY <1>1, Zenon DEF HasNo
<1>5. Counted => Counted'
  BY <1>1, <1>4 DEF Counted, Counts
<1>6. (Apart => Apart') /\ (Chained => Chained')
  BY <1>1, <1>2 DEF Apart, Chained
<1>7. CurrentIsNewest => CurrentIsNewest'
  BY <1>1 DEF CurrentIsNewest
<1> QED BY <1>2, <1>3, <1>5, <1>6, <1>7

\* A row inserted by s stays what it is as long as the rows and s do.
LEMMA DraftStands ==
  ASSUME UNCHANGED <<quotes, refiled, saves>>, NEW s, NEW q,
         previous'[s] = previous[s], IsDraftOf(q, s)
  PROVE  IsDraftOf(q, s)'
  BY RowsStand DEF IsDraftOf

\* A step of r that leaves the rows alone, committed and inserted, and does
\* not take r past its insert.
LEMMA PassKeeps ==
  ASSUME ChainAssumption, ChainInv, NEW r \in Uploads,
         uploadPc[r] # "inserted", uploadPc[r] # "done",
         NEW point \in Points \ {"idle", "inserted"}, Goto(r, point), ChainTypeOK',
         UNCHANGED <<quotes, draft, saves, refiled>>,
         \A s \in Uploads : s # r => previous'[s] = previous[s] /\ locked'[s] = locked[s],
         point = "chosen" => previous'[r] = None,
         point \in {"locked", "demoted"} /\ previous'[r] # None =>
           /\ previous'[r] \in locked'[r]
           /\ \E p \in quotes : p.id = previous'[r] /\ p.card = CardOf[r]
  PROVE  ChainInv'
<1>1. Apart' /\ Chained' /\ Counted' /\ CurrentIsNewest'
  BY RowsStand DEF ChainInv
<1>2. Authored'
  BY DEF ChainInv, ChainTypeOK, Authored, Goto
<1>3. Waiting' /\ PreviousStands'
  <2>1. uploadPc' = [uploadPc EXCEPT ![r] = point] /\ uploadPc \in [Uploads -> Points]
    BY DEF Goto, ChainInv, ChainTypeOK
  <2>2. Waiting'
    BY <2>1 DEF ChainInv, Waiting
  <2> QED BY <2>1, <2>2 DEF ChainInv, PreviousStands
<1>4. Drafted'
  <2>1. \A s \in Uploads : uploadPc'[s] = "inserted" => s # r /\ uploadPc[s] = "inserted"
    BY DEF ChainInv, ChainTypeOK, Goto
  <2>2. \A s \in Uploads : uploadPc'[s] # "inserted" => draft'[s] = {}
    BY DEF ChainInv, ChainTypeOK, Drafted, Goto
  <2>3. ASSUME NEW s \in Uploads, uploadPc'[s] = "inserted"
        PROVE  \E q \in Revision : draft'[s] = {q} /\ IsDraftOf(q, s)'
    <3>1. PICK q \in Revision : draft[s] = {q} /\ IsDraftOf(q, s)
      BY <2>1, <2>3 DEF ChainInv, Drafted
    <3>2. IsDraftOf(q, s)'
      BY <2>1, <2>3, <3>1, DraftStands
    <3> QED BY <3>1, <3>2
  <2>4. \A s, t \in Uploads : uploadPc'[s] = "inserted" /\ uploadPc'[t] = "inserted" => s = t
    BY <2>1 DEF ChainInv, Drafted
  <2> QED BY <2>2, <2>3, <2>4 DEF Drafted
<1> QED BY <1>1, <1>2, <1>3, <1>4 DEF ChainInv

\* A rollback: the request's row is as if it had never been.
LEMMA RefuseKeeps ==
  ASSUME ChainAssumption, ChainInv, NEW r \in Uploads,
         NEW answer \in {"422", "500", "lost"}, Refuse(r, answer)
  PROVE  ChainInv'
<1>1. ChainTypeOK'
  BY DEF ChainInv, ChainTypeOK, Refuse, Release, Goto, Points
<1>2. Apart' /\ Chained' /\ Counted' /\ CurrentIsNewest'
  BY RowsStand DEF ChainInv, Refuse
<1>3. Authored'
  BY DEF ChainInv, ChainTypeOK, Authored, Refuse, Release, Goto
<1>4. Waiting' /\ PreviousStands'
  BY DEF ChainInv, ChainTypeOK, Waiting, PreviousStands, Refuse, Release, Goto
<1>5. Drafted'
  <2>1. \A s \in Uploads : uploadPc'[s] = "inserted" => s # r /\ uploadPc[s] = "inserted"
    BY DEF ChainInv, ChainTypeOK, Refuse, Release, Goto
  <2>2. \A s \in Uploads : uploadPc'[s] # "inserted" => draft'[s] = {}
    BY DEF ChainInv, ChainTypeOK, Drafted, Refuse, Release, Goto
  <2>3. ASSUME NEW s \in Uploads, uploadPc'[s] = "inserted"
        PROVE  \E q \in Revision : draft'[s] = {q} /\ IsDraftOf(q, s)'
    <3>1. draft'[s] = draft[s]
      BY <2>1, <2>3 DEF ChainInv, ChainTypeOK, Refuse, Release
    <3>2. PICK q \in Revision : draft[s] = {q} /\ IsDraftOf(q, s)
      BY <2>1, <2>3 DEF ChainInv, Drafted
    <3>3. IsDraftOf(q, s)'
      BY <3>2, DraftStands DEF Refuse
    <3> QED BY <3>1, <3>2, <3>3
  <2>4. \A s, t \in Uploads : uploadPc'[s] = "inserted" /\ uploadPc'[t] = "inserted" => s = t
    BY <2>1 DEF ChainInv, Drafted
  <2> QED BY <2>2, <2>3, <2>4 DEF Drafted
<1> QED BY <1>1, <1>2, <1>3, <1>4, <1>5 DEF ChainInv

LEMMA ChooseKeeps ==
  ASSUME ChainAssumption, ChainInv, NEW r \in Uploads, Choose(r)
  PROVE  ChainInv'
<1>1. ChainTypeOK'
  <2>1. {q.id : q \in Of(CardOf[r])} \in SUBSET Ids
    BY DEF Of, ChainInv, ChainTypeOK, Revision
  <2> QED BY <2>1 DEF ChainInv, ChainTypeOK, Choose, Goto, Points
<1> QED BY <1>1, PassKeeps DEF ChainInv, Waiting, Choose, Points

LEMMA LockKeeps ==
  ASSUME ChainAssumption, ChainInv, NEW r \in Uploads, Lock(r)
  PROVE  ChainInv'
<1>1. CASE seen[r] = {} /\ Goto(r, "locked") /\ UNCHANGED <<seen, locked, previous>>
  <2>1. ChainTypeOK'
    BY <1>1 DEF ChainInv, ChainTypeOK, Lock, Goto, Points
  <2>2. previous[r] = None
    BY DEF ChainInv, Waiting, Lock
  <2> QED BY <1>1, <2>1, <2>2, PassKeeps DEF Lock, Points
<1>2. ASSUME NEW q \in quotes, locked' = [locked EXCEPT ![r] = @ \cup {q.id}],
             q.card = CardOf[r], previous' = [previous EXCEPT ![r] = q.id],
             Goto(r, "locked"), UNCHANGED seen
      PROVE  ChainInv'
  <2>1. q.id \in Ids
    BY DEF ChainInv, ChainTypeOK, Revision
  <2>2. ChainTypeOK'
    BY <1>2, <2>1 DEF ChainInv, ChainTypeOK, Lock, Goto, Points
  <2>3. \A s \in Uploads : s # r => previous'[s] = previous[s] /\ locked'[s] = locked[s]
    BY <1>2 DEF ChainInv, ChainTypeOK
  <2>4. /\ previous'[r] = q.id /\ q.id \in locked'[r]
    BY <1>2 DEF ChainInv, ChainTypeOK
  <2> QED BY <1>2, <2>2, <2>3, <2>4, PassKeeps DEF Lock, Points
<1>3. ASSUME NEW q \in quotes, locked' = [locked EXCEPT ![r] = @ \cup {q.id}],
             seen' = [seen EXCEPT ![r] = @ \ {q.id}], UNCHANGED <<uploadPc, previous>>
      PROVE  ChainInv'
  <2>1. q.id \in Ids
    BY DEF ChainInv, ChainTypeOK, Revision
  <2>2. ChainTypeOK'
    BY <1>3, <2>1 DEF ChainInv, ChainTypeOK, Lock
  <2>3. \A s \in Uploads : s # r => previous'[s] = previous[s] /\ locked'[s] = locked[s]
    BY <1>3 DEF ChainInv, ChainTypeOK
  <2>4. Goto(r, "chosen")
    BY <1>3 DEF ChainInv, ChainTypeOK, Lock, Goto
  <2>5. previous[r] = None
    BY DEF ChainInv, Waiting, Lock
  <2> QED BY <1>3, <2>2, <2>3, <2>4, <2>5, PassKeeps DEF Lock, Points
<1> QED BY <1>1, <1>2, <1>3 DEF Lock, Newest

LEMMA DemoteKeeps ==
  ASSUME ChainAssumption, ChainInv, NEW r \in Uploads, Demote(r)
  PROVE  ChainInv'
<1>1. ChainTypeOK'
  BY DEF ChainInv, ChainTypeOK, Demote, Goto, Points
<1> QED BY <1>1, PassKeeps DEF ChainInv, PreviousStands, Demote, Points

\* A number and a predecessor that are not taken; and of a card nobody filed a
\* revision to or from, the number is the next one.
LEMMA NewRowIsNext ==
  ASSUME ChainAssumption, ChainInv, NEW r \in Uploads, uploadPc[r] = "demoted", ~Taken(r)
  PROVE  IsDraftOf(NewRow(r), r)
<1>1. \A p \in quotes : p.no \in Nat /\ p.id # None
  BY DEF ChainInv, ChainTypeOK, Revision, Ids, ChainAssumption
<1>2. CardOf[r] \in Cards /\ previous[r] \in Ids \cup {None} /\ r \in Ids
  BY DEF ChainInv, ChainTypeOK, ChainAssumption, Ids
<1>3. /\ NewRow(r).id = r /\ NewRow(r).card = CardOf[r] /\ NewRow(r).no = NextNo(r)
      /\ NewRow(r).supersedes = previous[r] /\ NewRow(r).status = "draft"
  BY DEF NewRow
<1>4. Unclaimed(NewRow(r))
  BY <1>3 DEF Unclaimed, Taken
<1>5. NextNo(r) \in Nat /\ Linked(NewRow(r))
  <2>1. CASE previous[r] = None
    BY <1>3, <2>1 DEF NextNo, Linked
  <2>2. CASE previous[r] # None
    <3>1. PICK p \in quotes : p.id = previous[r] /\ p.card = CardOf[r]
      BY <2>2 DEF ChainInv, PreviousStands
    <3>2. QuoteOf(previous[r]) = p
      BY <3>1 DEF ChainInv, Apart, QuoteOf
    <3>3. NextNo(r) = p.no + 1
      BY <2>2, <3>2 DEF NextNo
    <3> QED BY <1>1, <1>3, <3>1, <3>3 DEF Linked
  <2> QED BY <2>1, <2>2
<1>6. NewRow(r) \in Revision
  BY <1>2, <1>5 DEF NewRow, Revision, Statuses
<1>7. ASSUME CardOf[r] \notin refiled PROVE Ahead(NewRow(r))
  <2>1. PICK n \in Nat : Counts(CardOf[r], n)
    BY <1>2, <1>7 DEF ChainInv, Counted
  <2>2. ~(NextNo(r) < n)
    BY <1>5, <2>1 DEF Taken, Counts, HasNo
  <2>3. \A p \in quotes : p.card = CardOf[r] => p.no < n
    BY <1>1, <2>1 DEF Counts, HasNo
  <2> QED BY <1>1, <1>3, <1>5, <2>2, <2>3 DEF Ahead
<1> QED BY <1>3, <1>4, <1>5, <1>6, <1>7 DEF IsDraftOf

LEMMA InsertKeeps ==
  ASSUME ChainAssumption, ChainInv, NEW r \in Uploads, Insert(r)
  PROVE  ChainInv'
<1>1. CASE Refuse(r, "422")
  BY <1>1, RefuseKeeps
<1>2. CASE /\ ~Taken(r)
           /\ draft' = [draft EXCEPT ![r] = {NewRow(r)}]
           /\ Goto(r, "inserted")
           /\ UNCHANGED <<quotes, seen, locked, previous, reply, saves, refiled>>
  <2>1. NewRow(r) \in Revision
    BY <1>2, NewRowIsNext DEF IsDraftOf, Insert
  <2>2. PICK row \in Revision : row = NewRow(r)
    BY <2>1
  <2>3. ChainTypeOK'
    BY <1>2, <2>1 DEF ChainInv, ChainTypeOK, Goto, Points
  <2>4. Apart' /\ Chained' /\ Counted' /\ CurrentIsNewest'
    BY <1>2, RowsStand DEF ChainInv
  <2>5. Authored' /\ Waiting' /\ PreviousStands'
    BY <1>2 DEF ChainInv, ChainTypeOK, Authored, Waiting, PreviousStands, Goto, Insert
  <2>6. \A s \in Uploads \ {r} : draft[s] = {} /\ uploadPc[s] # "inserted"
    BY DEF ChainInv, Drafted, Insert, SeriesFree
  <2>7. /\ draft'[r] = {row} /\ uploadPc'[r] = "inserted"
        /\ \A s \in Uploads \ {r} : draft'[s] = {} /\ uploadPc'[s] # "inserted"
    BY <1>2, <2>2, <2>6 DEF ChainInv, ChainTypeOK, Goto
  <2>8. IsDraftOf(row, r)'
    <3>1. IsDraftOf(row, r)
      BY <1>2, <2>2, NewRowIsNext DEF Insert
    <3> QED BY <1>2, <3>1, DraftStands
  <2>9. Drafted'
    BY <2>2, <2>7, <2>8 DEF Drafted
  <2> QED BY <2>3, <2>4, <2>5, <2>9 DEF ChainInv
<1> QED BY <1>1, <1>2 DEF Insert

---------------------------------------------------------------------------
\* The commit of a revision.

Mark(p, id) == IF p.id = id THEN [p EXCEPT !.status = "superseded"] ELSE p

LEMMA SupersedingMarks ==
  ASSUME NEW rows, NEW id
  PROVE  \A x : x \in Superseding(rows, id) <=> \E p \in rows : x = Mark(p, id)
  BY DEF Superseding, Mark

LEMMA MarkKeepsSpine ==
  ASSUME NEW p \in Revision, NEW id
  PROVE  /\ Mark(p, id) \in Revision
         /\ Mark(p, id).id = p.id /\ Mark(p, id).no = p.no
         /\ Mark(p, id).supersedes = p.supersedes /\ Mark(p, id).card = p.card
         /\ Mark(p, id).status = IF p.id = id THEN "superseded" ELSE p.status
  BY DEF Mark, Revision, Statuses

\* Before the commit there are as many rows of the card as the new one's number
\* says.
LEMMA DraftCounts ==
  ASSUME ChainInv, NEW r \in Uploads, NEW q \in Revision, IsDraftOf(q, r), q.card \notin refiled
  PROVE  Counts(q.card, q.no)
<1>1. PICK n \in Nat : Counts(q.card, n)
  BY DEF ChainInv, Counted, Revision
<1>2. q.no \in Nat /\ \A p \in quotes : p.no \in Nat
  BY DEF ChainInv, ChainTypeOK, Revision
<1>3. \A p \in quotes : p.card = q.card => p.no < q.no /\ p.no < n
  BY <1>1, <1>2 DEF IsDraftOf, Ahead, Counts, HasNo
<1>4. ~(q.no < n)
  BY <1>1, <1>2, <1>3 DEF Counts, HasNo
<1>5. CASE q.no = 0
  BY <1>1, <1>2, <1>4, <1>5
<1>6. CASE q.no # 0
  <2>1. PICK p \in quotes : p.card = q.card /\ p.no = q.no - 1
    BY <1>6 DEF IsDraftOf, Linked
  <2>2. n = q.no
    BY <1>2, <1>3, <1>4, <2>1
  <2> QED BY <1>1, <2>2
<1> QED BY <1>5, <1>6

LEMMA CommitKeeps ==
  ASSUME ChainAssumption, ChainInv, NEW r \in Uploads, Commit(r)
  PROVE  ChainInv'
<1>1. /\ uploadPc[r] = "inserted" /\ quotes \subseteq Revision
      /\ previous[r] \in Ids \cup {None} /\ refiled \subseteq Cards
  BY DEF Commit, ChainInv, ChainTypeOK
<1>2. PICK q \in Revision : draft[r] = {q} /\ IsDraftOf(q, r)
  BY <1>1 DEF ChainInv, Drafted
<1>3. PICK id \in Ids \cup {None} : id = previous[r]
  BY <1>1
<1>4. \A x : x \in quotes' <=> x = q \/ \E p \in quotes : x = Mark(p, id)
  BY <1>2, <1>3, SupersedingMarks DEF Commit
<1>5. \A p \in quotes :
        /\ Mark(p, id) \in Revision
        /\ Mark(p, id).id = p.id /\ Mark(p, id).no = p.no
        /\ Mark(p, id).supersedes = p.supersedes /\ Mark(p, id).card = p.card
        /\ Mark(p, id).status = IF p.id = id THEN "superseded" ELSE p.status
  BY <1>1, MarkKeepsSpine
<1>6. /\ q.id = r /\ q.card = CardOf[r] /\ q.status = "draft" /\ q.supersedes = id
      /\ Linked(q) /\ Unclaimed(q) /\ q.card \in Cards /\ q.no \in Nat
      /\ \A p \in quotes : p.no \in Nat
  BY <1>1, <1>2, <1>3 DEF IsDraftOf, Revision
<1>7. /\ uploadPc' = [uploadPc EXCEPT ![r] = "done"] /\ draft' = [draft EXCEPT ![r] = {}]
      /\ locked' = [locked EXCEPT ![r] = {}]
      /\ reply' = [reply EXCEPT ![r] = "201"] /\ UNCHANGED <<seen, previous, saves, refiled>>
  BY DEF Commit, Release, Goto
<1>8. ChainTypeOK'
  <2>1. quotes' \subseteq Revision
    BY <1>2, <1>4, <1>5
  <2> QED BY <1>7, <2>1 DEF ChainInv, ChainTypeOK, Points
<1>9. Apart'
  <2>1. \A p \in quotes : p.id # r
    BY <1>1 DEF ChainInv, Authored
  <2>2. ASSUME NEW x \in quotes', NEW y \in quotes',
               \/ x.id = y.id
               \/ x.card = y.card /\ x.no = y.no
               \/ x.supersedes = y.supersedes /\ y.supersedes # None
        PROVE  x = y
    <3>1. CASE x = q \/ y = q
      BY <1>4, <1>5, <1>6, <2>1, <2>2, <3>1 DEF Unclaimed
    <3>2. CASE x # q /\ y # q
      <4>1. PICK p \in quotes : x = Mark(p, id)
        BY <1>4, <3>2
      <4>2. PICK p2 \in quotes : y = Mark(p2, id)
        BY <1>4, <3>2
      <4>3. p = p2
        BY <1>5, <2>2, <4>1, <4>2 DEF ChainInv, Apart
      <4> QED BY <4>1, <4>2, <4>3
    <3> QED BY <3>1, <3>2
  <2> QED BY <2>2 DEF Apart
<1>10. Authored'
  BY <1>4, <1>5, <1>6, <1>7 DEF ChainInv, ChainTypeOK, Authored
<1>11. Chained'
  <2>1. ASSUME NEW p \in quotes
        PROVE  \E x \in quotes' : x.id = p.id /\ x.no = p.no /\ x.card = p.card
    BY <1>4, <1>5
  <2>2. Linked(q)'
    BY <1>6, <2>1 DEF Linked
  <2>3. ASSUME NEW p \in quotes, p.card \notin refiled PROVE Linked(Mark(p, id))'
    BY <1>5, <2>1, <2>3 DEF Linked, ChainInv, Chained
  <2> QED BY <1>4, <1>5, <1>7, <2>2, <2>3 DEF Chained
<1>12. Counted'
  <2>1. \A card, k : HasNo(card, k)' <=> HasNo(card, k) \/ (card = q.card /\ k = q.no)
    BY <1>4, <1>5 DEF HasNo
  <2>2. ASSUME NEW card \in Cards \ refiled PROVE \E n \in Nat : Counts(card, n)'
    <3>1. CASE card = q.card
      <4>1. Counts(card, q.no)
        BY <1>2, <2>2, <3>1, DraftCounts
      <4>2. ASSUME NEW k \in Nat PROVE k < q.no + 1 <=> k = q.no \/ k < q.no
        BY <1>6
      <4>3. Counts(card, q.no + 1)'
        BY <2>1, <3>1, <4>1, <4>2 DEF Counts
      <4>4. q.no + 1 \in Nat
        BY <1>6
      <4> QED BY <4>3, <4>4
    <3>2. CASE card # q.card
      <4>1. PICK n \in Nat : Counts(card, n)
        BY <2>2 DEF ChainInv, Counted
      <4> QED BY <2>1, <3>2, <4>1 DEF Counts
    <3> QED BY <3>1, <3>2
  <2> QED BY <1>7, <2>2 DEF Counted
<1>13. Waiting' /\ PreviousStands'
  <2>1. \A p \in quotes : \E x \in quotes' : x.id = p.id /\ x.card = p.card
    BY <1>4, <1>5
  <2> QED BY <1>7, <2>1 DEF ChainInv, ChainTypeOK, Waiting, PreviousStands
<1>14. Drafted'
  BY <1>1, <1>7 DEF ChainInv, ChainTypeOK, Drafted
<1>15. CurrentIsNewest'
  <2> SUFFICES ASSUME saves = 0
               PROVE  /\ refiled' = {}
                      /\ \A x \in quotes' :
                           x.status = "draft"
                             <=> \A y \in quotes' : y.card = x.card => y.no <= x.no
    BY <1>7 DEF CurrentIsNewest
  <2>0. refiled = {} /\ refiled' = {}
    BY <1>7 DEF ChainInv, CurrentIsNewest
  <2>1. \A p \in quotes : p.card = q.card => p.no < q.no
    BY <1>2, <2>0 DEF IsDraftOf, Ahead
  <2>2. \A y \in quotes' : y.card = q.card => y.no <= q.no
    BY <1>4, <1>5, <1>6, <2>1
  <2>3. ASSUME NEW p \in quotes
        PROVE  Mark(p, id).status = "draft"
                 <=> \A y \in quotes' : y.card = p.card => y.no <= p.no
    <3>1. CASE p.card = q.card
      <4>1. PICK last \in quotes :
              last.card = q.card /\ last.id = id /\ last.no = q.no - 1
        BY <1>6, <2>1, <3>1 DEF Linked
      <4>2. \A y \in quotes : y.card = q.card => y.no <= last.no
        BY <1>6, <2>1, <4>1
      <4>3. Mark(p, id).status # "draft"
        <5>1. CASE p.id = id
          BY <1>5, <5>1
        <5>2. CASE p.id # id
          <6>1. p.no # last.no
            BY <3>1, <4>1, <5>2 DEF ChainInv, Apart
          <6>2. ~(last.no <= p.no)
            BY <1>6, <3>1, <4>1, <4>2, <6>1
          <6>3. p.status # "draft"
            BY <3>1, <4>1, <6>2 DEF ChainInv, CurrentIsNewest
          <6> QED BY <1>5, <5>2, <6>3
        <5> QED BY <5>1, <5>2
      <4>4. q \in quotes' /\ ~(q.no <= p.no)
        BY <1>4, <1>6, <2>1, <3>1
      <4> QED BY <3>1, <4>3, <4>4
    <3>2. CASE p.card # q.card
      <4>1. p.id # id
        <5>1. CASE id = None
          BY <1>1, <5>1 DEF ChainAssumption, Revision, Ids
        <5>2. CASE id # None
          <6>1. PICK last \in quotes : last.id = id /\ last.card = q.card
            BY <1>1, <1>3, <1>6, <5>2 DEF ChainInv, PreviousStands
          <6> QED BY <3>2, <6>1 DEF ChainInv, Apart
        <5> QED BY <5>1, <5>2
      <4>2. (\A y \in quotes' : y.card = p.card => y.no <= p.no)
              <=> \A y \in quotes : y.card = p.card => y.no <= p.no
        BY <1>4, <1>5, <3>2
      <4> QED BY <1>5, <4>1, <4>2 DEF ChainInv, CurrentIsNewest
    <3> QED BY <3>1, <3>2
  <2>4. ASSUME NEW x \in quotes'
        PROVE  x.status = "draft" <=> \A y \in quotes' : y.card = x.card => y.no <= x.no
    <3>1. CASE x = q
      BY <1>6, <2>2, <3>1
    <3>2. CASE x # q
      <4>1. PICK p \in quotes : x = Mark(p, id)
        BY <1>4, <3>2
      <4> QED BY <1>5, <2>3, <4>1
    <3> QED BY <3>1, <3>2
  <2> QED BY <2>0, <2>4
<1> QED BY <1>8, <1>9, <1>10, <1>11, <1>12, <1>13, <1>14, <1>15 DEF ChainInv

---------------------------------------------------------------------------
\* The admin.

\* A row made by hand is the first of its card, as far as the card is as the
\* uploads made it, and nobody is about to commit another.
LEMMA AddByHandKeeps ==
  ASSUME ChainAssumption, ChainInv, NEW card \in Cards, AddByHand(card) PROVE ChainInv'
<1> DEFINE row ==
      [id |-> ByHand, card |-> card, no |-> 0, supersedes |-> None, status |-> "draft"]
<1>1. /\ quotes' = quotes \cup {row}
      /\ UNCHANGED <<uploadPc, seen, locked, previous, draft, reply, saves, refiled>>
  BY DEF AddByHand
<1>2. /\ row \in Revision /\ row.id = ByHand /\ row.card = card /\ row.no = 0
      /\ row.supersedes = None /\ row.status = "draft"
  BY DEF Revision, Ids, Statuses
<1> HIDE DEF row
<1>3. /\ \A q \in quotes : q.id # ByHand
      /\ \A q \in quotes : q.card = card => q.no # 0
  BY DEF AddByHand, NumberFree
<1>4. \A q \in quotes : q \in Revision /\ q.no \in Nat
  BY DEF ChainInv, ChainTypeOK, Revision
<1>5. ASSUME card \notin refiled PROVE \A q \in quotes : q.card # card
  <2>1. PICK n \in Nat : Counts(card, n)
    BY <1>5 DEF ChainInv, Counted
  <2>2. n = 0
    BY <1>3, <2>1 DEF Counts, HasNo
  <2> QED BY <1>4, <2>1, <2>2 DEF Counts, HasNo
<1>6. ChainTypeOK'
  BY <1>1, <1>2 DEF ChainInv, ChainTypeOK
<1>7. Waiting' /\ PreviousStands' /\ Apart' /\ Authored'
  BY <1>1, <1>2, <1>3 DEF ChainInv, Waiting, PreviousStands, Apart, Authored, ChainAssumption
<1>8. \A q : Linked(q) => Linked(q)'
  BY <1>1 DEF Linked
<1>9. Chained'
  <2>1. Linked(row)
    BY <1>2 DEF Linked
  <2> QED BY <1>1, <1>8, <2>1 DEF ChainInv, Chained
<1>10. Counted'
  <2>1. \A c, k : HasNo(c, k)' <=> HasNo(c, k) \/ (c = card /\ k = 0)
    BY <1>1, <1>2 DEF HasNo
  <2>2. ASSUME NEW c \in Cards \ refiled PROVE \E n \in Nat : Counts(c, n)'
    <3>1. CASE c = card
      <4>1. \A k \in Nat : ~HasNo(c, k)
        BY <1>5, <2>2, <3>1 DEF HasNo
      <4>2. Counts(c, 1)'
        BY <2>1, <3>1, <4>1 DEF Counts
      <4> QED BY <4>2
    <3>2. CASE c # card
      <4>1. PICK n \in Nat : Counts(c, n)
        BY <2>2 DEF ChainInv, Counted
      <4> QED BY <2>1, <3>2, <4>1 DEF Counts
    <3> QED BY <3>1, <3>2
  <2> QED BY <1>1, <2>2 DEF Counted
<1>11. Drafted'
  <2>1. ASSUME NEW r \in Uploads, uploadPc[r] = "inserted",
               NEW q \in Revision, draft[r] = {q}, IsDraftOf(q, r)
        PROVE  IsDraftOf(q, r)'
    <3>1. q.card = card => q.no # 0
      BY <2>1 DEF AddByHand, NumberFree
    <3>2. Unclaimed(q)'
      BY <1>1, <1>2, <2>1, <3>1 DEF IsDraftOf, Unclaimed
    <3>3. ASSUME q.card \notin refiled PROVE Ahead(q)'
      <4>1. Ahead(q) /\ Linked(q)
        BY <2>1, <3>3 DEF IsDraftOf
      <4>2. q.card # card
        BY <1>5, <3>1, <3>3, <4>1 DEF Linked
      <4> QED BY <1>1, <1>2, <4>1, <4>2 DEF Ahead
    <3> QED BY <1>1, <1>8, <2>1, <3>2, <3>3 DEF IsDraftOf
  <2> QED BY <1>1, <2>1 DEF ChainInv, Drafted
<1>12. CurrentIsNewest'
  <2> SUFFICES ASSUME saves = 0, refiled = {}, NEW x \in quotes'
               PROVE  x.status = "draft"
                        <=> \A y \in quotes' : y.card = x.card => y.no <= x.no
    BY <1>1 DEF CurrentIsNewest, ChainInv
  <2>1. \A q \in quotes : q.card # card
    BY <1>5
  <2>2. CASE x = row
    BY <1>1, <1>2, <2>1, <2>2
  <2>3. CASE x # row
    BY <1>1, <1>2, <2>1, <2>3 DEF ChainInv, CurrentIsNewest
  <2> QED BY <2>2, <2>3
<1> QED BY <1>6, <1>7, <1>9, <1>10, <1>11, <1>12 DEF ChainInv

\* The change form alters a status, and the card of a revision nobody holds.
LEMMA SaveFormKeeps ==
  ASSUME ChainAssumption, ChainInv, NEW q \in quotes, SaveForm(q) PROVE ChainInv'
<1>1. PICK status \in Statuses, card \in Cards :
        /\ card # q.card => NumberFree(card, q.no)
        /\ quotes' = (quotes \ {q}) \cup {[q EXCEPT !.status = status, !.card = card]}
        /\ refiled' = IF card = q.card THEN refiled ELSE refiled \cup {q.card, card}
  BY DEF SaveForm
<1>2. PICK new \in Revision : new = [q EXCEPT !.status = status, !.card = card]
  BY DEF ChainInv, ChainTypeOK, Revision
<1>3. /\ new.id = q.id /\ new.no = q.no /\ new.supersedes = q.supersedes /\ new.card = card
      /\ q \in Revision /\ q.card \in Cards
  BY <1>2 DEF ChainInv, ChainTypeOK, Revision
<1>4. /\ saves' = saves + 1 /\ saves \in Nat
      /\ \A r \in Uploads : q.id \notin locked[r]
      /\ UNCHANGED <<uploadPc, seen, locked, previous, draft, reply>>
  BY DEF SaveForm, ChainInv, ChainTypeOK
<1>5. \A x : x \in quotes' <=> (x \in quotes /\ x # q) \/ x = new
  BY <1>1, <1>2
<1>6. /\ refiled \subseteq refiled' /\ refiled' \subseteq Cards
      /\ card # q.card => q.card \in refiled' /\ card \in refiled'
  BY <1>1, <1>3 DEF ChainInv, ChainTypeOK
<1>7. ChainTypeOK'
  BY <1>4, <1>5, <1>6 DEF ChainInv, ChainTypeOK
<1>8. Waiting' /\ PreviousStands'
  BY <1>3, <1>4, <1>5 DEF ChainInv, Waiting, PreviousStands
<1>9. Apart'
  <2>1. ASSUME NEW p \in quotes, p # q,
               \/ p.id = new.id
               \/ p.card = new.card /\ p.no = new.no
               \/ p.supersedes = new.supersedes /\ new.supersedes # None
        PROVE  FALSE
    BY <1>1, <1>3, <2>1 DEF ChainInv, Apart, NumberFree
  <2> QED BY <1>5, <2>1 DEF ChainInv, Apart
<1>10. Authored'
  BY <1>3, <1>4, <1>5 DEF ChainInv, Authored
<1>11. CurrentIsNewest'
  BY <1>4 DEF CurrentIsNewest
\* On a card that is no side of the move there is nothing new but a status.
<1>12. \A x : x.card \notin refiled' /\ Linked(x) => Linked(x)'
  BY <1>3, <1>5, <1>6 DEF Linked
<1>13. Chained'
  <2>1. ASSUME card = q.card, card \notin refiled' PROVE Linked(new)
    BY <1>3, <1>6, <2>1 DEF ChainInv, Chained, Linked
  <2> QED BY <1>3, <1>5, <1>6, <1>12, <2>1 DEF ChainInv, Chained
<1>14. Counted'
  <2>1. ASSUME NEW c \in Cards \ refiled' PROVE \E n \in Nat : Counts(c, n)'
    <3>1. PICK n \in Nat : Counts(c, n)
      BY <1>6, <2>1 DEF ChainInv, Counted
    <3>2. \A k : HasNo(c, k)' <=> HasNo(c, k)
      BY <1>3, <1>5, <1>6, <2>1 DEF HasNo
    <3> QED BY <3>1, <3>2 DEF Counts
  <2> QED BY <2>1 DEF Counted
<1>15. Drafted'
  <2>1. ASSUME NEW r \in Uploads, uploadPc[r] = "inserted",
               NEW d \in Revision, draft[r] = {d}, IsDraftOf(d, r)
        PROVE  IsDraftOf(d, r)'
    <3>1. card # q.card /\ d.card = card => d.no # q.no
      BY <1>1, <2>1 DEF NumberFree
    <3>2. Unclaimed(d)'
      BY <1>3, <1>5, <2>1, <3>1 DEF IsDraftOf, Unclaimed
    <3>3. Linked(d)'
      <4>1. CASE previous[r] = None
        BY <1>1, <2>1, <4>1 DEF IsDraftOf, Linked, ChainInv, ChainTypeOK, Revision, Ids,
          ChainAssumption
      <4>2. CASE previous[r] # None
        <5>1. previous[r] # q.id
          BY <1>4, <2>1, <4>2 DEF ChainInv, PreviousStands
        <5> QED BY <1>5, <2>1, <4>2, <5>1 DEF IsDraftOf, Linked
      <4> QED BY <4>1, <4>2
    <3>4. d.card \notin refiled' => Ahead(d)'
      BY <1>3, <1>5, <1>6, <2>1 DEF IsDraftOf, Ahead
    <3> QED BY <1>4, <2>1, <3>2, <3>3, <3>4 DEF IsDraftOf
  <2> QED BY <1>4, <2>1 DEF ChainInv, Drafted
<1> QED BY <1>7, <1>8, <1>9, <1>10, <1>11, <1>13, <1>14, <1>15 DEF ChainInv

---------------------------------------------------------------------------

LEMMA ChainStep ==
  ASSUME ChainAssumption, ChainInv, [ChainNext]_chainVars PROVE ChainInv'
<1>1. CASE UNCHANGED chainVars
  <2>1. ChainTypeOK' /\ Waiting' /\ PreviousStands' /\ Authored'
    BY <1>1 DEF chainVars, ChainInv, ChainTypeOK, Waiting, PreviousStands, Authored
  <2>2. Apart' /\ Chained' /\ Counted' /\ CurrentIsNewest' /\ Drafted'
    BY <1>1, RowsStand DEF chainVars, ChainInv, Drafted, IsDraftOf
  <2> QED BY <2>1, <2>2 DEF ChainInv
<1>2. ASSUME NEW r \in Uploads, UploadStep(r) PROVE ChainInv'
  BY <1>2, ChooseKeeps, LockKeeps, RefuseKeeps, DemoteKeeps, InsertKeeps, CommitKeeps
  DEF UploadStep, RefusePdf
<1>3. ASSUME NEW r \in Uploads, Crash(r) PROVE ChainInv'
  BY <1>3, RefuseKeeps DEF Crash
<1>4. ASSUME NEW q \in quotes, SaveForm(q) PROVE ChainInv'
  BY <1>4, SaveFormKeeps
<1> QED BY <1>1, <1>2, <1>3, <1>4, AddByHandKeeps DEF ChainNext, UploadsFinished

THEOREM ChainSafe == ASSUME ChainAssumption PROVE ChainSpec => []ChainInv
<1>1. ChainInit => ChainInv
  BY ChainBegins
<1>2. ChainInv /\ [ChainNext]_chainVars => ChainInv'
  BY ChainStep
<1> QED BY <1>1, <1>2, PTL DEF ChainSpec

\* create_quotation_revision: however uploads overlap, and whatever the admin
\* saves, revisions of a card have numbers of their own and predecessors of their
\* own; and they are one chain unless the form filed one to or from the card.
THEOREM RevisionsFormAChain == ASSUME ChainAssumption PROVE ChainSpec => []ChainIsLinear
<1>1. ChainInv => ChainIsLinear
  BY DEF ChainInv, Apart, Chained, ChainIsLinear
<1> QED BY <1>1, ChainSafe, PTL

\* current_quotation: as long as nobody has saved a revision by hand, the drafts
\* of a card are its newest revision.
THEOREM CurrentQuotationIsNewest == ASSUME ChainAssumption PROVE ChainSpec => []OneDraft
<1>1. ChainInv => OneDraft
  BY DEF ChainInv, CurrentIsNewest, OneDraft, Newest, Of
<1> QED BY <1>1, ChainSafe, PTL

---------------------------------------------------------------------------
\* What QueryCache guarantees for any enquiries, customers and writes under way
\* at once: OwnChangesShown.
\*
\* PagesInv carries it: an entry that is neither marked nor late, and what a load
\* has read that no invalidation joined, are no older than what was heard.  A
\* write is heard by Refresh, which marks or begins again whatever the hook names
\* (RefreshLoads).  What it does not name, and is not in Unmentioned, has nothing
\* to learn (Mentioned, StillUpToDate): the write made what the page already
\* needed to be reached.  So PagesInv also says that a page was reachable, what
\* its answers have of what was there by then (Born), and that a write that makes
\* something is its first version.

\* The kinds of fact that a view shows, all its statements together.
Kinds(name) ==
  CASE name = "dashboard"   -> {"card", "status", "lines", "stage"}
    [] name = "board"       -> {"card", "lines", "stage", "quotes"}
    [] name = "clients"     -> {"client"}
    [] name = "client"      -> {"client", "contacts"}
    [] name = "job-cards"   -> {"card", "status"}
    [] name = "job-card"    -> {"card", "status", "lines", "stage", "quotes"}
    [] name = "notes"       -> {"notes"}
    [] name = "attachments" -> {"files"}
    [] name = "quotations"  -> {"quotes"}
    [] name = "job-line"    -> {"card", "lines", "stage", "quotes"}

Seen(v) == {f \in Facts : f[1] \in Kinds(NameOf(v)) /\ v[2] \in {Every, f[2]}}

\* The writes that make something.
Makers == {"create", "lines", "client"}

\* What there was before anyone could be at the page that shows v.
Born(v, f) ==
  /\ v[2] # Every
  /\ \/ f[1] \in {"client", "card", "status"}
     \/ v[1] = "job-line" /\ f[1] \in {"lines", "stage"}

IsAnswer(v, answer) ==
  /\ DOMAIN answer \subseteq Seen(v)
  /\ \A f \in DOMAIN answer : answer[f] \in Nat /\ (Born(v, f) => answer[f] > 0)

CacheTyped ==
  /\ version \in [Facts -> Nat]
  /\ held \subseteq Views /\ suspect \subseteq held /\ late \subseteq held
  /\ joined \subseteq Views
  /\ loading \in [Views -> Nat]
  /\ here \in Pages
  /\ heard \in [Writes -> [Facts -> Nat]]
  /\ DOMAIN data = Views /\ DOMAIN got = Views /\ DOMAIN calls = Slots

AnswersAre == \A v \in Views : IsAnswer(v, data[v]) /\ IsAnswer(v, got[v])

LoadsShown ==
  /\ Reachable(here)
  /\ \A v \in Views : loading[v] > 0 => v \in Shown
  /\ \A v \in joined : loading[v] > 0

\* A line has a stage and a card, a card has a status.
InOrder ==
  /\ \A j \in Enquiries :
       /\ Known(<<"card", j>>) <=> Known(<<"status", j>>)
       /\ Known(<<"lines", j>>) <=> Known(<<"stage", j>>)
       /\ Known(<<"lines", j>>) => Known(<<"card", j>>)

IsMade(c) ==
  /\ DOMAIN c.made \subseteq {f \in Facts : f[1] \in Changes(c.what) /\ f[2] = c.about}
  /\ \A f \in DOMAIN c.made :
       /\ c.made[f] \in Nat /\ 0 < c.made[f] /\ c.made[f] <= version[f]
       /\ c.what \in Makers => c.made[f] = 1
  /\ c.what = "client" => c.about \in Customers /\ Known(<<"client", c.about>>)
  /\ c.what = "lines" => c.about \in Enquiries /\ Known(<<"card", c.about>>)

IsCall(c) ==
  /\ c.stage # "free" => c.what \in Writes
  /\ c.stage = "done" => IsMade(c)

CallsAre == \A s \in Slots : IsCall(calls[s])

HeardIsMade ==
  \A what \in Writes, f \in Facts :
    /\ heard[what][f] <= version[f]
    /\ heard[what][f] > 0 => f[1] \in Changes(what)
    /\ what \in Makers => heard[what][f] <= 1

UpToDate(v, answer) ==
  \A what \in Writes : <<what, v[1]>> \notin Unmentioned =>
    \A f \in DOMAIN answer : answer[f] >= heard[what][f]

EntriesUpToDate == \A v \in held \ (suspect \cup late) : UpToDate(v, data[v])

LoadsUpToDate == \A v \in Views \ joined : loading[v] > 0 => UpToDate(v, got[v])

PagesInv ==
  /\ CacheTyped /\ AnswersAre /\ LoadsShown /\ InOrder
  /\ CallsAre /\ HeardIsMade /\ EntriesUpToDate /\ LoadsUpToDate

---------------------------------------------------------------------------

\* The shapes of a view.
LEMMA ViewShapes ==
  ASSUME NEW v \in Views
  PROVE  \/ v \in {<<"dashboard", Every, Every>>, <<"board", Every, Every>>,
                   <<"clients", Every, Every>>, <<"job-cards", Every, Every>>}
         \/ \E k \in Customers : v = <<"client", k, Every>>
         \/ \E j \in Enquiries : \/ v = <<"job-line", j, Every>>
                                 \/ \E p \in {Every, "notes", "attachments", "quotations"} :
                                      v = <<"job-card", j, p>>
  BY DEF Views

\* A statement reads some of what its view shows.
LEMMA StatementReads ==
  ASSUME NEW name \in {"dashboard", "board", "clients", "client", "job-cards", "job-card",
                       "notes", "attachments", "quotations", "job-line"},
         NEW n \in DOMAIN Reads(name)
  PROVE  Reads(name)[n] \subseteq Kinds(name)
  BY DEF Reads, Kinds, dashboard, board, clients, client_detail, job_cards,
         job_card_detail, job_card_notes, job_card_attachments, job_card_quotations,
         job_line_detail,
         serialize_client, serialize_contact, serialize_job_card,
         serialize_job_line, serialize_quotation, serialize_note, serialize_attachment,
         serialize_board_line

LEMMA NameIsAName ==
  ASSUME CacheAssumption, NEW v \in Views
  PROVE  NameOf(v) \in {"dashboard", "board", "clients", "client", "job-cards", "job-card",
                       "notes", "attachments", "quotations", "job-line"}
  BY ViewShapes DEF NameOf

LEMMA FactsSeen ==
  ASSUME CacheAssumption, NEW v \in Views, NEW n \in DOMAIN Statements(v)
  PROVE  FactsOf(v, n) \subseteq Seen(v)
  BY NameIsAName, StatementReads DEF FactsOf, Seen, Statements


LEMMA CoversIs ==
  ASSUME NEW a, NEW b, NEW c, NEW v
  PROVE  Covers(<<a, b, c>>, v) <=> a \in {Every, v[1]} /\ b \in {Every, v[2]} /\ c \in {Every, v[3]}
<1>1. 1..3 = {1, 2, 3}
  OBVIOUS
<1> QED BY <1>1 DEF Covers

\* What a view shows, by the shape of its key.
LEMMA SeenOf ==
  ASSUME CacheAssumption, NEW v \in Views, NEW f \in Seen(v)
  PROVE  /\ v[2] \in {Every, f[2]}
         /\ f[1] \in Kinds(NameOf(v))
         /\ \/ v[1] \in {"dashboard", "board", "clients", "job-cards"} /\ v[2] = Every /\ v[3] = Every
            \/ v[1] \in {"client", "job-line"} /\ v[2] # Every /\ v[3] = Every
            \/ /\ v[1] = "job-card" /\ v[2] # Every
               /\ v[3] \in {Every, "notes", "attachments", "quotations"}
  BY ViewShapes DEF Seen, CacheAssumption

\* What a view shows of what was written is loaded again, or left out of the
\* hook, or older than the page.
LEMMA Mentioned ==
  ASSUME CacheAssumption, NEW v \in Views, NEW what \in Writes, NEW x,
         NEW f \in Seen(v), f[1] \in Changes(what), f[2] = x,
         v \notin Hit(Invalidates(what, x)), <<what, v[1]>> \notin Unmentioned
  PROVE  what \in Makers /\ Born(v, f)
<1>1. \A key \in Invalidates(what, x) : ~Covers(key, v)
  BY DEF Hit
<1>2. /\ v[2] \in {Every, x} /\ f[1] \in Kinds(NameOf(v))
      /\ \/ v[1] \in {"dashboard", "board", "clients", "job-cards"} /\ v[2] = Every /\ v[3] = Every
         \/ v[1] \in {"client", "job-line"} /\ v[2] = x /\ v[2] # Every /\ v[3] = Every
         \/ /\ v[1] = "job-card" /\ v[2] = x /\ v[2] # Every
            /\ v[3] \in {Every, "notes", "attachments", "quotations"}
  BY SeenOf
<1>a. "notes" # Every /\ "attachments" # Every /\ "quotations" # Every
  BY DEF CacheAssumption
<1>3. CASE what = "transition"
  <2>1. \A n \in {"board", "job-card", "job-line", "dashboard"} : ~Covers(<<n, Every, Every>>, v)
    BY <1>1, <1>3 DEF Invalidates, useApplyTransition, Affected
  <2>2. v[1] \notin {"board", "job-card", "job-line", "dashboard"}
    BY <2>1, CoversIs
  <2>3. v[1] # "job-cards"
    BY <1>3 DEF Unmentioned
  <2> QED BY <1>2, <1>3, <2>2, <2>3 DEF Kinds, NameOf, Changes
<1>4. CASE what = "upload"
  <2>1. /\ ~Covers(<<"job-card", x, Every>>, v) /\ ~Covers(<<"board", Every, Every>>, v)
        /\ ~Covers(<<"dashboard", Every, Every>>, v)
    BY <1>1, <1>4 DEF Invalidates, useUploadRevision
  <2>2. v[1] \notin {"board", "job-card", "dashboard"}
    BY <2>1, <1>2, CoversIs
  <2>3. v[1] \notin {"job-cards", "job-line"}
    BY <1>4 DEF Unmentioned
  <2> QED BY <1>2, <1>4, <2>2, <2>3 DEF Kinds, NameOf, Changes
<1>5. CASE what \in {"note", "file"}
  <2>1. ~Covers(<<"job-card", x, Every>>, v)
    BY <1>1, <1>5 DEF Invalidates, useAddNote, useUploadAttachment
  <2>2. v[1] # "job-card"
    BY <2>1, <1>2, CoversIs
  <2> QED BY <1>2, <1>5, <2>2 DEF Kinds, NameOf, Changes
<1>6. CASE what = "create"
  <2>1. \A n \in {"board", "job-cards", "dashboard"} : ~Covers(<<n, Every, Every>>, v)
    BY <1>1, <1>6 DEF Invalidates, useCreateJobCard
  <2>2. v[1] \notin {"board", "job-cards", "dashboard"}
    BY <2>1, CoversIs
  <2>3. f[1] \in {"card", "status"}
    BY <1>6 DEF Changes
  <2>4. v[1] # "clients"
    BY <1>2, <2>3 DEF Kinds, NameOf
  <2> QED BY <1>2, <1>6, <2>2, <2>3, <2>4 DEF Makers, Born
<1>7. CASE what = "lines"
  <2>1. ~Covers(<<"job-card", x, Every>>, v) /\ ~Covers(<<"board", Every, Every>>, v)
    BY <1>1, <1>7 DEF Invalidates, submit
  <2>2. v[1] \notin {"board", "job-card"}
    BY <2>1, <1>2, CoversIs
  <2>3. v[1] # "dashboard"
    BY <1>7 DEF Unmentioned
  <2>4. f[1] \in {"lines", "stage"}
    BY <1>7 DEF Changes
  <2>5. v[1] = "job-line"
    BY <1>2, <2>2, <2>3, <2>4 DEF Kinds, NameOf
  <2> QED BY <1>2, <1>7, <2>4, <2>5 DEF Makers, Born
<1>8. CASE what = "client"
  <2>1. ~Covers(<<"clients", Every, Every>>, v)
    BY <1>1, <1>8 DEF Invalidates, useCreateClient
  <2>2. v[1] # "clients"
    BY <2>1, CoversIs
  <2>3. f[1] = "client"
    BY <1>8 DEF Changes
  <2>4. v[1] = "client"
    BY <1>2, <2>2, <2>3 DEF Kinds, NameOf
  <2> QED BY <1>2, <1>8, <2>3, <2>4 DEF Makers, Born
<1>9. CASE what = "contact"
  <2>1. ~Covers(<<"client", x, Every>>, v)
    BY <1>1, <1>9 DEF Invalidates, useCreateContact
  <2>2. v[1] # "client"
    BY <2>1, <1>2, CoversIs
  <2> QED BY <1>2, <1>9, <2>2 DEF Kinds, NameOf, Changes
<1> QED BY <1>3, <1>4, <1>5, <1>6, <1>7, <1>8, <1>9 DEF Writes

---------------------------------------------------------------------------

\* What is shown by its own key was there when the tab went to the page.
LEMMA ShownExists ==
  ASSUME CacheAssumption, CacheTyped, LoadsShown, InOrder,
         NEW v \in Views, v \in Shown, NEW f \in Seen(v), Born(v, f)
  PROVE  version[f] > 0
<1>1. /\ f[2] = v[2] /\ f[2] # Every /\ f \in Facts
      /\ f[1] \in Kinds(NameOf(v))
      /\ v[1] \in {"client", "job-line", "job-card"}
  BY SeenOf DEF Born, Seen
<1>2. f = <<f[1], f[2]>>
  BY <1>1 DEF Facts
<1>3. \/ here[1] \in {"new", "client"} /\ v[1] = "client" /\ v[2] = here[2]
      \/ here[1] \in {"job-card", "job-line"} /\ v[1] = here[1] /\ v[2] = here[2]
  <2>1. here[1] \in {"dashboard", "board", "job-cards", "clients", "new", "client", "job-card",
                     "job-line"}
    BY DEF CacheTyped, Pages
  <2>2. CASE here[1] \in {"dashboard", "board", "job-cards", "clients"}
    BY <1>1, <2>2 DEF Shown, Mounted
  <2>3. CASE here[1] \in {"new", "client"}
    <3>1. here[1] = "new" => v[1] = "client" /\ v[2] = here[2]
      BY <1>1, <2>3 DEF Shown, Mounted
    <3>2. here[1] = "client" => v = <<"client", here[2], Every>>
      BY <1>1, <2>3 DEF Shown, Mounted
    <3> QED BY <2>3, <3>1, <3>2
  <2>4. CASE here[1] = "job-card"
    <3>1. v = <<"job-card", here[2], Every>> \/ (v[1] = "job-card" /\ v[2] = here[2])
      BY <1>1, <2>4 DEF Shown, Mounted
    <3> QED BY <2>4, <3>1
  <2>5. CASE here[1] = "job-line"
    <3>1. v = <<"job-line", here[2], Every>>
      BY <1>1, <2>5 DEF Shown, Mounted
    <3> QED BY <2>5, <3>1
  <2> QED BY <2>1, <2>2, <2>3, <2>4, <2>5
<1>4. Reachable(here)
  BY DEF LoadsShown
<1>5. CASE v[1] = "client"
  <2>1. f[1] = "client"
    BY <1>1, <1>5, SeenOf DEF Born, Kinds, NameOf
  <2> QED BY <1>1, <1>2, <1>3, <1>4, <1>5, <2>1 DEF Reachable, Known
<1>6. CASE v[1] = "job-card"
  <2>1. f[1] \in {"card", "status"}
    <3>1. "client" \notin Kinds(NameOf(v))
      BY <1>6, SeenOf DEF Kinds, NameOf
    <3> QED BY <1>1, <1>6, <3>1 DEF Born
  <2>2. f[2] \in Enquiries /\ Known(<<"card", f[2]>>)
    BY <1>1, <1>3, <1>4, <1>6, <2>1 DEF Reachable, Facts
  <2>3. Known(<<"status", f[2]>>)
    BY <2>2 DEF InOrder
  <2> QED BY <1>2, <2>1, <2>2, <2>3 DEF Known
<1>7. CASE v[1] = "job-line"
  <2>1. f[1] \in {"card", "status", "lines", "stage"}
    <3>1. "client" \notin Kinds(NameOf(v))
      BY <1>7, SeenOf DEF Kinds, NameOf
    <3> QED BY <1>1, <1>7, <3>1 DEF Born
  <2>2. f[2] \in Enquiries /\ Known(<<"lines", f[2]>>)
    BY <1>1, <1>3, <1>4, <1>7, <2>1 DEF Reachable, Facts
  <2>3. /\ Known(<<"stage", f[2]>>) /\ Known(<<"card", f[2]>>) /\ Known(<<"status", f[2]>>)
    BY <2>2 DEF InOrder
  <2> QED BY <1>2, <2>1, <2>2, <2>3 DEF Known
<1> QED BY <1>1, <1>5, <1>6, <1>7

\* A write on the server.
LEMMA ApplyKeeps ==
  ASSUME CacheAssumption, CacheTyped, InOrder,
         NEW what \in Writes, NEW x, Apply(what, x)
  PROVE  /\ version' \in [Facts -> Nat]
         /\ \A f \in Facts : version'[f] >= version[f]
         /\ \A f \in Touched(what, x) :
              version'[f] > 0 /\ (what \in Makers => version'[f] = 1)
         /\ what = "client" => x \in Customers /\ Known(<<"client", x>>)'
         /\ what = "lines" => x \in Enquiries /\ Known(<<"card", x>>)'
         /\ InOrder'
<1>1. /\ version \in [Facts -> Nat]
      /\ version' = [f \in Facts |->
           IF f \in Touched(what, x) THEN version[f] + 1 ELSE version[f]]
      /\ Touched(what, x) \subseteq Facts
  BY DEF CacheTyped, Apply, Touched
<1>2. /\ version' \in [Facts -> Nat]
      /\ \A f \in Facts : version'[f] >= version[f]
      /\ \A f \in Touched(what, x) : version'[f] > 0
  BY <1>1
<1>3. \A f \in Facts : Known(f)' <=> Known(f) \/ f \in Touched(what, x)
  BY <1>1 DEF Known
<1>4. Valid(what, x)
  BY DEF Apply
<1>5. \A j \in Enquiries, kind \in {"card", "status", "lines", "stage"} :
        /\ <<kind, j>> \in Facts
        /\ <<kind, j>> \in Touched(what, x) <=>
             /\ kind \in Changes(what) /\ j = x
             /\ what = "upload" /\ kind = "stage" => Known(<<"lines", x>>)
  BY DEF Facts, Touched
<1>6. CASE what = "create"
  <2>1. x \in Enquiries /\ ~Known(<<"card", x>>) /\ ~Known(<<"status", x>>)
    BY <1>4, <1>6 DEF Valid, InOrder
  <2>2. \A f \in Touched(what, x) : f \in {<<"card", x>>, <<"status", x>>}
    BY <1>6 DEF Touched, Changes, Facts
  <2>3. \A f \in Touched(what, x) : version'[f] = 1
    BY <1>1, <2>1, <2>2 DEF Known
  <2>4. InOrder'
    BY <1>3, <1>5, <1>6 DEF InOrder, Changes
  <2> QED BY <1>2, <1>6, <2>3, <2>4
<1>7. CASE what = "lines"
  <2>1. /\ x \in Enquiries /\ Known(<<"card", x>>)
        /\ ~Known(<<"lines", x>>) /\ ~Known(<<"stage", x>>)
    BY <1>4, <1>7 DEF Valid, InOrder
  <2>2. \A f \in Touched(what, x) : f \in {<<"lines", x>>, <<"stage", x>>}
    BY <1>7 DEF Touched, Changes, Facts
  <2>3. \A f \in Touched(what, x) : version'[f] = 1
    BY <1>1, <2>1, <2>2 DEF Known
  <2>4. InOrder'
    BY <1>3, <1>5, <1>7, <2>1 DEF InOrder, Changes
  <2> QED BY <1>2, <1>3, <1>5, <1>7, <2>1, <2>3, <2>4
<1>8. CASE what = "client"
  <2>1. x \in Customers /\ ~Known(<<"client", x>>)
    BY <1>4, <1>8 DEF Valid
  <2>2. /\ \A f \in Touched(what, x) : f = <<"client", x>>
        /\ <<"client", x>> \in Touched(what, x)
    BY <1>8, <2>1 DEF Touched, Changes, Facts
  <2>3. \A f \in Touched(what, x) : version'[f] = 1
    BY <1>1, <2>1, <2>2 DEF Known
  <2>4. InOrder'
    BY <1>3, <1>5, <1>8 DEF InOrder, Changes
  <2> QED BY <1>1, <1>2, <1>3, <1>8, <2>1, <2>2, <2>3, <2>4
<1>9. CASE what \in {"transition", "upload"}
  <2>1. x \in Enquiries /\ Known(<<"card", x>>) /\ (what = "transition" => Known(<<"lines", x>>))
    BY <1>4, <1>9 DEF Valid, InOrder
  <2>2. InOrder'
    BY <1>3, <1>5, <1>9, <2>1 DEF InOrder, Changes
  <2> QED BY <1>2, <1>9, <2>2 DEF Makers
<1>10. CASE what \in {"note", "file", "contact"}
  <2>1. InOrder'
    BY <1>3, <1>5, <1>10 DEF InOrder, Changes
  <2> QED BY <1>2, <1>10, <2>1 DEF Makers
<1> QED BY <1>6, <1>7, <1>8, <1>9, <1>10 DEF Writes

---------------------------------------------------------------------------

\* The loads that go on are of views shown, and none gets ahead.
LEMMA LoadsGoOn ==
  ASSUME NEW base \in [Views -> Nat], NEW has, NEW doubted, NEW p,
         NEW loads, loads = Loads(base, has, doubted, p)
  PROVE  /\ loads \in [Views -> Nat]
         /\ \A v \in Views : loads[v] > 0 => v \in Mounted(p, has)
         /\ \A v \in Views : loads[v] > 1 => loads[v] = base[v]
  BY DEF Loads

\* After an invalidation, what a load has read is of one that is older, and
\* then either not hit or known to be.
LEMMA RefreshLoads ==
  ASSUME CacheTyped, LoadsShown,
         NEW hit, NEW has, NEW doubted, NEW p, Refresh(hit, has, doubted, p)
  PROVE  /\ loading' \in [Views -> Nat] /\ DOMAIN got' = Views
         /\ joined' \subseteq Views
         /\ \A v \in Views : loading'[v] > 0 => v \in Mounted(p, has)
         /\ \A v \in joined' : loading'[v] > 0
         /\ \A v \in Views :
              \/ got'[v] = Blank
              \/ /\ got'[v] = got[v] /\ loading[v] > 0
                 /\ v \in hit => v \in joined'
                 /\ v \in joined => v \in joined'
<1> DEFINE base == [v \in Views |-> IF v \in Begun(hit) THEN 1 ELSE loading[v]]
           loads == Loads(base, has, doubted, p)
<1>1. base \in [Views -> Nat]
  BY DEF CacheTyped
<1>2. /\ loading' = loads
      /\ got' = [v \in Views |-> IF loads[v] > 1 THEN got[v] ELSE Blank]
      /\ joined' = {v \in (joined \ Again(hit)) \cup Joins(hit) : loads[v] > 0}
  BY DEF Refresh, LoadsAre
<1>3. /\ loads \in [Views -> Nat]
      /\ \A v \in Views : loads[v] > 0 => v \in Mounted(p, has)
      /\ \A v \in Views : loads[v] > 1 => loads[v] = base[v]
  BY <1>1, LoadsGoOn
<1>4. joined \subseteq Views /\ Joins(hit) \subseteq Views
  BY DEF CacheTyped, Joins, Shown, Mounted
<1>5. ASSUME NEW v \in Views, got'[v] # Blank
      PROVE  /\ got'[v] = got[v] /\ loading[v] > 0
             /\ v \in hit => v \in joined'
             /\ v \in joined => v \in joined'
  <2>1. loads[v] > 1 /\ got'[v] = got[v]
    BY <1>2, <1>5
  <2>2. base[v] > 1 /\ v \notin Begun(hit) /\ loading[v] > 0
    BY <1>3, <2>1
  <2>3. v \in Shown
    BY <2>2 DEF LoadsShown
  <2>4. v \notin Again(hit)
    BY <2>2 DEF Begun
  <2>5. v \in hit => v \in Joins(hit)
    BY <2>2, <2>3, <2>4 DEF Again, Joins
  <2>6. loads[v] > 0
    BY <1>3, <2>1
  <2> HIDE DEF loads, base
  <2> QED BY <1>2, <2>1, <2>2, <2>4, <2>5, <2>6
<1> HIDE DEF loads, base
<1> QED BY <1>2, <1>3, <1>4, <1>5

---------------------------------------------------------------------------

LEMMA BlankIsAnswer ==
  ASSUME NEW v
  PROVE  IsAnswer(v, Blank) /\ UpToDate(v, Blank) /\ UpToDate(v, Blank)'
<1>1. DOMAIN Blank = {}
  BY DEF Blank
<1> QED BY <1>1 DEF IsAnswer, UpToDate

\* Loads that go on, or are begun again, read no less than they did.
LEMMA GotKept ==
  ASSUME CacheTyped, AnswersAre, LoadsUpToDate, heard' = heard,
         \A v \in Views :
           \/ got'[v] = Blank
           \/ got'[v] = got[v] /\ loading[v] > 0 /\ (v \in joined => v \in joined')
  PROVE  (\A v \in Views : IsAnswer(v, got'[v])) /\ LoadsUpToDate'
<1>1. ASSUME NEW v \in Views
      PROVE  /\ IsAnswer(v, got'[v])
             /\ v \notin joined' => UpToDate(v, got[v])'
  <2>1. CASE got'[v] = Blank
    BY <2>1, BlankIsAnswer DEF UpToDate
  <2>2. CASE got'[v] = got[v] /\ loading[v] > 0 /\ (v \in joined => v \in joined')
    BY <2>2 DEF AnswersAre, LoadsUpToDate, UpToDate
  <2> QED BY <2>1, <2>2
<1> QED BY <1>1 DEF LoadsUpToDate

\* Writes stay what they are while the server goes on.
LEMMA CallsKept ==
  ASSUME CacheTyped, version' \in [Facts -> Nat], \A f \in Facts : version'[f] >= version[f],
         NEW c, IsCall(c)
  PROVE  IsCall(c)'
<1>1. ASSUME c.stage = "done"
      PROVE  IsMade(c)'
  <2>1. IsMade(c)
    BY <1>1 DEF IsCall
  <2>2. \A f \in Facts : version[f] \in Nat /\ version'[f] \in Nat
    BY DEF CacheTyped
  <2>3. \A f \in Facts : Known(f) => Known(f)'
    BY <2>2 DEF Known
  <2>4. \A f \in DOMAIN c.made : c.made[f] \in Nat /\ f \in Facts /\ c.made[f] <= version'[f]
    BY <2>1, <2>2 DEF IsMade
  <2>5. /\ \A k \in Customers : <<"client", k>> \in Facts
        /\ \A j \in Enquiries : <<"card", j>> \in Facts
    BY DEF Facts
  <2> QED BY <2>1, <2>3, <2>4, <2>5 DEF IsMade
<1> QED BY <1>1 DEF IsCall

LEMMA ReachableKept ==
  ASSUME CacheTyped, version' \in [Facts -> Nat], \A f \in Facts : version'[f] >= version[f],
         NEW p \in Pages, Reachable(p)
  PROVE  Reachable(p)'
<1>1. \A f \in Facts : Known(f) => Known(f)'
  BY DEF Known, CacheTyped
<1>2. /\ p[1] \in {"new", "client"} /\ p[2] # Every => <<"client", p[2]>> \in Facts
      /\ p[1] = "job-card" => <<"card", p[2]>> \in Facts
      /\ p[1] = "job-line" => <<"lines", p[2]>> \in Facts
  BY DEF Pages, Facts
<1> QED BY <1>1, <1>2 DEF Reachable

LEMMA HeardKept ==
  ASSUME CacheTyped, HeardIsMade, heard' = heard,
         version' \in [Facts -> Nat], \A f \in Facts : version'[f] >= version[f]
  PROVE  HeardIsMade'
<1>1. \A what \in Writes, f \in Facts :
        heard[what][f] \in Nat /\ version[f] \in Nat /\ version'[f] \in Nat
  BY DEF CacheTyped
<1> QED BY <1>1 DEF HeardIsMade

---------------------------------------------------------------------------
\* One lemma per action.

LEMMA VisitStep ==
  ASSUME CacheAssumption, PagesInv, NEW p \in Pages, Visit(p)
  PROVE  PagesInv'
<1> USE DEF PagesInv
<1> DEFINE loads == Loads(loading, held, suspect, p)
<1>1. /\ loading' = loads /\ joined' = Still(loads)
      /\ got' = [v \in Views |-> IF loads[v] > 1 THEN got[v] ELSE Blank]
      /\ here' = p /\ Reachable(p)
      /\ UNCHANGED <<version, held, data, suspect, late, calls, heard>>
  BY DEF Visit, LoadsAre
<1>2. /\ loads \in [Views -> Nat]
      /\ \A v \in Views : loads[v] > 0 => v \in Mounted(p, held)
      /\ \A v \in Views : loads[v] > 1 => loads[v] = loading[v]
  BY LoadsGoOn DEF CacheTyped
<1> HIDE DEF loads
<1>3. CacheTyped'
  BY <1>1, <1>2 DEF CacheTyped, Still
<1>4. \A v \in Views :
        \/ got'[v] = Blank
        \/ got'[v] = got[v] /\ loading[v] > 0 /\ (v \in joined => v \in joined')
  BY <1>1, <1>2 DEF Still
<1>5. AnswersAre' /\ LoadsUpToDate'
  BY <1>1, <1>4, GotKept DEF AnswersAre
<1>6. LoadsShown'
  BY <1>1, <1>2 DEF LoadsShown, Shown, Still, Reachable, Known
<1>7. InOrder' /\ CallsAre' /\ HeardIsMade' /\ EntriesUpToDate'
  BY <1>1 DEF InOrder, Known, CallsAre, IsCall, IsMade, HeardIsMade, EntriesUpToDate, UpToDate
<1> QED BY <1>3, <1>5, <1>6, <1>7

\* A page mounts no less when more is there.
LEMMA MountsMore ==
  ASSUME NEW p \in Pages, NEW has, NEW more, has \subseteq more
  PROVE  Mounted(p, has) \subseteq Mounted(p, more)
<1>1. p[1] \in {"dashboard", "board", "job-cards", "clients", "new", "client", "job-card",
                "job-line"}
  BY DEF Pages
<1>2. CASE p[1] \in {"dashboard", "board", "job-cards", "clients", "new"}
  BY <1>2 DEF Mounted
<1>3. CASE p[1] = "client"
  BY <1>3 DEF Mounted
<1>4. CASE p[1] = "job-card"
  BY <1>4 DEF Mounted
<1>5. CASE p[1] = "job-line"
  BY <1>5 DEF Mounted
<1> QED BY <1>1, <1>2, <1>3, <1>4, <1>5

LEMMA BeginLoadStep ==
  ASSUME CacheAssumption, PagesInv, NEW v \in Views, BeginLoad(v)
  PROVE  PagesInv'
<1> USE DEF PagesInv
<1>1. /\ v \in Shown /\ loading[v] = 0
      /\ loading' = [loading EXCEPT ![v] = 1]
      /\ got' = [w \in Views |-> IF loading'[w] > 1 THEN got[w] ELSE Blank]
      /\ UNCHANGED <<version, held, data, suspect, late, joined, here, calls, heard>>
  BY DEF BeginLoad, LoadsAre
<1>3. CacheTyped'
  BY <1>1 DEF CacheTyped
<1>4. \A w \in Views :
        \/ got'[w] = Blank
        \/ got'[w] = got[w] /\ loading[w] > 0 /\ (w \in joined => w \in joined')
  BY <1>1 DEF CacheTyped
<1>5. AnswersAre' /\ LoadsUpToDate'
  BY <1>1, <1>4, GotKept DEF AnswersAre
<1>6. LoadsShown'
  BY <1>1 DEF LoadsShown, Shown, Reachable, Known, CacheTyped
<1>7. InOrder' /\ CallsAre' /\ HeardIsMade' /\ EntriesUpToDate'
  BY <1>1 DEF InOrder, Known, CallsAre, IsCall, IsMade, HeardIsMade, EntriesUpToDate, UpToDate
<1> QED BY <1>3, <1>5, <1>6, <1>7

LEMMA LoadFailsStep ==
  ASSUME CacheAssumption, PagesInv, NEW v \in Views, LoadFails(v)
  PROVE  PagesInv'
<1> USE DEF PagesInv
<1>1. PICK next \in {0, 1} :
        /\ loading[v] > 0
        /\ loading' = [loading EXCEPT ![v] = next]
        /\ got' = [w \in Views |-> IF loading'[w] > 1 THEN got[w] ELSE Blank]
        /\ joined' = joined \ {v}
        /\ UNCHANGED <<version, held, data, suspect, late, here, calls, heard>>
  BY DEF LoadFails, LoadsAre
<1>2. loading' \in [Views -> Nat] /\ \A w \in Views : w # v => loading'[w] = loading[w]
  BY <1>1 DEF CacheTyped
<1>3. CacheTyped'
  BY <1>1, <1>2 DEF CacheTyped
<1>4. \A w \in Views :
        \/ got'[w] = Blank
        \/ got'[w] = got[w] /\ loading[w] > 0 /\ (w \in joined => w \in joined')
  BY <1>1, <1>2 DEF CacheTyped
<1>5. AnswersAre' /\ LoadsUpToDate'
  BY <1>1, <1>4, GotKept DEF AnswersAre
<1>6. LoadsShown'
  BY <1>1, <1>2 DEF LoadsShown, Shown, Reachable, Known, CacheTyped
<1>7. InOrder' /\ CallsAre' /\ HeardIsMade' /\ EntriesUpToDate'
  BY <1>1 DEF InOrder, Known, CallsAre, IsCall, IsMade, HeardIsMade, EntriesUpToDate, UpToDate
<1> QED BY <1>3, <1>5, <1>6, <1>7

LEMMA ReadNextStep ==
  ASSUME CacheAssumption, PagesInv, NEW v \in Views, ReadNext(v)
  PROVE  PagesInv'
<1> USE DEF PagesInv
<1> DEFINE read == FactsOf(v, loading[v])
           answer == [f \in DOMAIN got[v] \cup read |->
                        IF f \in DOMAIN got[v] THEN got[v][f] ELSE version[f]]
<1>1. /\ loading[v] \in DOMAIN Statements(v)
      /\ got' = [got EXCEPT ![v] = answer]
      /\ loading' = [loading EXCEPT ![v] = @ + 1]
      /\ UNCHANGED <<version, held, data, suspect, late, joined, here, calls, heard>>
  BY DEF ReadNext
<1>2. loading[v] > 0 /\ loading[v] \in Nat
  <2>1. \A n \in DOMAIN Statements(v) : n > 0
    BY NameIsAName DEF Statements, Reads, dashboard, board, clients, client_detail, job_cards,
         job_card_detail, job_card_notes, job_card_attachments, job_card_quotations,
         job_line_detail
  <2> QED BY <1>1, <2>1 DEF CacheTyped
<1>3. CacheTyped'
  BY <1>1, <1>2 DEF CacheTyped
<1>4. read \subseteq Seen(v) /\ v \in Shown
  BY <1>1, <1>2, FactsSeen DEF LoadsShown
<1>5. \A f \in read : version[f] \in Nat /\ (Born(v, f) => version[f] > 0)
  BY <1>4, ShownExists DEF Seen, CacheTyped
<1>6. IsAnswer(v, got[v]) /\ DOMAIN answer = DOMAIN got[v] \cup read
  BY DEF AnswersAre
<1>7. IsAnswer(v, answer)
  BY <1>4, <1>5, <1>6 DEF IsAnswer
<1>8. v \notin joined => UpToDate(v, answer)
  <2>1. SUFFICES ASSUME v \notin joined, NEW what \in Writes, <<what, v[1]>> \notin Unmentioned,
                        NEW f \in DOMAIN answer
                 PROVE  answer[f] >= heard[what][f]
    BY DEF UpToDate
  <2>2. CASE f \in DOMAIN got[v]
    BY <1>2, <2>1, <2>2 DEF LoadsUpToDate, UpToDate
  <2>3. CASE f \notin DOMAIN got[v]
    <3>1. f \in Facts /\ answer[f] = version[f]
      BY <1>4, <1>6, <2>3 DEF Seen
    <3>2. heard[what][f] <= version[f] /\ heard[what][f] \in Nat /\ version[f] \in Nat
      BY <3>1 DEF HeardIsMade, CacheTyped
    <3> QED BY <3>1, <3>2
  <2> QED BY <2>2, <2>3
<1> HIDE DEF answer, read
<1>9. got'[v] = answer /\ \A w \in Views : w # v => got'[w] = got[w] /\ loading'[w] = loading[w]
  BY <1>1 DEF CacheTyped
<1>10. AnswersAre'
  BY <1>1, <1>7, <1>9 DEF AnswersAre
<1>11. LoadsUpToDate'
  BY <1>1, <1>8, <1>9 DEF LoadsUpToDate, UpToDate
<1>12. LoadsShown'
  BY <1>1, <1>2, <1>4, <1>9 DEF LoadsShown, Shown, Reachable, Known, CacheTyped
<1>13. InOrder' /\ CallsAre' /\ HeardIsMade' /\ EntriesUpToDate'
  BY <1>1 DEF InOrder, Known, CallsAre, IsCall, IsMade, HeardIsMade, EntriesUpToDate, UpToDate
<1> QED BY <1>3, <1>10, <1>11, <1>12, <1>13

LEMMA ArriveStep ==
  ASSUME CacheAssumption, PagesInv, NEW v \in Views, Arrive(v)
  PROVE  PagesInv'
<1> USE DEF PagesInv
<1> DEFINE base == [loading EXCEPT ![v] = 0]
           loads == Loads(base, held', suspect', here)
<1>1. /\ loading' = loads /\ joined' = joined \ {v}
      /\ got' = [w \in Views |-> IF loads[w] > 1 THEN got[w] ELSE Blank]
      /\ held' = held \cup {v} /\ suspect' = suspect \ {v}
      /\ late' = IF v \in joined THEN late \cup {v} ELSE late \ {v}
      /\ data' = [data EXCEPT ![v] = got[v]]
      /\ UNCHANGED <<version, here, calls, heard>>
  BY DEF Arrive, LoadsAre
<1>a. loading[v] > 0
  <2>1. Len(Statements(v)) \in Nat
    BY NameIsAName DEF Statements, Reads, dashboard, board, clients, client_detail, job_cards,
         job_card_detail, job_card_notes, job_card_attachments, job_card_quotations,
         job_line_detail
  <2> QED BY <2>1 DEF Arrive
<1>2. /\ base \in [Views -> Nat]
      /\ loads \in [Views -> Nat]
      /\ \A w \in Views : loads[w] > 0 => w \in Mounted(here, held')
      /\ \A w \in Views : loads[w] > 1 => loads[w] = base[w]
  <2>1. base \in [Views -> Nat]
    BY DEF CacheTyped
  <2> HIDE DEF base
  <2> QED BY <2>1, LoadsGoOn
<1>b. \A w \in Views : loads[w] > 1 => w # v /\ loading[w] > 0
  <2>1. base[v] = 0 /\ \A w \in Views : w # v => base[w] = loading[w]
    BY DEF CacheTyped
  <2> HIDE DEF base, loads
  <2> QED BY <1>2, <2>1
<1>c. \A w \in joined : w # v => loads[w] > 0
  <2>1. SUFFICES ASSUME NEW w \in joined, w # v
                 PROVE  loads[w] > 0
    OBVIOUS
  <2>2. w \in Views /\ base[w] > 0 /\ w \in Mounted(here, held)
    BY <2>1 DEF CacheTyped, LoadsShown, Shown
  <2>3. w \in Mounted(here, held')
    BY <1>1, <2>2, MountsMore DEF CacheTyped
  <2> HIDE DEF base
  <2> QED BY <2>2, <2>3 DEF Loads
<1> HIDE DEF loads, base
<1>3. CacheTyped'
  BY <1>1, <1>2 DEF CacheTyped
<1>4. \A w \in Views :
        \/ got'[w] = Blank
        \/ got'[w] = got[w] /\ loading[w] > 0 /\ (w \in joined => w \in joined')
  BY <1>1, <1>b
<1>5. (\A w \in Views : IsAnswer(w, got'[w])) /\ LoadsUpToDate'
  BY <1>1, <1>4, GotKept
<1>6. data'[v] = got[v] /\ \A w \in Views : w # v => data'[w] = data[w]
  BY <1>1 DEF CacheTyped
<1>7. AnswersAre'
  BY <1>5, <1>6 DEF AnswersAre
<1>8. EntriesUpToDate'
  <2>1. SUFFICES ASSUME NEW w \in held', w \notin suspect', w \notin late'
                 PROVE  UpToDate(w, data[w])'
    BY DEF EntriesUpToDate
  <2>2. CASE w = v
    <3>1. v \notin joined
      BY <1>1, <2>1, <2>2
    <3>2. UpToDate(v, got[v])
      BY <1>a, <3>1 DEF LoadsUpToDate
    <3> QED BY <1>1, <1>6, <2>2, <3>2 DEF UpToDate
  <2>3. CASE w # v
    <3>1. w \in held \ (suspect \cup late) /\ w \in Views
      BY <1>1, <2>1, <2>3 DEF CacheTyped
    <3> QED BY <1>1, <1>6, <2>3, <3>1 DEF EntriesUpToDate, UpToDate
  <2> QED BY <2>2, <2>3
<1>9. LoadsShown'
  BY <1>1, <1>2, <1>c DEF LoadsShown, Shown, Reachable, Known
<1>10. InOrder' /\ CallsAre' /\ HeardIsMade'
  BY <1>1 DEF InOrder, Known, CallsAre, IsCall, IsMade, HeardIsMade
<1> QED BY <1>3, <1>5, <1>7, <1>8, <1>9, <1>10

LEMMA ForgetStep ==
  ASSUME CacheAssumption, PagesInv, NEW v \in Views, Forget(v)
  PROVE  PagesInv'
<1> USE DEF PagesInv
<1>1. /\ v \in held \ Shown
      /\ held' = held \ {v} /\ suspect' = suspect \ {v} /\ late' = late \ {v}
      /\ data' = [data EXCEPT ![v] = Blank]
      /\ UNCHANGED <<version, loading, got, joined, here, calls, heard>>
  BY DEF Forget
<1>2. Shown' = Shown
  <2>1. here[1] \in {"dashboard", "board", "job-cards", "clients", "new", "client", "job-card",
                     "job-line"}
    BY DEF CacheTyped, Pages
  <2>2. CASE here[1] \in {"dashboard", "board", "job-cards", "clients", "new"}
    BY <1>1, <2>2 DEF Shown, Mounted
  <2>3. CASE here[1] = "client"
    <3>1. v # <<"client", here[2], Every>>
      BY <1>1, <2>3 DEF Shown, Mounted
    <3> QED BY <1>1, <2>3, <3>1 DEF Shown, Mounted
  <2>4. CASE here[1] = "job-card"
    <3>1. v # <<"job-card", here[2], Every>>
      BY <1>1, <2>4 DEF Shown, Mounted
    <3> QED BY <1>1, <2>4, <3>1 DEF Shown, Mounted
  <2>5. CASE here[1] = "job-line"
    BY <1>1, <2>5 DEF Shown, Mounted
  <2> QED BY <2>1, <2>2, <2>3, <2>4, <2>5
<1>3. CacheTyped'
  BY <1>1 DEF CacheTyped
<1>4. data'[v] = Blank /\ \A w \in Views : w # v => data'[w] = data[w]
  BY <1>1 DEF CacheTyped
<1>5. AnswersAre'
  BY <1>1, <1>4, BlankIsAnswer DEF AnswersAre
<1>6. EntriesUpToDate'
  BY <1>1, <1>4 DEF EntriesUpToDate, UpToDate, CacheTyped
<1>7. LoadsUpToDate'
  BY <1>1 DEF LoadsUpToDate, UpToDate
<1>8. LoadsShown'
  BY <1>1, <1>2 DEF LoadsShown, Reachable, Known
<1>9. InOrder' /\ CallsAre' /\ HeardIsMade'
  BY <1>1 DEF InOrder, Known, CallsAre, IsCall, IsMade, HeardIsMade
<1> QED BY <1>3, <1>5, <1>6, <1>7, <1>8, <1>9

\* A write, or a refusal, on the server, of which the tab knows nothing yet.
LEMMA ServerStep ==
  ASSUME CacheAssumption, PagesInv, version' \in [Facts -> Nat],
         \A f \in Facts : version'[f] >= version[f], InOrder', CallsAre', DOMAIN calls' = Slots,
         UNCHANGED <<held, data, suspect, late, loading, got, joined, here, heard>>
  PROVE  PagesInv'
<1> USE DEF PagesInv
<1>1. CacheTyped'
  BY DEF CacheTyped
<1>2. HeardIsMade'
  BY HeardKept
<1>3. LoadsShown'
  BY ReachableKept DEF LoadsShown, Shown, CacheTyped
<1>4. AnswersAre' /\ EntriesUpToDate' /\ LoadsUpToDate'
  BY DEF AnswersAre, EntriesUpToDate, LoadsUpToDate, UpToDate
<1> QED BY <1>1, <1>2, <1>3, <1>4

LEMMA ColleagueStep ==
  ASSUME CacheAssumption, PagesInv, NEW what \in Writes, NEW x, Colleague(what, x)
  PROVE  PagesInv'
<1> USE DEF PagesInv
<1>1. /\ Apply(what, x)
      /\ UNCHANGED <<held, data, suspect, late, loading, got, joined, here, calls, heard>>
  BY DEF Colleague
<1>2. /\ version' \in [Facts -> Nat] /\ (\A f \in Facts : version'[f] >= version[f])
      /\ InOrder'
  BY <1>1, ApplyKeeps
<1>3. CallsAre'
  BY <1>1, <1>2, CallsKept DEF CallsAre
<1> QED BY <1>1, <1>2, <1>3, ServerStep DEF CacheTyped

LEMMA SendStep ==
  ASSUME CacheAssumption, PagesInv, NEW s \in Slots, NEW what \in Writes, NEW x, Send(s, what, x)
  PROVE  PagesInv'
<1> USE DEF PagesInv
<1> DEFINE c == [what |-> what, about |-> x, stage |-> "sent", made |-> Blank]
<1>1. /\ calls' = [calls EXCEPT ![s] = c]
      /\ UNCHANGED <<version, held, data, suspect, late, loading, got, joined, here, heard>>
  BY DEF Send
<1>2. IsCall(c)'
  BY DEF IsCall
<1> HIDE DEF c
<1>3. CallsAre'
  BY <1>1, <1>2 DEF CallsAre, CacheTyped, IsCall, IsMade, Known
<1>4. /\ version' \in [Facts -> Nat] /\ (\A f \in Facts : version'[f] >= version[f])
      /\ InOrder'
  BY <1>1 DEF CacheTyped, InOrder, Known
<1> QED BY <1>1, <1>3, <1>4, ServerStep DEF CacheTyped

\* One write becomes another that is as it should be.
LEMMA CallChanged ==
  ASSUME CacheAssumption, CacheTyped, CallsAre, NEW s \in Slots, NEW c,
         calls' = [calls EXCEPT ![s] = c], IsCall(c)',
         version' \in [Facts -> Nat], \A f \in Facts : version'[f] >= version[f]
  PROVE  CallsAre' /\ DOMAIN calls' = Slots
<1>1. DOMAIN calls = Slots
  BY DEF CacheTyped
<1>2. \A t \in Slots : t # s => IsCall(calls[t])'
  <2>1. TAKE t \in Slots
  <2>2. HAVE t # s
  <2>3. PICK d : d = calls[t] /\ IsCall(d) /\ calls'[t] = d
    BY <1>1, <2>2 DEF CallsAre
  <2>4. IsCall(d)'
    BY <2>3, CallsKept
  <2> QED BY <2>3, <2>4 DEF IsCall, IsMade, Known
<1>3. calls'[s] = c
  BY <1>1
<1> QED BY <1>1, <1>2, <1>3 DEF CallsAre, IsCall, IsMade, Known

LEMMA ServeWriteStep ==
  ASSUME CacheAssumption, PagesInv, NEW s \in Slots, ServeWrite(s)
  PROVE  PagesInv'
<1> USE DEF PagesInv
<1>1. PICK c : /\ c = calls[s] /\ c.stage = "sent" /\ Apply(c.what, c.about)
               /\ calls' = [calls EXCEPT ![s] =
                    [what |-> c.what, about |-> c.about, stage |-> "done",
                     made |-> [f \in Touched(c.what, c.about) |-> version'[f]]]]
               /\ UNCHANGED <<held, data, suspect, late, loading, got, joined, here, heard>>
  BY DEF ServeWrite
<1>a. PICK made : made = [f \in Touched(c.what, c.about) |-> version'[f]]
  OBVIOUS
<1>b. PICK next : next = [what |-> c.what, about |-> c.about, stage |-> "done", made |-> made]
  OBVIOUS
<1>2. c.what \in Writes
  BY <1>1 DEF CallsAre, IsCall
<1>3. /\ version' \in [Facts -> Nat] /\ (\A f \in Facts : version'[f] >= version[f])
      /\ InOrder'
      /\ \A f \in Touched(c.what, c.about) :
           version'[f] > 0 /\ (c.what \in Makers => version'[f] = 1)
      /\ c.what = "client" => c.about \in Customers /\ Known(<<"client", c.about>>)'
      /\ c.what = "lines" => c.about \in Enquiries /\ Known(<<"card", c.about>>)'
  BY <1>1, <1>2, ApplyKeeps
<1>4. IsMade(next)'
  <2>1. next.what = c.what /\ next.about = c.about /\ next.made = made
    BY <1>b
  <2>2. DOMAIN made = Touched(c.what, c.about) /\ \A f \in DOMAIN made : made[f] = version'[f]
    BY <1>a
  <2>3. Touched(c.what, c.about) \subseteq
             {f \in Facts : f[1] \in Changes(c.what) /\ f[2] = c.about}
    BY DEF Touched
  <2>4. \A f \in DOMAIN made :
          /\ made[f] \in Nat /\ 0 < made[f] /\ made[f] <= version'[f]
          /\ c.what \in Makers => made[f] = 1
    BY <1>3, <2>2, <2>3
  <2>5. DOMAIN made \subseteq {f \in Facts : f[1] \in Changes(c.what) /\ f[2] = c.about}
    BY <2>2, <2>3
  <2> QED BY <1>3, <2>1, <2>4, <2>5 DEF IsMade, Known
<1>5. IsCall(next)'
  <2>1. next.what = c.what
    BY <1>b
  <2> QED BY <1>2, <1>4, <2>1 DEF IsCall
<1>6. calls' = [calls EXCEPT ![s] = next]
  BY <1>1, <1>a, <1>b
<1>7. CallsAre' /\ DOMAIN calls' = Slots
  BY <1>3, <1>5, <1>6, CallChanged
<1> QED BY <1>1, <1>3, <1>7, ServerStep

LEMMA WriteFailsStep ==
  ASSUME CacheAssumption, PagesInv, NEW s \in Slots, WriteFails(s)
  PROVE  PagesInv'
<1> USE DEF PagesInv
<1>1. PICK c : /\ c = calls[s] /\ c.stage \in {"sent", "done"}
               /\ calls' = [calls EXCEPT ![s] =
                    [what |-> c.what, about |-> c.about, stage |-> "failed", made |-> Blank]]
               /\ UNCHANGED <<version, held, data, suspect, late, loading, got, joined, here,
                              heard>>
  BY DEF WriteFails
<1>a. PICK next : next = [what |-> c.what, about |-> c.about, stage |-> "failed", made |-> Blank]
  OBVIOUS
<1>2. c.what \in Writes
  BY <1>1 DEF CallsAre, IsCall
<1>3. IsCall(next)'
  BY <1>2, <1>a DEF IsCall
<1>4. /\ version' \in [Facts -> Nat] /\ (\A f \in Facts : version'[f] >= version[f])
      /\ InOrder'
  BY <1>1 DEF CacheTyped, InOrder, Known
<1>5. calls' = [calls EXCEPT ![s] = next]
  BY <1>1, <1>a
<1>6. CallsAre' /\ DOMAIN calls' = Slots
  BY <1>3, <1>4, <1>5, CallChanged
<1> QED BY <1>1, <1>4, <1>6, ServerStep

---------------------------------------------------------------------------
\* The hooks.

LEMMA Remembered ==
  ASSUME CacheTyped, HeardIsMade, NEW c, c.what \in Writes, IsMade(c), Remember(c),
         version' = version
  PROVE  /\ heard' \in [Writes -> [Facts -> Nat]]
         /\ \A what \in Writes, f \in Facts :
              \/ heard'[what][f] = heard[what][f]
              \/ what = c.what /\ f \in DOMAIN c.made /\ heard'[what][f] = c.made[f]
         /\ HeardIsMade'
<1>1. heard \in [Writes -> [Facts -> Nat]]
  BY DEF CacheTyped
<1>2. \A f \in DOMAIN c.made :
        /\ c.made[f] \in Nat /\ c.made[f] <= version[f] /\ f[1] \in Changes(c.what)
        /\ c.what \in Makers => c.made[f] = 1
  BY DEF IsMade
<1>3. \A what \in Writes : what # c.what => heard'[what] = heard[what]
  BY <1>1 DEF Remember
<1>4. heard'[c.what] = [f \in Facts |->
        IF f \in DOMAIN c.made /\ c.made[f] > heard[c.what][f]
          THEN c.made[f] ELSE heard[c.what][f]]
  BY <1>1 DEF Remember
<1>5. heard'[c.what] \in [Facts -> Nat]
  BY <1>1, <1>2, <1>4
<1>6. heard' \in [Writes -> [Facts -> Nat]]
  BY <1>1, <1>5 DEF Remember
<1>7. \A what \in Writes, f \in Facts :
        \/ heard'[what][f] = heard[what][f]
        \/ what = c.what /\ f \in DOMAIN c.made /\ heard'[what][f] = c.made[f]
  BY <1>3, <1>4
<1>8. HeardIsMade'
  BY <1>2, <1>7 DEF HeardIsMade
<1> QED BY <1>6, <1>7, <1>8

\* What no key of the hook names has nothing to learn from it.
LEMMA StillUpToDate ==
  ASSUME CacheAssumption, CacheTyped, HeardIsMade,
         NEW c, c.what \in Writes, IsMade(c), Remember(c), version' = version,
         NEW v \in Views, v \notin Hit(Invalidates(c.what, c.about)),
         NEW answer, IsAnswer(v, answer), UpToDate(v, answer)
  PROVE  UpToDate(v, answer)'
<1>1. SUFFICES ASSUME NEW what \in Writes, <<what, v[1]>> \notin Unmentioned,
                      NEW f \in DOMAIN answer
               PROVE  answer[f] >= heard'[what][f]
  BY DEF UpToDate
<1>2. f \in Seen(v) /\ f \in Facts /\ answer[f] \in Nat /\ (Born(v, f) => answer[f] > 0)
  BY DEF IsAnswer, Seen
<1>3. answer[f] >= heard[what][f]
  BY <1>1 DEF UpToDate
<1>4. CASE heard'[what][f] = heard[what][f]
  BY <1>3, <1>4
<1>5. CASE what = c.what /\ f \in DOMAIN c.made /\ heard'[what][f] = c.made[f]
  <2>1. f[1] \in Changes(what) /\ f[2] = c.about /\ (what \in Makers => c.made[f] = 1)
    BY <1>5 DEF IsMade
  <2>2. what \in Makers /\ Born(v, f)
    BY <1>1, <1>2, <1>5, <2>1, Mentioned
  <2> QED BY <1>2, <1>5, <2>1, <2>2
<1>6. \A w \in Writes, g \in Facts :
        \/ heard'[w][g] = heard[w][g]
        \/ w = c.what /\ g \in DOMAIN c.made /\ heard'[w][g] = c.made[g]
  BY Remembered
<1> QED BY <1>1, <1>2, <1>4, <1>5, <1>6

\* What of the invariant speaks of loads, when a write is heard.
LEMMA LoadsAfterHearing ==
  ASSUME CacheAssumption, PagesInv, NEW c, c.what \in Writes, IsMade(c), Remember(c),
         version' = version, NEW has, NEW doubted, NEW p,
         Refresh(Hit(Invalidates(c.what, c.about)), has, doubted, p)
  PROVE  (\A v \in Views : IsAnswer(v, got'[v])) /\ LoadsUpToDate'
<1> USE DEF PagesInv
<1>1. \A v \in Views :
        \/ got'[v] = Blank
        \/ /\ got'[v] = got[v] /\ loading[v] > 0
           /\ v \in Hit(Invalidates(c.what, c.about)) => v \in joined'
           /\ v \in joined => v \in joined'
  BY RefreshLoads
<1>2. ASSUME NEW v \in Views
      PROVE  IsAnswer(v, got'[v]) /\ (v \notin joined' => UpToDate(v, got[v])')
  <2>1. CASE got'[v] = Blank
    BY <2>1, BlankIsAnswer DEF UpToDate
  <2>2. CASE got'[v] # Blank
    <3>1. PICK answer : answer = got[v]
      OBVIOUS
    <3>2. IsAnswer(v, answer) /\ got'[v] = answer
      BY <1>1, <2>2, <3>1 DEF AnswersAre
    <3>3. v \notin joined' => UpToDate(v, answer)'
      <4>1. SUFFICES ASSUME v \notin joined'
                     PROVE  UpToDate(v, answer)'
        OBVIOUS
      <4>2. v \notin joined /\ loading[v] > 0 /\ v \notin Hit(Invalidates(c.what, c.about))
        BY <1>1, <2>2, <4>1
      <4>3. UpToDate(v, answer)
        BY <3>1, <4>2 DEF LoadsUpToDate
      <4> QED BY <3>2, <4>2, <4>3, StillUpToDate
    <3> QED BY <3>2, <3>3 DEF UpToDate
  <2> QED BY <2>1, <2>2
<1> QED BY <1>2 DEF LoadsUpToDate

LEMMA HearStep ==
  ASSUME CacheAssumption, PagesInv, NEW s \in Slots, Hear(s)
  PROVE  PagesInv'
<1> USE DEF PagesInv
<1>1. PICK c, next, p :
        /\ c = calls[s] /\ c.stage = "done"
        /\ Remember(c)
        /\ p = IF c.what = "lines" THEN <<"job-card", c.about>> ELSE here
        /\ Invalidate(Invalidates(c.what, c.about), p)
        /\ next = IF c.what = "create"
                  THEN [what |-> "lines", about |-> c.about, stage |-> "sent", made |-> Blank]
                  ELSE Free
        /\ calls' = [calls EXCEPT ![s] = next]
        /\ version' = version
  BY DEF Hear
<1> DEFINE hit == Hit(Invalidates(c.what, c.about))
<1>2. /\ Refresh(hit, held, suspect \cup (hit \cap held), p)
      /\ here' = p /\ suspect' = suspect \cup (hit \cap held)
      /\ UNCHANGED <<held, data, late>>
  BY <1>1 DEF Invalidate, Refresh
<1>3. c.what \in Writes /\ IsMade(c)
  BY <1>1 DEF CallsAre, IsCall
<1>4. p \in Pages /\ Reachable(p)
  <2>1. CASE c.what = "lines"
    BY <1>1, <1>3, <2>1 DEF IsMade, Pages, Reachable
  <2>2. CASE c.what # "lines"
    BY <1>1, <2>2 DEF CacheTyped, LoadsShown
  <2> QED BY <2>1, <2>2
<1>5. /\ loading' \in [Views -> Nat] /\ DOMAIN got' = Views
      /\ joined' \subseteq Views
      /\ \A v \in Views : loading'[v] > 0 => v \in Mounted(p, held)
      /\ \A v \in joined' : loading'[v] > 0
  BY <1>2, RefreshLoads
<1>6. (\A v \in Views : IsAnswer(v, got'[v])) /\ LoadsUpToDate'
  BY <1>1, <1>2, <1>3, LoadsAfterHearing
<1>7. heard' \in [Writes -> [Facts -> Nat]] /\ HeardIsMade'
  BY <1>1, <1>3, Remembered
<1>8. CallsAre' /\ DOMAIN calls' = Slots
  <2>1. IsCall(next)'
    <3>1. next.stage \in {"sent", "free"} /\ (next.stage # "free" => next.what = "lines")
      BY <1>1 DEF Free
    <3> QED BY <3>1 DEF IsCall, Writes
  <2>2. version' \in [Facts -> Nat] /\ \A f \in Facts : version'[f] >= version[f]
    BY <1>1 DEF CacheTyped
  <2> QED BY <1>1, <2>1, <2>2, CallChanged
<1>9. EntriesUpToDate'
  <2>1. SUFFICES ASSUME NEW v \in held, v \notin suspect, v \notin hit, v \notin late
                 PROVE  UpToDate(v, data[v])'
    BY <1>2 DEF EntriesUpToDate
  <2>2. PICK answer : answer = data[v]
    OBVIOUS
  <2>3. v \in Views /\ IsAnswer(v, answer) /\ UpToDate(v, answer)
    BY <2>1, <2>2 DEF CacheTyped, AnswersAre, EntriesUpToDate
  <2>4. UpToDate(v, answer)'
    BY <1>1, <1>3, <2>1, <2>3, StillUpToDate
  <2> QED BY <1>2, <2>2, <2>4 DEF UpToDate
<1> HIDE DEF hit
<1>10. CacheTyped'
  BY <1>1, <1>2, <1>4, <1>5, <1>7, <1>8 DEF CacheTyped
<1>11. LoadsShown'
  BY <1>1, <1>2, <1>4, <1>5 DEF LoadsShown, Shown, Reachable, Known
<1>12. InOrder' /\ AnswersAre'
  BY <1>1, <1>2, <1>6 DEF InOrder, Known, AnswersAre
<1> QED BY <1>6, <1>7, <1>8, <1>9, <1>10, <1>11, <1>12

LEMMA HearClientStep ==
  ASSUME CacheAssumption, PagesInv, NEW s \in Slots, HearClient(s)
  PROVE  PagesInv'
<1> USE DEF PagesInv
<1>1. PICK c, v, p :
        /\ c = calls[s] /\ v = <<"client", c.about, Every>>
        /\ c.stage = "done" /\ c.what = "client"
        /\ Remember(c)
        /\ held' = held \cup {v} /\ late' = late \ {v}
        /\ data' = [data EXCEPT ![v] = c.made]
        /\ p = here \/ p = <<"new", c.about>>
        /\ LET hit == Hit(Invalidates(c.what, c.about))
           IN Refresh(hit, held', (suspect \ {v}) \cup (hit \cap held), p)
        /\ calls' = [calls EXCEPT ![s] = Free]
        /\ version' = version
  BY DEF HearClient
<1> DEFINE hit == Hit(Invalidates(c.what, c.about))
<1>2. /\ Refresh(hit, held', (suspect \ {v}) \cup (hit \cap held), p)
      /\ here' = p /\ suspect' = (suspect \ {v}) \cup (hit \cap held)
  BY <1>1 DEF Refresh
<1>3. /\ c.what \in Writes /\ IsMade(c)
      /\ c.about \in Customers /\ Known(<<"client", c.about>>)
  BY <1>1 DEF CallsAre, IsCall, IsMade
<1>4. p \in Pages /\ Reachable(p)
  <2>1. CASE p = <<"new", c.about>>
    BY <1>3, <2>1 DEF Pages, Reachable
  <2>2. CASE p = here
    BY <2>2 DEF CacheTyped, LoadsShown
  <2> QED BY <1>1, <2>1, <2>2
<1>5. /\ loading' \in [Views -> Nat] /\ DOMAIN got' = Views
      /\ joined' \subseteq Views
      /\ \A w \in Views : loading'[w] > 0 => w \in Mounted(p, held')
      /\ \A w \in joined' : loading'[w] > 0
  BY <1>2, RefreshLoads
<1>6. (\A w \in Views : IsAnswer(w, got'[w])) /\ LoadsUpToDate'
  BY <1>1, <1>2, <1>3, LoadsAfterHearing
<1>7. heard' \in [Writes -> [Facts -> Nat]] /\ HeardIsMade'
  BY <1>1, <1>3, Remembered
<1>8. CallsAre' /\ DOMAIN calls' = Slots
  <2>1. IsCall(Free)'
    BY DEF IsCall, Free
  <2>2. version' \in [Facts -> Nat] /\ \A f \in Facts : version'[f] >= version[f]
    BY <1>1 DEF CacheTyped
  <2>3. PICK next : next = Free
    OBVIOUS
  <2> QED BY <1>1, <2>1, <2>2, <2>3, CallChanged
<1>9. v \in Views /\ data'[v] = c.made /\ \A w \in Views : w # v => data'[w] = data[w]
  BY <1>1, <1>3 DEF CacheTyped, Views
<1>10. \A f \in DOMAIN c.made : f = <<"client", c.about>> /\ f \in Facts /\ c.made[f] = 1
  BY <1>1, <1>3 DEF IsMade, Changes, Makers, Facts
<1>11. IsAnswer(v, c.made)
  <2>1. NameOf(v) = "client" /\ v[2] = c.about
    BY <1>1 DEF NameOf
  <2>2. "client" \in Kinds("client")
    BY DEF Kinds
  <2> QED BY <1>10, <2>1, <2>2 DEF IsAnswer, Seen
<1>12. \A what \in Writes : \A f \in DOMAIN c.made : c.made[f] >= heard'[what][f]
  <2>1. TAKE what \in Writes
  <2>2. TAKE f \in DOMAIN c.made
  <2>3. f[1] = "client" /\ f \in Facts /\ c.made[f] = 1 /\ heard'[what][f] \in Nat
    BY <1>7, <1>10
  <2>4. CASE what = "client"
    BY <1>7, <2>3, <2>4 DEF HeardIsMade, Makers
  <2>5. CASE what # "client"
    <3>1. "client" \notin Changes(what)
      BY <2>5 DEF Changes, Writes
    <3> QED BY <1>7, <2>3, <3>1 DEF HeardIsMade
  <2> QED BY <2>4, <2>5
<1>13. EntriesUpToDate'
  <2>1. SUFFICES ASSUME NEW w \in held', w \notin suspect', w \notin late'
                 PROVE  UpToDate(w, data[w])'
    BY DEF EntriesUpToDate
  <2>2. CASE w = v
    BY <1>9, <1>12, <2>2 DEF UpToDate
  <2>3. CASE w # v
    <3>1. w \in held \ (suspect \cup late) /\ w \notin hit /\ w \in Views
      BY <1>1, <1>2, <2>1, <2>3 DEF CacheTyped
    <3>2. PICK answer : answer = data[w]
      OBVIOUS
    <3>3. IsAnswer(w, answer) /\ UpToDate(w, answer)
      BY <3>1, <3>2 DEF AnswersAre, EntriesUpToDate
    <3>4. UpToDate(w, answer)'
      BY <1>1, <1>3, <3>1, <3>3, StillUpToDate
    <3> QED BY <1>9, <2>3, <3>1, <3>2, <3>4 DEF UpToDate
  <2> QED BY <2>2, <2>3
<1> HIDE DEF hit
<1>14. CacheTyped'
  <2>1. suspect' \subseteq held' /\ late' \subseteq held' /\ held' \subseteq Views
    BY <1>1, <1>2, <1>9 DEF CacheTyped
  <2> QED BY <1>1, <1>2, <1>4, <1>5, <1>7, <1>8, <2>1 DEF CacheTyped
<1>15. AnswersAre'
  BY <1>6, <1>9, <1>11 DEF AnswersAre
<1>16. LoadsShown'
  BY <1>1, <1>2, <1>4, <1>5 DEF LoadsShown, Shown, Reachable, Known
<1>17. InOrder'
  BY <1>1 DEF InOrder, Known
<1> QED BY <1>6, <1>7, <1>8, <1>13, <1>14, <1>15, <1>16, <1>17

\* Keys are invalidated, with nothing heard.
LEMMA InvalidateStep ==
  ASSUME CacheAssumption, PagesInv, NEW keys, Invalidate(keys, here),
         UNCHANGED <<version, heard>>, CallsAre', DOMAIN calls' = Slots
  PROVE  PagesInv'
<1> USE DEF PagesInv
<1> DEFINE hit == Hit(keys)
<1>1. /\ Refresh(hit, held, suspect \cup (hit \cap held), here)
      /\ here' = here /\ suspect' = suspect \cup (hit \cap held)
      /\ UNCHANGED <<held, data, late>>
  BY DEF Invalidate, Refresh
<1> HIDE DEF hit
<1>2. /\ loading' \in [Views -> Nat] /\ DOMAIN got' = Views
      /\ joined' \subseteq Views
      /\ \A v \in Views : loading'[v] > 0 => v \in Mounted(here, held)
      /\ \A v \in joined' : loading'[v] > 0
      /\ \A v \in Views :
           \/ got'[v] = Blank
           \/ got'[v] = got[v] /\ loading[v] > 0 /\ (v \in joined => v \in joined')
  BY <1>1, RefreshLoads
<1>3. AnswersAre' /\ LoadsUpToDate'
  BY <1>1, <1>2, GotKept DEF AnswersAre
<1>4. CacheTyped'
  BY <1>1, <1>2 DEF CacheTyped
<1>5. LoadsShown'
  BY <1>1, <1>2 DEF LoadsShown, Shown, Reachable, Known
<1>6. InOrder' /\ HeardIsMade' /\ EntriesUpToDate'
  BY <1>1 DEF InOrder, Known, HeardIsMade, EntriesUpToDate, UpToDate
<1> QED BY <1>3, <1>4, <1>5, <1>6

LEMMA HearFailureStep ==
  ASSUME CacheAssumption, PagesInv, NEW s \in Slots, HearFailure(s)
  PROVE  PagesInv'
<1> USE DEF PagesInv
<1>1. PICK keys, next :
        /\ Invalidate(keys, here) /\ next = Free
        /\ calls' = [calls EXCEPT ![s] = next]
        /\ UNCHANGED <<version, heard>>
  BY DEF HearFailure
<1>2. IsCall(next)'
  BY <1>1 DEF IsCall, Free
<1>3. version' \in [Facts -> Nat] /\ \A f \in Facts : version'[f] >= version[f]
  BY <1>1 DEF CacheTyped
<1>4. CallsAre' /\ DOMAIN calls' = Slots
  BY <1>1, <1>2, <1>3, CallChanged
<1> QED BY <1>1, <1>4, InvalidateStep

LEMMA RefreshAllStep ==
  ASSUME CacheAssumption, PagesInv, RefreshAll
  PROVE  PagesInv'
<1> USE DEF PagesInv
<1>1. PICK keys : Invalidate(keys, here) /\ UNCHANGED <<version, calls, heard>>
  BY DEF RefreshAll
<1>2. CallsAre' /\ DOMAIN calls' = Slots
  BY <1>1 DEF CallsAre, IsCall, IsMade, Known, CacheTyped
<1> QED BY <1>1, <1>2, InvalidateStep

LEMMA CacheStarts ==
  ASSUME CacheAssumption, CacheInit
  PROVE  PagesInv
<1>1. PICK made \in SUBSET Enquiries, known \in SUBSET Customers :
        version = [f \in Facts |-> IF f[2] \in made \cup known THEN 1 ELSE 0]
  BY DEF CacheInit
<1>2. /\ held = {} /\ suspect = {} /\ late = {} /\ joined = {}
      /\ data = [v \in Views |-> Blank] /\ got = [v \in Views |-> Blank]
      /\ here \in Pages /\ Reachable(here)
      /\ loading = [v \in Views |-> IF v \in Mounted(here, {}) THEN 1 ELSE 0]
      /\ calls = [s \in Slots |-> Free]
      /\ heard = [what \in Writes |-> [f \in Facts |-> 0]]
  BY DEF CacheInit
<1>3. CacheTyped
  BY <1>1, <1>2 DEF CacheTyped
<1>4. AnswersAre
  BY <1>2, BlankIsAnswer DEF AnswersAre
<1>5. LoadsShown
  BY <1>2 DEF LoadsShown, Shown
<1>6. InOrder
  <2>1. \A j \in Enquiries, kind \in {"card", "status", "lines", "stage"} :
          <<kind, j>> \in Facts
    BY DEF Facts
  <2>2. \A j \in Enquiries, kind \in {"card", "status", "lines", "stage"} :
          Known(<<kind, j>>) <=> j \in made \cup known
    <3>1. \A f \in Facts : Known(f) <=> f[2] \in made \cup known
      BY <1>1 DEF Known
    <3> QED BY <2>1, <3>1
  <2> QED BY <2>2 DEF InOrder
<1>7. CallsAre
  BY <1>2 DEF CallsAre, IsCall, Free
<1>8. HeardIsMade
  BY <1>2, <1>3 DEF HeardIsMade, CacheTyped
<1>9. EntriesUpToDate
  BY <1>2 DEF EntriesUpToDate
<1>10. LoadsUpToDate
  BY <1>2, BlankIsAnswer DEF LoadsUpToDate
<1> QED BY <1>3, <1>4, <1>5, <1>6, <1>7, <1>8, <1>9, <1>10 DEF PagesInv

LEMMA PagesInvHolds ==
  ASSUME CacheAssumption
  PROVE  CacheSpec => []PagesInv
<1>1. CacheInit => PagesInv
  BY CacheStarts
<1>2. PagesInv /\ [CacheNext]_cacheVars => PagesInv'
  <2>1. SUFFICES ASSUME PagesInv, [CacheNext]_cacheVars
                 PROVE  PagesInv'
    OBVIOUS
  <2>2. CASE \E p \in Pages : Visit(p)
    BY <2>1, <2>2, VisitStep
  <2>3. CASE \E v \in Views :
               BeginLoad(v) \/ ReadNext(v) \/ Arrive(v) \/ LoadFails(v) \/ Forget(v)
    BY <2>1, <2>3, BeginLoadStep, ReadNextStep, ArriveStep, LoadFailsStep, ForgetStep
  <2>4. CASE RefreshAll
    BY <2>1, <2>4, RefreshAllStep
  <2>5. CASE \E what \in Writes, x \in Enquiries \cup Customers : Colleague(what, x)
    BY <2>1, <2>5, ColleagueStep
  <2>6. CASE \E s \in Slots, what \in Writes, x \in Enquiries \cup Customers : Send(s, what, x)
    BY <2>1, <2>6, SendStep
  <2>7. CASE \E s \in Slots :
               ServeWrite(s) \/ WriteFails(s) \/ Hear(s) \/ HearClient(s) \/ HearFailure(s)
    BY <2>1, <2>7, ServeWriteStep, WriteFailsStep, HearStep, HearClientStep, HearFailureStep
  <2>8. CASE UNCHANGED cacheVars
    BY <2>1, <2>8 DEF cacheVars, PagesInv, CacheTyped, AnswersAre, LoadsShown, Shown, Reachable,
       Known, InOrder, CallsAre, IsCall, IsMade, HeardIsMade, EntriesUpToDate, LoadsUpToDate,
       UpToDate
  <2> QED BY <2>1, <2>2, <2>3, <2>4, <2>5, <2>6, <2>7, <2>8 DEF CacheNext
<1> QED BY <1>1, <1>2, PTL DEF CacheSpec

\* The cache's entries, marks and loads fit together: what is marked or has come
\* late is held, what an invalidation joined is under way.
THEOREM CacheIsTyped ==
  ASSUME CacheAssumption
  PROVE  CacheSpec => []CacheTypeOK
<1>1. PagesInv => CacheTypeOK
  BY DEF PagesInv, CacheTyped, AnswersAre, IsAnswer, Seen, LoadsShown, CacheTypeOK
<1> QED BY <1>1, PagesInvHolds, PTL

\* On every page that is not marked for loading again the user sees at least what
\* the user changed and was told of, whatever loads, other users' writes, other
\* writes of the tab, failures and page changes come between: for any number of
\* enquiries and customers, of writes under way at once and of changes.
THEOREM OwnChangesAreShown ==
  ASSUME CacheAssumption
  PROVE  CacheSpec => []OwnChangesShown
<1>1. PagesInv => OwnChangesShown
  BY DEF PagesInv, EntriesUpToDate, UpToDate, OwnChangesShown
<1> QED BY <1>1, PagesInvHolds, PTL
===============================================================================
