--------------------------- MODULE Accounts_proofs ---------------------------
(***************************************************************************)
(* For any ids, names and texts, and server's lists of any length: what    *)
(* the loop of ReplaceWith comes to, and with it the properties of the     *)
(* account cache.                                                          *)
(*                                                                         *)
(* The loop is compared, round by round, with what it should have done by  *)
(* then; the least round at which the two differ cannot be any.            *)
(***************************************************************************)
EXTENDS Accounts, NumberLemmas

----------------------------------------------------------------------------
(* The loop of ReplaceWith                                                 *)

\* The rounds up to k that are about account i.
Rounds(list, i, k) == {j \in 1..k : list[j].id = i}

\* What the cache should be after k rounds.
After(accs, list, k) ==
    [i \in DOMAIN accs \cup {list[j].id : j \in 1..k} |->
        IF Rounds(list, i, k) = {} THEN accs[i]
        ELSE LET old == IF i \in DOMAIN accs THEN accs[i]
                        ELSE FromEntry(list[Min(Rounds(list, i, k))])
             IN Rename(old, list[Max(Rounds(list, i, k))].name)]

Cache(accs) == accs = [i \in DOMAIN accs |-> accs[i]] /\ \A i \in DOMAIN accs : accs[i] \in Account

LEMMA EntryTyped ==
    ASSUME NEW e \in Entries
    PROVE  e.id \in IDs /\ e.name \in Names /\ FromEntry(e) \in Account
BY AccountsAssumption DEF Entries, FromEntry, Account, DefaultAlias, Text

LEMMA ListTyped ==
    ASSUME NEW list \in Lists
    PROVE  Len(list) \in Nat /\ DOMAIN list = 1..Len(list) /\ \A k \in 1..Len(list) : list[k] \in Entries
BY AccountsAssumption DEF Lists

LEMMA RenameTwice ==
    ASSUME NEW acc \in Account, NEW m, NEW n
    PROVE  Rename(Rename(acc, m), n) = Rename(acc, n)
BY DEF Account, Rename

LEMMA RenameSame ==
    ASSUME NEW acc \in Account
    PROVE  Rename(acc, acc.name) = acc
BY DEF Account, Rename

LEMMA SomeRound ==
    ASSUME NEW list, NEW i, NEW k \in Nat, Rounds(list, i, k) # {}
    PROVE  Min(Rounds(list, i, k)) \in Rounds(list, i, k)
<1>1. Rounds(list, i, k) \in SUBSET Nat
  BY DEF Rounds
<1> QED BY <1>1, MinIsLeast

\* The first round is the least, once there is one.
LEMMA FirstRound ==
    ASSUME NEW list, NEW i, NEW k \in Nat \ {0}, Rounds(list, i, k - 1) # {}
    PROVE  /\ Rounds(list, i, k) # {}
           /\ Min(Rounds(list, i, k)) = Min(Rounds(list, i, k - 1))
<1> DEFINE old == Rounds(list, i, k - 1)
           now == Rounds(list, i, k)
<1>1. /\ old # {} /\ old \in SUBSET Nat /\ old \subseteq now /\ now \in SUBSET Nat
      /\ \A j \in now : j \in old \/ j = k
      /\ \A j \in old : j < k
  BY DEF Rounds
<1> HIDE DEF old, now
<1>2. PICK x \in old : \A y \in old : x =< y
  BY <1>1, LeastNumber
<1>3. x \in now /\ \A y \in now : x =< y
  BY <1>1, <1>2
<1>4. Min(old) = x /\ Min(now) = x
  BY <1>1, <1>2, <1>3, LeastIsMin
<1> QED BY <1>1, <1>3, <1>4 DEF old, now

\* The last round is the last.
LEMMA LastRound ==
    ASSUME NEW list, NEW k \in Nat \ {0}
    PROVE  Max(Rounds(list, list[k].id, k)) = k
<1> DEFINE now == Rounds(list, list[k].id, k)
<1>1. k \in now /\ \A j \in now : j \in Nat /\ k >= j
  BY DEF Rounds
<1> HIDE DEF now
<1> QED BY <1>1 DEF Max, now

\* A round of the loop is a round of what it should do.
LEMMA OneRound ==
    ASSUME NEW accs, Cache(accs), NEW list \in Lists, NEW k \in 1..Len(list)
    PROVE  Merge(After(accs, list, k - 1), list[k]) = After(accs, list, k)
<1> DEFINE e == list[k]
           before == After(accs, list, k - 1)
           after == After(accs, list, k)
<1>1. k \in Nat \ {0} /\ e \in Entries /\ k - 1 \in Nat /\ 1..k = (1..(k - 1)) \cup {k}
  BY ListTyped
<1>2. /\ DOMAIN before = DOMAIN accs \cup {list[j].id : j \in 1..(k - 1)}
      /\ DOMAIN after = DOMAIN before \cup {e.id}
  BY <1>1 DEF After
<1>3. ASSUME NEW i \in DOMAIN after, i # e.id
      PROVE  i \in DOMAIN before /\ after[i] = before[i]
  <2>1. Rounds(list, i, k) = Rounds(list, i, k - 1)
    BY <1>1, <1>3 DEF Rounds
  <2>2. i \in DOMAIN before
    BY <1>2, <1>3
  <2> QED BY <2>1, <2>2, <1>2 DEF After
<1>4. k \in Rounds(list, e.id, k) /\ Max(Rounds(list, e.id, k)) = k
  BY <1>1, LastRound DEF Rounds
<1>5. e.id \in DOMAIN before => after[e.id] = Rename(before[e.id], e.name)
  <2> SUFFICES ASSUME e.id \in DOMAIN before
               PROVE  after[e.id] = Rename(before[e.id], e.name)
    OBVIOUS
  <2>1. CASE Rounds(list, e.id, k - 1) = {}
    <3>1. e.id \in DOMAIN accs
      BY <1>2, <2>1 DEF Rounds
    <3>2. before[e.id] = accs[e.id]
      BY <1>2, <2>1 DEF After
    <3>3. after[e.id] = Rename(accs[e.id], e.name)
      BY <1>2, <1>4, <3>1 DEF After
    <3> QED BY <3>2, <3>3
  <2>2. CASE Rounds(list, e.id, k - 1) # {}
    <3> DEFINE old == IF e.id \in DOMAIN accs THEN accs[e.id]
                      ELSE FromEntry(list[Min(Rounds(list, e.id, k - 1))])
               name == list[Max(Rounds(list, e.id, k - 1))].name
    <3>1. before[e.id] = Rename(old, name)
      BY <1>2, <2>2 DEF After
    <3>2. after[e.id] = Rename(old, e.name)
      BY <1>1, <1>2, <1>4, <2>2, FirstRound DEF After
    <3>0. old \in Account
      <4>1. CASE e.id \in DOMAIN accs
        BY <4>1 DEF Cache
      <4>2. CASE e.id \notin DOMAIN accs
        <5>1. Min(Rounds(list, e.id, k - 1)) \in 1..Len(list)
          <6>1. Min(Rounds(list, e.id, k - 1)) \in Rounds(list, e.id, k - 1)
            BY <1>1, <2>2, SomeRound
          <6>2. Rounds(list, e.id, k - 1) \subseteq 1..Len(list)
            BY <1>1, ListTyped DEF Rounds
          <6> QED BY <6>1, <6>2
        <5> QED BY <4>2, <5>1, ListTyped, EntryTyped
      <4> QED BY <4>1, <4>2
    <3> HIDE DEF old, name
    <3>3. Rename(Rename(old, name), e.name) = Rename(old, e.name)
      BY <3>0, RenameTwice
    <3> QED BY <3>1, <3>2, <3>3
  <2> QED BY <2>1, <2>2
<1>6. e.id \notin DOMAIN before => after[e.id] = FromEntry(e)
  <2> SUFFICES ASSUME e.id \notin DOMAIN before PROVE after[e.id] = FromEntry(e)
    OBVIOUS
  <2>1. Rounds(list, e.id, k) = {k} /\ e.id \notin DOMAIN accs
    BY <1>1, <1>2 DEF Rounds
  <2>2. Min({k}) = k /\ Max({k}) = k
    BY <1>1 DEF Min, Max
  <2>3. after[e.id] = Rename(FromEntry(e), e.name)
    BY <1>2, <2>1, <2>2 DEF After
  <2>4. Rename(FromEntry(e), e.name) = FromEntry(e)
    <3>1. FromEntry(e).name = e.name
      BY DEF FromEntry
    <3> QED BY <1>1, <3>1, EntryTyped, RenameSame
  <2> QED BY <2>3, <2>4
<1>7. after = [i \in DOMAIN after |-> after[i]]
  BY DEF After
<1> HIDE DEF before, after
<1>8. \A i \in DOMAIN after :
         after[i] = CASE i # e.id -> before[i]
                      [] i = e.id /\ i \in DOMAIN before -> Rename(before[i], e.name)
                      [] OTHER -> FromEntry(e)
  BY <1>3, <1>5, <1>6
<1>9. Merge(before, e) = after
  BY <1>2, <1>7, <1>8 DEF Merge
<1> QED BY <1>9 DEF before, after

\* What a refresh is for: the loop and the deletion come to Refreshed, however
\* often the list names an application.
LEMMA ReplaceWithIsRefreshed ==
    ASSUME NEW accs, Cache(accs), NEW list \in Lists
    PROVE  ReplaceWith(accs, list) = Refreshed(accs, list)
<1> DEFINE N == Len(list)
           Round(f) == [k \in 0..N |-> IF k = 0 THEN accs ELSE Merge(f[k - 1], list[k])]
           merged == CHOOSE f : f = Round(f)
           should == [k \in 0..N |-> After(accs, list, k)]
<1>1. N \in Nat /\ DOMAIN list = 1..N
  BY ListTyped
<1>2. should = Round(should)
  <2>1. After(accs, list, 0) = accs
    <3>1. \A i : Rounds(list, i, 0) = {}
      BY DEF Rounds
    <3>2. {list[j].id : j \in 1..0} = {}
      OBVIOUS
    <3> QED BY <3>1, <3>2 DEF After, Cache
  <2>2. ASSUME NEW k \in 1..N
        PROVE  should[k] = Merge(should[k - 1], list[k])
    BY <1>1, <2>2, OneRound
  <2> HIDE DEF N
  <2>3. \A k \in 0..N : should[k] = IF k = 0 THEN accs ELSE Merge(should[k - 1], list[k])
    BY <1>1, <2>1, <2>2
  <2> QED BY <2>3
<1>3. merged = Round(merged)
  <2> HIDE DEF should, Round
  <2> QED BY <1>2
<1>4. \A k \in 0..N : merged[k] = should[k]
  <2> HIDE DEF merged, should, N
  <2> DEFINE wrong == {k \in 0..N : merged[k] # should[k]}
  <2> SUFFICES ASSUME wrong # {} PROVE FALSE
    OBVIOUS
  <2>1. PICK k \in wrong : \A j \in wrong : k =< j
    <3> HIDE DEF wrong
    <3>1. wrong \in SUBSET Nat
      BY <1>1 DEF wrong
    <3> QED BY <3>1, LeastNumber
  <2>2. k \in 0..N /\ merged[k] # should[k]
    BY <2>1
  <2>3. CASE k = 0
    BY <1>2, <1>3, <2>2, <2>3
  <2>4. CASE k # 0
    <3>1. k - 1 \in 0..N /\ k - 1 \notin wrong
      BY <1>1, <2>1, <2>2, <2>4
    <3>2. merged[k - 1] = should[k - 1]
      BY <3>1
    <3>3. merged[k] = Merge(merged[k - 1], list[k])
      BY <1>3, <2>2, <2>4
    <3>4. should[k] = Merge(should[k - 1], list[k])
      BY <1>2, <2>2, <2>4
    <3> QED BY <2>2, <3>2, <3>3, <3>4
  <2> QED BY <2>3, <2>4
<1>5. merged[N] = After(accs, list, N)
  BY <1>1, <1>4
<1>6. ReplaceWith(accs, list) = [i \in ListedIDs(list) |-> merged[N][i]]
  BY DEF ReplaceWith
<1> HIDE DEF merged
<1>7. \A i \in ListedIDs(list) :
         /\ i \in DOMAIN After(accs, list, N)
         /\ Rounds(list, i, N) = {k \in DOMAIN list : list[k].id = i}
         /\ Rounds(list, i, N) # {}
  BY <1>1 DEF ListedIDs, Rounds, After
<1>8. \A i \in ListedIDs(list) : merged[N][i] = Refreshed(accs, list)[i]
  BY <1>5, <1>7 DEF After, Refreshed, RefreshedAccount
<1> QED BY <1>6, <1>8 DEF Refreshed

----------------------------------------------------------------------------
(* What a refresh does to an account                                       *)

LEMMA RenameTyped ==
    ASSUME NEW acc \in Account, NEW name \in Names
    PROVE  /\ Rename(acc, name) \in Account
           /\ Rename(acc, name).alias = acc.alias
           /\ Rename(acc, name).hasRole = acc.hasRole
BY DEF Account, Rename

\* Some round about an account is the last.
LEMMA SomeLastRound ==
    ASSUME NEW list, NEW i, NEW n \in Nat, Rounds(list, i, n) # {}
    PROVE  Max(Rounds(list, i, n)) \in Rounds(list, i, n)
<1>1. Rounds(list, i, n) \in SUBSET (0..n)
  BY DEF Rounds
<1> QED BY <1>1, MaxIsGreatest

\* It keeps the alias and the role it had; a new one has no role.
LEMMA RefreshKeeps ==
    ASSUME NEW accs, Cache(accs), NEW list \in Lists, NEW i \in ListedIDs(list)
    PROVE  LET new == ReplaceWith(accs, list)[i]
           IN /\ new \in Account
              /\ i \in DOMAIN accs =>
                    new.alias = accs[i].alias /\ new.hasRole = accs[i].hasRole
              /\ i \notin DOMAIN accs => new.hasRole = FALSE
<1> DEFINE N == Len(list)
           mine == {k \in DOMAIN list : list[k].id = i}
           old == IF i \in DOMAIN accs THEN accs[i] ELSE FromEntry(list[Min(mine)])
           name == list[Max(mine)].name
<1>1. N \in Nat /\ mine = Rounds(list, i, N) /\ mine # {}
  BY ListTyped DEF Rounds, ListedIDs
<1>2. Min(mine) \in mine /\ Max(mine) \in mine
  BY <1>1, SomeRound, SomeLastRound
<1>3. list[Min(mine)] \in Entries /\ list[Max(mine)] \in Entries
  BY <1>2, ListTyped
<1>4. name \in Names /\ FromEntry(list[Min(mine)]) \in Account
  BY <1>3, EntryTyped
<1>5. old \in Account
  BY <1>4 DEF Cache
<1>6. ReplaceWith(accs, list)[i] = Rename(old, name)
  <2>1. ReplaceWith(accs, list)[i] = RefreshedAccount(accs, list, i)
    BY ReplaceWithIsRefreshed DEF Refreshed
  <2> QED BY <2>1 DEF RefreshedAccount
<1>7. FromEntry(list[Min(mine)]).hasRole = FALSE
  BY DEF FromEntry
<1> HIDE DEF name, mine
<1> QED BY <1>4, <1>5, <1>6, <1>7, RenameTyped

----------------------------------------------------------------------------
(* The invariant                                                           *)

\* A nickname is the alias of its account, and some text.
NickIsAlias ==
    \A i \in IDs :
        nick[i] # None =>
            i \in DOMAIN accounts /\ accounts[i].alias = nick[i] /\ nick[i] # Empty

IInv == TypeOK /\ Cache(accounts) /\ NickIsAlias /\ RoleWasUsed

LEMMA InitSound == Init => IInv
BY DEF Init, IInv, TypeOK, Cache, NickIsAlias, RoleWasUsed

LEMMA RefreshSound ==
    ASSUME IInv, NEW list \in Lists, Refresh(list)
    PROVE  IInv'
<1>1. /\ DOMAIN accounts' = ListedIDs(list)
      /\ accounts' = [i \in DOMAIN accounts' |-> accounts'[i]]
      /\ DOMAIN accounts' \subseteq IDs
  <2>1. accounts' = [i \in ListedIDs(list) |-> RefreshedAccount(accounts, list, i)]
    BY ReplaceWithIsRefreshed DEF Refresh, Refreshed, IInv
  <2>2. ListedIDs(list) \subseteq IDs
    BY ListTyped, EntryTyped DEF ListedIDs
  <2> QED BY <2>1, <2>2
<1>2. \A i \in DOMAIN accounts' :
         /\ accounts'[i] \in Account
         /\ i \in DOMAIN accounts =>
               accounts'[i].alias = accounts[i].alias /\ accounts'[i].hasRole = accounts[i].hasRole
         /\ i \notin DOMAIN accounts => accounts'[i].hasRole = FALSE
  <2>1. Cache(accounts) /\ accounts' = ReplaceWith(accounts, list)
    BY DEF IInv, Refresh
  <2> TAKE i \in DOMAIN accounts'
  <2>2. i \in ListedIDs(list)
    BY <1>1
  <2>3. LET new == ReplaceWith(accounts, list)[i]
        IN /\ new \in Account
           /\ i \in DOMAIN accounts =>
                 new.alias = accounts[i].alias /\ new.hasRole = accounts[i].hasRole
           /\ i \notin DOMAIN accounts => new.hasRole = FALSE
    BY <2>1, <2>2, RefreshKeeps
  <2> QED BY <2>1, <2>3
<1>3. TypeOK' /\ Cache(accounts)'
  BY <1>1, <1>2 DEF Refresh, IInv, TypeOK, Cache
<1>4. NickIsAlias'
  BY <1>1, <1>2 DEF Refresh, IInv, NickIsAlias, TypeOK
<1>5. RoleWasUsed'
  BY <1>2 DEF Refresh, IInv, RoleWasUsed
<1> QED BY <1>3, <1>4, <1>5 DEF IInv

LEMMA AliasSound ==
    ASSUME IInv, NEW s \in Typed, NEW a \in Typed, Alias(s, a)
    PROVE  IInv'
<1>1. PICK i \in Matches(accounts, s) :
         accounts' = [accounts EXCEPT ![i].alias = a] /\ nick' = Nicknamed(i, a)
  BY DEF Alias
<1>2. i \in DOMAIN accounts /\ i \in IDs /\ a \in Text
  BY AccountsAssumption DEF Matches, IInv, TypeOK
<1>3. /\ DOMAIN accounts' = DOMAIN accounts
      /\ accounts' = [j \in DOMAIN accounts' |-> accounts'[j]]
      /\ \A j \in DOMAIN accounts :
            /\ accounts'[j] \in Account /\ accounts'[j].hasRole = accounts[j].hasRole
            /\ accounts'[j].alias = IF j = i THEN a ELSE accounts[j].alias
  BY <1>1, <1>2 DEF IInv, Cache, Account
<1>4. TypeOK' /\ Cache(accounts)'
  BY <1>1, <1>3 DEF Alias, IInv, TypeOK, Cache, Nicknamed
<1>5. NickIsAlias'
  BY <1>1, <1>2, <1>3 DEF IInv, NickIsAlias, Nicknamed
<1>6. RoleWasUsed'
  BY <1>3 DEF Alias, IInv, RoleWasUsed
<1> QED BY <1>4, <1>5, <1>6 DEF IInv

LEMMA UnaliasSound ==
    ASSUME IInv, NEW s \in Typed, Unalias(s)
    PROVE  IInv'
<1>1. PICK i \in Matches(accounts, s) :
         accounts' = [accounts EXCEPT ![i].alias = Empty] /\ nick' = [nick EXCEPT ![i] = None]
  BY DEF Unalias
<1>2. i \in DOMAIN accounts /\ i \in IDs /\ Empty \in Text
  BY AccountsAssumption DEF Matches, IInv, TypeOK
<1>3. /\ DOMAIN accounts' = DOMAIN accounts
      /\ accounts' = [j \in DOMAIN accounts' |-> accounts'[j]]
      /\ \A j \in DOMAIN accounts :
            /\ accounts'[j] \in Account /\ accounts'[j].hasRole = accounts[j].hasRole
            /\ j # i => accounts'[j].alias = accounts[j].alias
  BY <1>1, <1>2 DEF IInv, Cache, Account
<1>4. TypeOK' /\ Cache(accounts)'
  BY <1>1, <1>3 DEF Unalias, IInv, TypeOK, Cache
<1>5. NickIsAlias'
  BY <1>1, <1>2, <1>3 DEF IInv, NickIsAlias, TypeOK
<1>6. RoleWasUsed'
  BY <1>3 DEF Unalias, IInv, RoleWasUsed
<1> QED BY <1>4, <1>5, <1>6 DEF IInv

LEMMA GetSound ==
    ASSUME IInv, NEW s \in Typed, NEW hasRole \in BOOLEAN, Get(s, hasRole)
    PROVE  IInv'
<1>1. PICK i \in Matches(accounts, Wanted(s)) :
         accounts' = [accounts EXCEPT ![i].hasRole = TRUE] /\ used' = used \cup {i}
  BY DEF Get
<1>2. i \in DOMAIN accounts /\ i \in IDs
  BY DEF Matches, IInv, TypeOK
<1>3. /\ DOMAIN accounts' = DOMAIN accounts
      /\ accounts' = [j \in DOMAIN accounts' |-> accounts'[j]]
      /\ \A j \in DOMAIN accounts :
            /\ accounts'[j] \in Account /\ accounts'[j].alias = accounts[j].alias
            /\ j # i => accounts'[j].hasRole = accounts[j].hasRole
  BY <1>1, <1>2 DEF IInv, Cache, Account
<1>4. TypeOK' /\ Cache(accounts)'
  BY <1>1, <1>2, <1>3 DEF Get, Wanted, IInv, TypeOK, Cache
<1>5. NickIsAlias'
  BY <1>3 DEF Get, IInv, NickIsAlias
<1>6. RoleWasUsed'
  BY <1>1, <1>3 DEF IInv, RoleWasUsed
<1> QED BY <1>4, <1>5, <1>6 DEF IInv

LEMMA NextSound == IInv /\ [Next]_vars => IInv'
<1> SUFFICES ASSUME IInv, [Next]_vars PROVE IInv'
  OBVIOUS
<1>1. ASSUME NEW list \in Lists, Refresh(list) PROVE IInv'
  BY <1>1, RefreshSound
<1>2. ASSUME NEW s \in Typed, NEW a \in Typed, Alias(s, a) PROVE IInv'
  BY <1>2, AliasSound
<1>3. ASSUME NEW s \in Typed, Unalias(s) PROVE IInv'
  BY <1>3, UnaliasSound
<1>4. ASSUME NEW s \in Typed, NEW hasRole \in BOOLEAN, Get(s, hasRole) PROVE IInv'
  BY <1>4, GetSound
<1>5. ASSUME NEW s \in Typed, GetBypass(s) PROVE IInv'
  BY <1>5 DEF GetBypass, Wanted, IInv, TypeOK, Cache, NickIsAlias, RoleWasUsed
<1>6. CASE UNCHANGED vars
  BY <1>6 DEF vars, IInv, TypeOK, Cache, NickIsAlias, RoleWasUsed
<1> QED BY <1>1, <1>2, <1>3, <1>4, <1>5, <1>6 DEF Next

LEMMA Invariant == Spec => []IInv
BY InitSound, NextSound, PTL DEF Spec

----------------------------------------------------------------------------
(* Theorems                                                                *)

\* The cache holds known ids and names, whatever is typed (config.go:51-186).
THEOREM TypeCorrect == Spec => []TypeOK
BY Invariant, PTL DEF IInv

\* Over any cache that can come about, ReplaceWith leaves the listed ids and no
\* other, renames, and keeps aliases and roles, for lists of any length that name
\* an application as often as they like (config.go:146-170).
THEOREM RefreshReplaces == Spec => []ReplaceWithRefreshes
<1>1. IInv => ReplaceWithRefreshes
  BY ReplaceWithIsRefreshed DEF IInv, ReplaceWithRefreshes
<1> QED BY Invariant, <1>1, PTL

\* A nickname survives every refresh that still lists its account
\* (config.go:155-158).
THEOREM NicknamesSurvive == Spec => []NicknameSurvives
<1>1. IInv => NicknameSurvives
  BY DEF IInv, NickIsAlias, NicknameSurvives, Matches, IsNameMatch
<1> QED BY Invariant, <1>1, PTL

\* An account has a most recent role only if get succeeded for that account and
\* not merely for one of its name (get.go:121-164).
THEOREM RolesWereUsed == Spec => []RoleWasUsed
BY Invariant, PTL DEF IInv

\* A nickname that nothing else answers to becomes the name of exactly one account
\* (config.go:229-236).
THEOREM FreshAliasesAreUnique == Spec => FreshAliasIsUnique
<1> DEFINE Unique ==
       \A i \in IDs : nick'[i] \notin {nick[i], None} => Matches(accounts', nick'[i]) = {i}
<1>1. IInv /\ [Next]_vars => [Unique]_vars
  <2> SUFFICES ASSUME IInv, Next PROVE Unique
    OBVIOUS
  <2>1. ASSUME NEW list \in Lists, Refresh(list) PROVE Unique
    BY <2>1 DEF Refresh
  <2>2. ASSUME NEW s \in Typed, NEW a \in Typed, Alias(s, a) PROVE Unique
    <3>1. PICK i \in Matches(accounts, s) :
             accounts' = [accounts EXCEPT ![i].alias = a] /\ nick' = Nicknamed(i, a)
      BY <2>2 DEF Alias
    <3>2. i \in DOMAIN accounts /\ DOMAIN accounts \subseteq IDs
      BY DEF Matches, IInv, TypeOK
    <3>3. \A j \in IDs : nick'[j] \notin {nick[j], None} =>
             j = i /\ nick'[j] = a /\ Matches(accounts, a) \subseteq {i}
      BY <3>1 DEF Nicknamed
    <3>4. accounts'[i].alias = a /\ DOMAIN accounts' = DOMAIN accounts
          /\ \A j \in DOMAIN accounts : j # i => accounts'[j] = accounts[j]
      BY <3>1, <3>2 DEF IInv, Cache, Account
    <3>5. Matches(accounts, a) \subseteq {i} => Matches(accounts', a) = {i}
      BY <3>2, <3>4 DEF Matches, IsNameMatch
    <3> QED BY <3>3, <3>5
  <2>3. ASSUME NEW s \in Typed, Unalias(s) PROVE Unique
    BY <2>3 DEF Unalias, IInv, TypeOK
  <2>4. ASSUME NEW s \in Typed, NEW hasRole \in BOOLEAN, Get(s, hasRole) PROVE Unique
    BY <2>4 DEF Get
  <2>5. ASSUME NEW s \in Typed, GetBypass(s) PROVE Unique
    BY <2>5 DEF GetBypass
  <2> QED BY <2>1, <2>2, <2>3, <2>4, <2>5 DEF Next
<1> QED BY Invariant, <1>1, PTL DEF Spec, FreshAliasIsUnique

\* An account answers to a text by its id, its name or its alias only.
LEMMA MatchesStay ==
    ASSUME NEW j \in DOMAIN accounts, NEW s,
           accounts'[j].name = accounts[j].name, accounts'[j].alias = accounts[j].alias,
           j \in Matches(accounts', s)
    PROVE  j \in Matches(accounts, s)
BY DEF Matches, IsNameMatch

\* A nickname that refers to its account alone does so until it is given away, or
\* the server's list brings something that answers to it (config.go:146-170,
\* config.go:229-245).
THEOREM OnlyTheListClashes == Spec => ClashesComeFromTheList
<1> DEFINE Brought ==
       \A i \in IDs :
          nick[i] # None /\ nick'[i] = nick[i] /\ Matches(accounts, nick[i]) = {i} =>
              \A j \in Matches(accounts', nick[i]) \ {i} :
                  j \notin DOMAIN accounts \/ accounts'[j].name # accounts[j].name
<1>1. IInv /\ [Next]_vars => [Brought]_vars
  <2> SUFFICES ASSUME IInv, Next,
                      NEW i \in IDs, nick[i] # None, nick'[i] = nick[i],
                      Matches(accounts, nick[i]) = {i},
                      NEW j \in Matches(accounts', nick[i]) \ {i},
                      j \in DOMAIN accounts, accounts'[j].name = accounts[j].name
               PROVE  FALSE
    OBVIOUS
  <2>1. accounts'[j].alias # accounts[j].alias
    BY MatchesStay
  <2>2. ASSUME NEW list \in Lists, Refresh(list) PROVE FALSE
    <3>1. Cache(accounts) /\ accounts' = ReplaceWith(accounts, list)
      BY <2>2 DEF IInv, Refresh
    <3>2. j \in ListedIDs(list)
      <4>1. accounts' = Refreshed(accounts, list)
        BY <2>2, ReplaceWithIsRefreshed DEF IInv, Refresh
      <4> QED BY <4>1 DEF Refreshed, Matches
    <3>3. accounts'[j].alias = accounts[j].alias
      BY <3>1, <3>2, RefreshKeeps
    <3> QED BY <2>1, <3>3
  <2>3. ASSUME NEW s \in Typed, NEW a \in Typed, Alias(s, a) PROVE FALSE
    <3>1. PICK k \in Matches(accounts, s) :
             accounts' = [accounts EXCEPT ![k].alias = a] /\ nick' = Nicknamed(k, a)
      BY <2>3 DEF Alias
    <3>2. \A h \in DOMAIN accounts \ {k} : accounts'[h] = accounts[h]
      BY <3>1 DEF IInv, Cache
    <3>3. j = k /\ accounts'[j].alias = a /\ DOMAIN accounts' = DOMAIN accounts
      BY <2>1, <3>1, <3>2 DEF IInv, Cache, Account
    <3>4. nick[i] # a
      BY <3>1, <3>3 DEF Nicknamed
    <3> QED BY <3>3, <3>4 DEF Matches, IsNameMatch
  <2>4. ASSUME NEW s \in Typed, Unalias(s) PROVE FALSE
    <3>1. PICK k \in Matches(accounts, s) :
             accounts' = [accounts EXCEPT ![k].alias = Empty]
      BY <2>4 DEF Unalias
    <3>2. \A h \in DOMAIN accounts \ {k} : accounts'[h] = accounts[h]
      BY <3>1 DEF IInv, Cache
    <3>3. j = k /\ accounts'[j].alias = Empty /\ DOMAIN accounts' = DOMAIN accounts
      BY <2>1, <3>1, <3>2 DEF IInv, Cache, Account
    <3>4. nick[i] # Empty
      BY DEF IInv, NickIsAlias
    <3> QED BY <3>3, <3>4 DEF Matches, IsNameMatch
  <2>5. ASSUME NEW s \in Typed, NEW hasRole \in BOOLEAN, Get(s, hasRole) PROVE FALSE
    <3>1. PICK k \in Matches(accounts, Wanted(s)) :
             accounts' = [accounts EXCEPT ![k].hasRole = TRUE]
      BY <2>5 DEF Get
    <3>2. \A h \in DOMAIN accounts : accounts'[h].alias = accounts[h].alias
      BY <3>1 DEF IInv, Cache, Account
    <3> QED BY <2>1, <3>2
  <2>6. ASSUME NEW s \in Typed, GetBypass(s) PROVE FALSE
    BY <2>1, <2>6 DEF GetBypass
  <2> QED BY <2>2, <2>3, <2>4, <2>5, <2>6 DEF Next
<1> QED BY Invariant, <1>1, PTL DEF Spec, ClashesComeFromTheList
=============================================================================
