------------------------------ MODULE Accounts ------------------------------
(***************************************************************************)
(* The account cache: accountSet and the parts of Config that use it       *)
(* (command/config.go:16-186, 221-262), and what the commands `accounts`,  *)
(* `alias`, `unalias` and `get` do to it.  How these commands load and save *)
(* the file is in ConfigStore.tla; here each of them is one step.          *)
(*                                                                         *)
(* An account may be called by its id, by its name, by its name without    *)
(* "AWS - " or by its alias, and nothing keeps what calls one account from *)
(* calling another.  Resolve takes the first match in the order in which   *)
(* Go ranges over a map, that is, any.                                     *)
(*                                                                         *)
(* A text is told apart by what the matching looks at: whether it begins   *)
(* with "AWS - ", its words, and whether they have capitals and spaces.    *)
(***************************************************************************)
EXTENDS Naturals, SequencesExt

CONSTANTS
    IDs,        \* Okta application ids, texts of their own
    Names,      \* the names the server gives to applications
    Typed,      \* what users type: ids, names, aliases, the empty text
    Empty,      \* the empty text: no alias, no argument
    MaxEntries, \* bounds the server's list of applications
    None        \* null: no account was used last

Text == [aws : BOOLEAN, words : STRING, capitals : BOOLEAN, spaces : BOOLEAN]

ASSUME AccountsAssumption ==
    /\ IDs \cup Names \cup Typed \subseteq Text
    /\ Empty \in Typed \ (IDs \cup Names)
    /\ MaxEntries \in Nat
    /\ None \notin Text

VARIABLES
    accounts,   \* Config.Accounts: from the ids that are there to accounts
    lastUsed,   \* Config.LastUsedAccount
    used,       \* history: the ids of accounts `get` succeeded for
    nick        \* history: the nickname given to an account, while it has it

vars == <<accounts, lastUsed, used, nick>>

\* Role names matter only in that there is one or none.
Account == [name : Names, alias : Text, hasRole : BOOLEAN]

Init ==
    /\ accounts = [i \in {} |-> None]
    /\ lastUsed = None
    /\ used = {}
    /\ nick = [i \in IDs |-> None]

----------------------------------------------------------------------------
(* Names                                                                   *)

NormalizeName(name) == [name EXCEPT !.aws = FALSE]

\* strings.EqualFold
EqualFold(s, t) == [s EXCEPT !.capitals = FALSE] = [t EXCEPT !.capitals = FALSE]

\* generateDefaultAlias: lower case, dashes for spaces.
DefaultAlias(name) ==
    [aws |-> FALSE, words |-> name.words, capitals |-> FALSE, spaces |-> FALSE]

IsNameMatch(acc, s) ==
    EqualFold(acc.name, s) \/ EqualFold(NormalizeName(acc.name), s) \/ acc.alias = s

\* The ids of the accounts that Resolve(s) may return.
Matches(accs, s) == {i \in DOMAIN accs : i = s \/ IsNameMatch(accs[i], s)}

----------------------------------------------------------------------------
(* The server's list                                                       *)

Entries == [id : IDs, name : Names]
Lists == UNION {[1..n -> Entries] : n \in 0..MaxEntries}

ListedIDs(list) == {list[k].id : k \in DOMAIN list}

\* An account as refreshAccounts makes it from an application.
FromEntry(e) == [name |-> e.name, alias |-> DefaultAlias(e.name), hasRole |-> FALSE]

\* All that a refresh changes in an account it knows.
Rename(acc, name) == [acc EXCEPT !.name = name]

\* The loop of ReplaceWith putting the server's account in any case.
Merge_Overwrites(accs, e) ==
    [i \in DOMAIN accs \cup {e.id} |-> IF i = e.id THEN FromEntry(e) ELSE accs[i]]

\* The loop of ReplaceWith leaving an account alone that it knows.
Merge_KeepsName(accs, e) ==
    [i \in DOMAIN accs \cup {e.id} |->
        IF i \in DOMAIN accs THEN accs[i] ELSE FromEntry(e)]

\* The body of the first loop of ReplaceWith: only the name may change.
Merge(accs, e) ==
    [i \in DOMAIN accs \cup {e.id} |->
        CASE i # e.id -> accs[i]
          [] i = e.id /\ i \in DOMAIN accs -> Rename(accs[i], e.name)
          [] OTHER -> FromEntry(e)]

\* ReplaceWith: the first loop, then what is not listed is deleted.
ReplaceWith(accs, list) ==
    LET merged[k \in 0..Len(list)] ==
            IF k = 0 THEN accs ELSE Merge(merged[k - 1], list[k])
    IN [i \in ListedIDs(list) |-> merged[Len(list)][i]]

----------------------------------------------------------------------------
(* The commands                                                            *)

\* `accounts`: the server's list replaces the cache.
Refresh(list) ==
    /\ accounts' = ReplaceWith(accounts, list)
    /\ nick' = [i \in IDs |-> IF i \in ListedIDs(list) THEN nick[i] ELSE None]
    /\ UNCHANGED <<lastUsed, used>>

\* The nicknames after account i got the alias a: i has a, if nothing else
\* answered to a, and nobody else is said to have it alone.
Nicknamed(i, a) ==
    [j \in IDs |->
        CASE j = i -> IF a # Empty /\ Matches(accounts, a) \subseteq {i} THEN a ELSE None
          [] OTHER -> IF nick[j] = a THEN None ELSE nick[j]]

\* `alias` for every account that matches instead of the first.
Alias_All(s, a) ==
    /\ Matches(accounts, s) # {}
    /\ accounts' = [i \in DOMAIN accounts |->
                      IF i \in Matches(accounts, s)
                      THEN [accounts[i] EXCEPT !.alias = a] ELSE accounts[i]]
    /\ \E i \in Matches(accounts, s) : nick' = Nicknamed(i, a)
    /\ UNCHANGED <<lastUsed, used>>

\* `alias s a`: Config.Alias gives the alias to the account Resolve returns.
Alias(s, a) ==
    /\ \E i \in Matches(accounts, s) :
          /\ accounts' = [accounts EXCEPT ![i].alias = a]
          /\ nick' = Nicknamed(i, a)
    /\ UNCHANGED <<lastUsed, used>>

\* `unalias` giving back the alias a refresh would give a new account.
Unalias_Restores(s) ==
    /\ \E i \in Matches(accounts, s) :
          /\ accounts' = [accounts EXCEPT ![i].alias = DefaultAlias(accounts[i].name)]
          /\ nick' = [nick EXCEPT ![i] = None]
    /\ UNCHANGED <<lastUsed, used>>

\* `unalias s`: Config.Unalias.
Unalias(s) ==
    /\ \E i \in Matches(accounts, s) :
          /\ accounts' = [accounts EXCEPT ![i].alias = Empty]
          /\ nick' = [nick EXCEPT ![i] = None]
    /\ UNCHANGED <<lastUsed, used>>

\* What `get s` goes by: its argument or, if that is empty, the account used
\* last.
Wanted(s) == IF s # Empty THEN s ELSE lastUsed

\* `get` looking the account up once more to note the role.
Get_ResolvesAgain(s, hasRole) ==
    /\ Wanted(s) # None
    /\ \E i, j \in Matches(accounts, Wanted(s)) :
          /\ hasRole \/ accounts[i].hasRole
          /\ accounts' = [accounts EXCEPT ![j].hasRole = TRUE]
          /\ used' = used \cup {i}
    /\ lastUsed' = Wanted(s)
    /\ UNCHANGED nick

\* `get s [--role r]` that succeeds: the role is given or is the account's
\* most recent one, and is noted in the account that was resolved.
Get(s, hasRole) ==
    /\ Wanted(s) # None
    /\ \E i \in Matches(accounts, Wanted(s)) :
          /\ hasRole \/ accounts[i].hasRole
          /\ accounts' = [accounts EXCEPT ![i].hasRole = TRUE]
          /\ used' = used \cup {i}
    /\ lastUsed' = Wanted(s)
    /\ UNCHANGED nick

\* `get --bypass-cache` putting the account it makes up into the cache.
GetBypass_Caches(s) ==
    /\ Wanted(s) # None
    /\ accounts' = [i \in DOMAIN accounts \cup {Wanted(s)} |->
                      IF i \in DOMAIN accounts THEN accounts[i]
                      ELSE [name |-> Wanted(s), alias |-> Empty, hasRole |-> TRUE]]
    /\ lastUsed' = Wanted(s)
    /\ UNCHANGED <<used, nick>>

\* `get --bypass-cache s --role r` that succeeds: the account is made up for
\* the occasion and is not in the cache.
GetBypass(s) ==
    /\ Wanted(s) # None
    /\ lastUsed' = Wanted(s)
    /\ UNCHANGED <<accounts, used, nick>>

Next ==
    \/ \E list \in Lists : Refresh(list)
    \/ \E s, a \in Typed : Alias(s, a)
    \/ \E s \in Typed : Unalias(s)
    \/ \E s \in Typed, hasRole \in BOOLEAN : Get(s, hasRole)
    \/ \E s \in Typed : GetBypass(s)

Spec == Init /\ [][Next]_vars

----------------------------------------------------------------------------
(* Properties                                                              *)

\* The cache holds known ids and names, whatever is typed.
TypeOK ==
    /\ DOMAIN accounts \subseteq IDs
    /\ \A i \in DOMAIN accounts : accounts[i] \in Account
    /\ lastUsed \in Typed \cup {None}
    /\ used \subseteq IDs
    /\ nick \in [IDs -> Typed \cup {None}]

\* What a refresh is for, said of the list as a whole: the cache has the
\* listed ids and no other, with the last name the list gives them; what the
\* user has made of an account, its alias and role, stays, and an account
\* that is new is called by the first name the list gives it.
RefreshedAccount(accs, list, i) ==
    LET mine == {k \in DOMAIN list : list[k].id = i}
        old  == IF i \in DOMAIN accs THEN accs[i] ELSE FromEntry(list[Min(mine)])
    IN Rename(old, list[Max(mine)].name)

Refreshed(accs, list) == [i \in ListedIDs(list) |-> RefreshedAccount(accs, list, i)]

\* ReplaceWith, entry by entry and over any cache that can come about, does
\* that, lists that name an application twice included (config.go:146-170).
ReplaceWithRefreshes ==
    \A list \in Lists : ReplaceWith(accounts, list) = Refreshed(accounts, list)

\* A nickname survives every refresh that still lists the account: the account
\* answers to it until it is unaliased or given another one.
NicknameSurvives ==
    \A i \in IDs : nick[i] # None => i \in Matches(accounts, nick[i])

\* A nickname that nothing else answers to becomes the name of exactly one
\* account, however many answer to what it was given to (config.go:229-236).
FreshAliasIsUnique ==
    [][\A i \in IDs :
          nick'[i] \notin {nick[i], None} => Matches(accounts', nick'[i]) = {i}]_vars

\* A nickname that refers to its account alone does so until it is given away, or
\* the server's list brings an account, or a new name for one, that answers to
\* it: no aliasing, unaliasing or use of the others, and no account that stays as
\* it was, can do that (config.go:146-170, config.go:229-245).
ClashesComeFromTheList ==
    [][\A i \in IDs :
          nick[i] # None /\ nick'[i] = nick[i] /\ Matches(accounts, nick[i]) = {i} =>
              \A j \in Matches(accounts', nick[i]) \ {i} :
                  j \notin DOMAIN accounts \/ accounts'[j].name # accounts[j].name]_vars

\* An account has a most recent role only if `get` once succeeded for it and
\* not merely for one that answers to the same text: the role is what the next
\* `get` for that account goes by (get.go:121-164).
RoleWasUsed ==
    \A i \in DOMAIN accounts : accounts[i].hasRole => i \in used

\* "Alias an account to a nickname so you can refer to the account by the
\* nickname." (alias.go:10)  A nickname that was free when it was given, and
\* given to no other account since, refers to its account and to no other.
NicknameRefersToItsAccount ==
    \A i \in IDs : nick[i] # None => Matches(accounts, nick[i]) = {i}
=============================================================================
