--------------------------- MODULE GetCredentials ---------------------------
(***************************************************************************)
(* `keyconjurer get` (command/get.go:52-212), as a user gives it in one    *)
(* shell, again and again: it prints credentials for an account and a      *)
(* role, those in the shell's environment if they will do, or new ones,    *)
(* which take a session from the keychain, an assertion from Okta and a    *)
(* call of AWS.  With --login it may send the user to the browser on the   *)
(* way; of that this module has only the outcome, which Login.tla proves:  *)
(* a session of the attempt's own in the keychain, or nothing.             *)
(*                                                                         *)
(* The clock ticks between any two steps.  Meanwhile other terminals log   *)
(* in, the keychain's entry may be removed, and `get` may be interrupted.  *)
(* How config.json is loaded and saved is in ConfigStore.tla, and how a    *)
(* text becomes an account in Accounts.tla; here an account is its id.     *)
(***************************************************************************)
EXTENDS Integers

CONSTANTS
    Ids,        \* Okta application ids
    Cached,     \* the ids in the account cache
    Roles,      \* names of roles, the ones that do not exist included
    RolesOf,    \* the roles an application's assertion offers the user
    None,       \* null, "", no entry, no variables
    Lines,      \* the command lines the user gives
    Settings,   \* what `set ttl` and `set time-remaining` have left behind
    DefaultTimeRemaining,   \* consts.go:21
    Hour,       \* 3600 seconds, in units of the clock
    Half,       \* 2^31: an int32 is at least -Half and less than Half
    MinDuration, MaxDuration,   \* what AWS accepts for a lifetime
    SessionLife,    \* how long a session of Okta lasts
    MaxTime     \* bounds the clock

\* `get arg` with the values of its flags.
CommandLine ==
    [arg : Ids \cup {None}, role : Roles \cup {None}, login : BOOLEAN,
     bypass : BOOLEAN, ttl : Nat, remaining : Nat]

Sessions == Nat \cup {None}

\* CloudCredentials.  The role is history: the program does not know it of
\* those it finds in the environment.
Credentials == [account : Ids, role : Roles, until : Nat]

\* The part of Config that get looks at.  Decode makes a ttl of 0 a 1.
Config == [ttl : Nat \ {0}, remaining : Nat,
           last : Ids \cup {None}, roles : [Cached -> Roles \cup {None}]]

\* GetCommand once Execute knows the account and the role.
Requests ==
    [id : Ids, role : Roles, cached : BOOLEAN, login : BOOLEAN,
     ttl : Nat, remaining : Nat]

ASSUME GetAssumption ==
    /\ Cached \subseteq Ids
    /\ RolesOf \in [Ids -> SUBSET Roles]
    /\ None \notin Ids \cup Roles \cup Nat \cup Credentials \cup Requests
    /\ Lines \subseteq CommandLine
    /\ Settings \subseteq [ttl : Nat \ {0}, remaining : Nat]
    /\ DefaultTimeRemaining \in Nat
    /\ Hour \in Nat /\ Half \in Nat \ {0}
    /\ MinDuration \in Nat /\ MaxDuration \in Nat
    /\ SessionLife \in Nat /\ MaxTime \in Nat

VARIABLES
    now,        \* the clock
    keychain,   \* the end of the session in the keychain; None also for junk
    env,        \* the credentials in the environment of the shell
    config,     \* what config.json says
    pc,         \* where the command stands
    req,        \* what the command is to get
    began,      \* when it asked the environment
    tok,        \* the session it took from the keychain
    creds,      \* newCredentials, then credentials
    fetched,    \* history: creds are new ones
    loggedIn,   \* the login has been run
    served      \* history: the accounts and roles credentials were printed for

vars == <<now, keychain, env, config, pc, req, began, tok, creds, fetched,
          loggedIn, served>>

command == <<pc, req, began, tok, creds, fetched, loggedIn>>

Steps == {"idle", "token", "login", "exchange", "assume", "echo", "save"}

Init ==
    /\ now = 0
    /\ keychain \in {None, SessionLife}
    /\ env = None
    /\ \E s \in Settings :
          config = [ttl |-> s.ttl, remaining |-> s.remaining,
                    last |-> None, roles |-> [i \in Cached |-> None]]
    /\ pc = "idle" /\ req = None /\ began = 0
    /\ tok = None /\ creds = None
    /\ fetched = FALSE /\ loggedIn = FALSE
    /\ served = {}

----------------------------------------------------------------------------
(* What Execute makes of its arguments                                     *)

\* No argument (the empty one): the account used last.
AccountID(line) == IF line.arg # None THEN line.arg ELSE config.last

\* resolveApplicationInfo; with --bypass-cache any text is an account.
Resolves(line) ==
    AccountID(line) # None /\ (line.bypass \/ AccountID(line) \in Cached)

\* No --role: the role the account in the cache was used with last.  One made
\* for --bypass-cache has none.
RoleName(line) ==
    CASE line.role # None -> line.role
      [] line.role = None /\ ~line.bypass -> config.roles[AccountID(line)]
      [] line.role = None /\ line.bypass -> None

\* The setting replaces the default of the flag, or the default typed out.
TimeRemaining(flag) ==
    IF config.remaining # 0 /\ flag = DefaultTimeRemaining
    THEN config.remaining ELSE flag

\* ValidUntil
ValidUntil(c, id, dur) == c # None /\ c.account = id /\ c.until > now + dur

\* Execute up to the first exchange.  A command with no account, an unknown
\* one or no role ends here and leaves everything as it is.
Begin(line) ==
    /\ pc = "idle"
    /\ Resolves(line) /\ RoleName(line) # None
    /\ LET id == AccountID(line)
           reuse == ValidUntil(env, id, TimeRemaining(line.remaining))
       IN /\ req' = [id |-> id, role |-> RoleName(line), cached |-> ~line.bypass,
                     login |-> line.login, ttl |-> line.ttl,
                     remaining |-> line.remaining]
          /\ creds' = IF reuse THEN env ELSE None
          /\ pc' = IF reuse THEN "echo" ELSE "token"
    /\ began' = now
    /\ UNCHANGED <<now, keychain, env, config, tok, fetched, loggedIn, served>>

----------------------------------------------------------------------------
(* fetchNewCredentials                                                     *)

\* The command ends, and with it what it knew.
End ==
    /\ pc' = "idle" /\ req' = None /\ began' = 0
    /\ tok' = None /\ creds' = None
    /\ fetched' = FALSE /\ loggedIn' = FALSE

\* keychainTokenSource.Token for an entry that may not be there.
ReadToken_Unchecked ==
    /\ pc = "token"
    /\ tok' = keychain
    /\ pc' = "exchange"
    /\ UNCHANGED <<now, keychain, env, config, req, began, creds, fetched,
                   loggedIn, served>>

\* keychainTokenSource.Token
ReadToken ==
    /\ pc = "token" /\ keychain # None
    /\ tok' = keychain
    /\ pc' = "exchange"
    /\ UNCHANGED <<now, keychain, env, config, req, began, creds, fetched,
                   loggedIn, served>>

\* A login for as long as the tokens are absent.
NoToken_Again ==
    /\ pc = "token" /\ keychain = None /\ req.login
    /\ pc' = "login"
    /\ UNCHANGED <<now, keychain, env, config, req, began, tok, creds, fetched,
                   loggedIn, served>>

\* ErrTokensExpiredOrAbsent with --login: the login command runs, once.
NoToken ==
    /\ pc = "token" /\ keychain = None /\ req.login /\ ~loggedIn
    /\ pc' = "login"
    /\ UNCHANGED <<now, keychain, env, config, req, began, tok, creds, fetched,
                   loggedIn, served>>

\* loginCommand.Execute returns nil, and fetchNewCredentials starts again.
LoginSucceeds ==
    /\ pc = "login"
    /\ keychain' = now + SessionLife
    /\ loggedIn' = TRUE
    /\ pc' = "token"
    /\ UNCHANGED <<now, env, config, req, began, tok, creds, fetched, served>>

\* ExchangeAccessToken and GetSAMLAssertion: Okta answers with an assertion
\* only for a session that has not ended.
OktaAsserts == tok > now

\* findRoleInSAML: the assertion offers the role.
RoleIsOffered == req.role \in RolesOf[req.id]

\* The exchange without the check of what findRoleInSAML found.
Exchange_AnyRole ==
    /\ pc = "exchange"
    /\ OktaAsserts
    /\ tok' = None
    /\ pc' = "assume"
    /\ UNCHANGED <<now, keychain, env, config, req, began, creds, fetched,
                   loggedIn, served>>

\* DiscoverConfigAndExchangeTokenForAssertion and findRoleInSAML
Exchange ==
    /\ pc = "exchange"
    /\ OktaAsserts /\ RoleIsOffered
    /\ tok' = None
    /\ pc' = "assume"
    /\ UNCHANGED <<now, keychain, env, config, req, began, creds, fetched,
                   loggedIn, served>>

\* The setting replaces the default of the flag, or the default typed out.
TimeToLive(flag) == IF flag = 1 /\ config.ttl # 0 THEN config.ttl ELSE flag

\* int32(3600 * TimeToLive)
Seconds(hours) == ((Hour * hours + Half) % (2 * Half)) - Half

\* AssumeRoleWithSAML
AssumeRole ==
    /\ pc = "assume"
    /\ LET seconds == Seconds(TimeToLive(req.ttl))
       IN /\ MinDuration <= seconds /\ seconds <= MaxDuration
          /\ creds' = [account |-> req.id, role |-> req.role, until |-> now + seconds]
    /\ fetched' = TRUE
    /\ pc' = "echo"
    /\ UNCHANGED <<now, keychain, env, config, req, began, tok, loggedIn, served>>

----------------------------------------------------------------------------
(* The end of the command                                                  *)

\* echoCredentials; the user may have the shell take the variables.  Served is
\* what was handed to the standard output: its errors are not looked at, and a
\* reader that is gone does not stop the command.
Echo ==
    /\ pc = "echo"
    /\ env' \in {env, creds}
    /\ served' = served \cup {<<req.id, req.role>>}
    /\ pc' = "save"
    /\ UNCHANGED <<now, keychain, config, req, began, tok, creds, fetched, loggedIn>>

\* As Noted, with an account made for --bypass-cache taken for that of the cache.
Noted_AnyAccount ==
    [config EXCEPT !.last = req.id,
        !.roles = [i \in Cached |-> IF i = req.id THEN req.role ELSE @[i]]]

\* What Execute noted in the *Config: the role in the account, unless that is
\* one made for --bypass-cache, and the account used last.
Noted ==
    [config EXCEPT !.last = req.id,
        !.roles = [i \in Cached |-> IF req.cached /\ i = req.id THEN req.role ELSE @[i]]]

\* PersistentPostRunE
Save ==
    /\ pc = "save"
    /\ config' = Noted
    /\ End
    /\ UNCHANGED <<now, keychain, env, served>>

\* What failed is reported, and what was noted is saved.
Fail_Saves ==
    /\ pc # "idle"
    /\ config' = IF pc = "echo" THEN Noted ELSE config
    /\ End
    /\ UNCHANGED <<now, keychain, env, served>>

\* Any step may return an error: the deadline of the command has passed
\* (root.go:75), Okta or AWS refuses or does not answer, the keychain is
\* locked, the login fails, the AWS credentials file cannot be written.  Or the
\* command is interrupted.  Nothing is saved.
Fail ==
    /\ pc # "idle"
    /\ End
    /\ UNCHANGED <<now, keychain, env, config, served>>

Command ==
    \/ ReadToken \/ NoToken \/ LoginSucceeds \/ Exchange \/ AssumeRole
    \/ Echo \/ Save \/ Fail

----------------------------------------------------------------------------
(* The surroundings                                                        *)

Tick ==
    /\ now < MaxTime
    /\ now' = now + 1
    /\ UNCHANGED <<keychain, env, config, command, served>>

\* Another terminal logs in, or the entry is removed.
KeychainChanges ==
    /\ keychain' \in {None, now + SessionLife}
    /\ UNCHANGED <<now, env, config, command, served>>

\* The user clears the variables.
ClearEnvironment ==
    /\ pc = "idle"
    /\ env' = None
    /\ UNCHANGED <<now, keychain, config, command, served>>

Next ==
    \/ \E line \in Lines : Begin(line)
    \/ Command
    \/ Tick \/ KeychainChanges \/ ClearEnvironment

Spec == Init /\ [][Next]_vars

\* The program goes on with what it began: a request to Okta or AWS ends, with
\* an error at the latest when the command's deadline passes, and what it prints
\* is taken.  The keychain and, in the login, the browser are called without a
\* context: that they return is not assumed.
FairSpec == Spec /\ WF_vars(pc \notin {"token", "login"} /\ Command)

----------------------------------------------------------------------------
(* Properties                                                              *)

\* Every variable has its type, and a command has what its step needs.
TypeOK ==
    /\ now \in 0..MaxTime
    /\ keychain \in Sessions
    /\ env \in Credentials \cup {None}
    /\ config \in Config
    /\ pc \in Steps
    /\ req \in Requests \cup {None} /\ (req = None <=> pc = "idle")
    /\ began \in 0..now
    /\ tok \in Sessions /\ (pc = "exchange" <=> tok # None)
    /\ creds \in Credentials \cup {None} /\ (pc \in {"echo", "save"} => creds # None)
    /\ fetched \in BOOLEAN /\ loggedIn \in BOOLEAN
    /\ served \subseteq Ids \X Roles

\* The lifetime in hours that the user asked for: --ttl, or what was set.
HoursAsked == IF req.ttl # 1 THEN req.ttl ELSE config.ttl

\* How long old credentials are to last, by the flag or by what was set.
RemainingAsked ==
    IF req.remaining = DefaultTimeRemaining /\ config.remaining > 0
    THEN config.remaining ELSE req.remaining

\* New credentials that are printed are for the account and the role of the
\* command, after a login in its middle too, and last the hours asked for: no
\* longer, and no shorter unless the 32 bits of the request do not hold them
\* (get.go:170-211).
NewAreWhatWasAsked ==
    pc = "save" /\ fetched =>
        /\ creds.account = req.id
        /\ creds.role = req.role /\ req.role \in RolesOf[req.id]
        /\ creds.until <= now + Hour * HoursAsked
        /\ Hour * HoursAsked < Half => creds.until >= began + Hour * HoursAsked

\* A role is remembered for an account, and an account as the one used last,
\* only if credentials for them were handed to the standard output, or saved in
\* the AWS credentials file: what fails or is interrupted on
\* the way is not what a later `get` with fewer arguments goes by
\* (get.go:126-132, 162-166, root.go:79).
RememberedWereServed ==
    /\ \A i \in Cached : config.roles[i] # None => <<i, config.roles[i]>> \in served
    /\ config.last # None => \E r \in Roles : <<config.last, r>> \in served

\* Every `get` ends, however often the keychain's entry vanishes: it logs in
\* once at most (get.go:141-157), and goes on for ever neither with new logins
\* nor between them.  Only a read of the keychain, or a login, that never returns
\* keeps it.
CommandEnds ==
    \/ pc # "idle" ~> pc = "idle"
    \/ <>[](pc = "token")
    \/ <>[](pc = "login")

\* The abstract view of a command.
Phase == IF pc = "idle" THEN "idle" ELSE IF pc = "save" THEN "printed" ELSE "asked"

AskedFor ==
    IF pc = "idle" THEN None
    ELSE [id |-> req.id, role |-> req.role, cached |-> req.cached,
          hours |-> HoursAsked, remaining |-> RemainingAsked, since |-> began]

Promise == INSTANCE GetPromise
           WITH phase <- Phase, asked <- AskedFor,
                printed <- IF pc = "save" THEN creds ELSE None,
                last <- config.last, roles <- config.roles

\* To its user a `get`, whatever it goes through for it, prints once, what is good
\* for what it was asked, or gives up; it notes nothing that it has not printed,
\* and nothing for an account that is not in the cache (get.go:110-169).
KeepsPromise == Promise!Spec

\* "The name of the role to assume." (get.go:41): credentials that are printed
\* are for the role of the command.
PrintedHaveRole == pc = "save" => creds.role = req.role
=============================================================================
