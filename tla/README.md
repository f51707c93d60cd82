# KeyConjurer in TLA+

KeyConjurer is a command line program that signs a user in to Okta, keeps a
cache of the AWS accounts the user may enter, and fetches temporary AWS
credentials for them. A small web service lists the accounts. This directory
holds TLA+ models of the program, the configurations that check them with TLC,
and proofs of their main properties for TLAPS. Paths and line numbers refer to
the repository's root; `login.go:77` is short for `command/login.go:77` where
the file name is unique.

    tlc -workers 2 -config MCLogin.cfg MCLogin
    tlapm Login_proofs.tla

## The system

Every command is a process of its own. What outlives a process, and what two
processes share, is the configuration file, the system keychain, the AWS
credentials file, the callback ports on the loopback address, and the user's
browser.

| Component | State | Operations | Interacts through |
|---|---|---|---|
| Login command (`login.go`, `pkg/oauth2cli`) | port bound, state, verifier, job channel, one goroutine per HTTP request | `Execute`, `findFirstFreePort`, `HandlePendingSession`, `Wait`, `Close`, `ServeHTTP` | loopback ports, browser, Okta, keychain |
| Configuration file (`root.go`, `config.go`, `set.go`) | `config.json`; a `*Config` in each command | `loadConfig`, `saveConfig`, `Encode`, `Decode`, `set` | the file |
| Account cache (`config.go`, `accounts.go`, `alias.go`, `unalias.go`) | accounts by id, account used last | `Resolve`, `Alias`, `Unalias`, `ReplaceWith`, `generateDefaultAlias` | `Config`, the applications API |
| Get command (`get.go`, `credentials.go`) | none of its own | `Execute`, `fetchNewCredentials`, `echoCredentials` | cache, keychain, Okta, STS, environment |
| Session in the keychain (`keychain*.go`) | one entry | get, put | system keychain |
| Okta web SSO (`internal/oktawebsso`) | none | token exchange, `GetSAMLAssertion`, `FindFirstForm`, `collectFormValues`, `walkInner` | Okta |
| Roles (`roles.go`) | none | `getARN`, `findRoleInSAML`, `listRoles` | SAML response |
| AWS credentials file (`awsconfig.go`) | `~/.aws/credentials` | `TouchFile`, `SaveCloudCredentialInCLI`, `saveCredentialEntry` | the file, which the AWS CLI reads |
| Switch command (`switch.go`) | none | `Validate`, `Execute`, `getAWSCredentials` | STS, output |
| Shell output (`credentials.go`) | none | `getShellType`, `WriteFormat` | standard output |
| Errors and exit codes (`error.go`, `main.go`) | none | `GetExitCode`, `tryParseTimeToLiveError`, `main` | all commands |
| Applications API (`internal/api`, `accounts.go`) | the account cache of its client | `Handle`, `UserInfo`, `ListApplicationsForUser`, `ServeJSON`, `ServeJSONError`, `refreshAccounts` | Okta, load balancer |
| Logging, frontend | none | output | - |

What is hard about it, component by component:

* **Login.** A server goroutine per request, an unbuffered channel that carries
  one job, a second channel for its result, two `select`s with a deadline, a
  `Close` that makes receivers get a zero job, exchanges that outlive the
  command, several logins over the same ports and the same browser. It is
  correct if an attempt ends unless a call that has no deadline keeps it, returns
  only its own session, and leaves the keychain as it was if it fails.
* **Configuration file.** Read at the start and written at the end of *every*
  command, with neither lock nor rename; commands overlap (a `get` may wait for
  the browser for minutes), fail and are interrupted. It is correct if commands
  given one after the other behave like steps of a register, and if the damage
  that overlaps and crashes do is no more than the design admits.
* **Account cache.** Four ways to name an account and a map in no order: the
  same text may call several accounts. It is correct if a refresh keeps what
  the user made of an account and gives it to no other, and if a nickname keeps
  its meaning.
* **Get command.** Credentials reused from the environment, a login in the
  middle and a retry, a lifetime computed in 32 bits, a clock that goes on and
  sessions that end meanwhile, failures after the account was noted. It is
  correct if what it prints is for what was asked and lasts as long, and if it
  remembers only what it served.
* **Applications API.** Early returns with a named error result, so that what is
  reported is not what was written; a missing `return`; an upstream call in pages
  of which any may fail, while an administrator changes the list; a client that
  gives up while its handler goes on. It is correct if the account cache is only
  ever replaced by a complete list, and if every invocation returns.
* **AWS credentials file.** Read and rewritten with no lock, like `config.json`,
  but as an ini file, of which any half may still be read; three keys that are
  useless or worse apart; readers that are other programs. It is correct if the
  keys of a profile belong together, a save keeps the other profiles, and exit
  status 0 of a command that knew what to get means that the credentials are there.
* **Form walk and roles.** A recursion that must stop at every depth at once; ARNs
  in either order; indices into text that may not be there. They are correct if
  the assertion is that of the first form, and if what `roles` prints is what `get`
  takes.

`PROJECT.json` lists each such hazard at its line with the properties that would
catch it.

## Modules

| Module | What it is |
|---|---|
| `LoginPromise` | what `keyconjurer login` promises its user |
| `Login` | the login command and its callback server; implements `LoginPromise` |
| `Login_proofs` | six theorems about `Login` |
| `MCLogin` + `MCLogin.cfg`, `MCLoginLive.cfg`, `MCLoginReceiver.cfg`, `MCLoginState.cfg` | its runs |
| `ConfigRegister` | the configuration as a register |
| `ConfigStore` | how commands load, change and save `config.json`; implements `ConfigRegister` while commands do not overlap |
| `ConfigStore_proofs` | four theorems about `ConfigStore` |
| `MCConfigStore` + `MCConfigStore.cfg`, `MCConfigStoreAlias.cfg` | its runs |
| `Accounts` | the account cache and what the commands do to it |
| `Accounts_proofs` | six theorems about `Accounts` |
| `MCAccounts` + `MCAccounts.cfg`, `MCAccountsNickname.cfg` | its runs |
| `GetPromise` | what `keyconjurer get` promises its user |
| `GetCredentials` | the `get` command, given again and again in one shell; implements `GetPromise` |
| `GetCredentials_proofs` | four theorems about `GetCredentials` |
| `SAMLAssertion` | pure: the assertion in Okta's page, the roles in the assertion |
| `GetRoles` | `GetCredentials` composed with `SAMLAssertion` |
| `GetRoles_proofs` | three theorems about `GetRoles` and `SAMLAssertion` |
| `MCGetCredentials` + `MCGetCredentials.cfg`, `MCGetCredentialsRole.cfg` | the runs of `GetRoles` |
| `ListingPromise` | what `keyconjurer accounts` promises of the account cache |
| `ApplicationsApi` | the handler, Okta's pages, the load balancer and the client; implements `ListingPromise` |
| `ApplicationsApi_proofs` | two theorems about `ApplicationsApi` |
| `MCApplicationsApi` + `MCApplicationsApi.cfg` | its run |
| `ProfileRegister` | the AWS credentials file as a register for each profile |
| `CredentialsFile` | how `get` and `switch` hand out credentials, and with what exit status; implements `ProfileRegister` while saves do not overlap |
| `CredentialsFile_proofs` | five theorems about `CredentialsFile` |
| `MCCredentialsFile` + `MCCredentialsFile.cfg` | its run |
| `NumberLemmas` | least and greatest elements of sets of numbers, for the proofs |

Operators with a suffix, such as `TakeJob_StillOffered`, are not part of a
specification: each is the definition after it with a plausible mistake, and a
run with the mistake in place violates the property it is listed with in
`PROJECT.json`.

### Login

`Logins` are attempts, each a process; `Conns` are requests in flight, each a
goroutine that belongs to the attempt whose server accepted it.

| Variables | Code |
|---|---|
| `phase[l]` | where `Execute` stands: `start` (before and in `findFirstFreePort`), `opening` (serving, in the call that shows the URL), `offer` and `await` (the two `select`s of `Wait`), `returned` (before the deferred `Close`), `closed` (jobs channel closed, socket still open), `stored`, `failed` |
| `tried[l]`, `port[l]` | the loop of `findFirstFreePort` and the port it got |
| `expired[l]` | the context of the command is done (`root.go:75`) |
| `token[l]` | what `Wait` returned |
| `pc[c]` | where `ServeHTTP` stands: its `select`, `Verify`, `Exchange`, the deferred send |
| `to[c]`, `req[c]`, `job[c]`, `res[c]` | the server, the form values, the job received (`None` is the zero job of a closed channel) and the result |
| `tabs`, `redeemed`, `keychain` | the browser, Okta's memory of codes, the keychain |
| `exited` | processes that have ended |

`ShowURL` is what the browser or the console does in that call, and `OfferJob` its return, so
that an attempt whose URL is out may still be interrupted, or stay in the call. A session is one value: `l` stands for the state parameter, the verifier, the
code and the token of attempt `l`. The rendezvous on `h.jobs` is one action of
both sides (`TakeJob`), as is the one on the result channel (`Send`); a branch
of a `select` that is ready together with another is a disjunct of its own.
`EndRequests` clears what a goroutine knew, so that states do not differ in what
is dead. Requests are what a browser can send: the redirect of any attempt whose
URL names the port, whoever listens there by now, a refusal by Okta, and a
request with no parameters.

The browser and Okta are not in the repository. Okta is assumed to exchange a
code once and only for the verifier its challenge was made of (`OktaAccepts`);
the property `OwnToken` rests on that, since the program compares the state of a
request with itself.

Abstracted: the provider discovery and the locked keychain are one failure
(`CannotBegin`); what the browser is shown is left out; the client's closing of
the connection after the `select` is a failing exchange.

### ConfigStore

A command goes `idle`, `reading`, `running`, `saving`, `truncated`, `done`, or
`failed` from anywhere. `file` is the file's content: a configuration, `Empty`,
`Torn` (not a JSON value), or `Absent`. Reading takes two steps, the first bytes
(`Open`) and the rest (`Load`, `LoadFails`), so that a save can come between;
what `Decode` then gets is the value, an error, or a mixture of members of two
values (`HalfRead`). Saving takes two steps, the truncation by `os.Create`
(`Create`) and the single `Write` of the encoder. `WriteFails` leaves any prefix.
The members of `Config` are values that tell who set them; `Commands` lists
which members each kind of command changes. `broken`, `beside` and `after` are
history variables: which saves were cut short, which commands each one ran
alongside, and which began or ended a save after each one was done. A command has
`overlapped` if it ran alongside any.

Abstracted: a longer value left behind a shorter one, after two saves that
interleave, is not visible to `Decode`, which stops at the end of the first
JSON value.

### Accounts

Each command is one step, since `ConfigStore` deals with how they interleave.
`Resolve` returns any account that matches. A text is a record of what matching
looks at: a leading `AWS - `, its words, capitals, spaces; `EqualFold`,
`NormalizeName` and `DefaultAlias` are functions on these records, so that
"AWS - Foo Bar", "foo bar" and "foo-bar" relate as in the code. `used` and
`nick` are history variables. The server's list may name an application twice
and two applications alike.

### GetCredentials

One shell, whose user gives one `get` after another with any of `Lines`.

| Variables | Code |
|---|---|
| `now` | the clock that `time.Now`, Okta and AWS share |
| `keychain` | the entry, as the time its session ends; `None` for a missing or malformed one |
| `env` | the variables that `LoadAWSCredentialsFromEnvironment` reads; after `Echo` the shell may have taken the printed ones |
| `config` | the settings, the account used last and the role each cached account was used with last |
| `pc` | `idle`, `token` (before the keychain is read), `login` (the login in the middle), `exchange` (Okta), `assume` (AWS), `echo`, `save` (before `PersistentPostRunE`) |
| `req`, `began` | the `GetCommand` with its account and role, and when it looked at the environment |
| `tok`, `creds`, `loggedIn` | what `fetchNewCredentials` holds, and whether the login has run |
| `fetched`, `served` | history: whether `creds` are new, and for what credentials were printed |

`Begin` is `Execute` up to the first exchange; a command line that `Execute`
refuses changes nothing and is no step. `Fail` is every error return and every
interruption, of any step. The login is one step with two outcomes, those that
`LoginPromise` leaves: a session in the keychain, or a failure; another terminal
may log in, or the entry vanish, at any moment (`KeychainChanges`). Okta and AWS are
external: a session must not have ended, the role must be among those the
assertion offers, the lifetime must be in AWS's range. The lifetime itself is
computed as in the code, with the wrap of `int32`.

To its user the command is `GetPromise`: `idle` until it is given, `asked` until it prints, `printed`
until it ends. Of the request that specification has the account, the role, the hours and the minutes that
count by the settings, whether the account is in the cache, and when it was given (`AskedFor`);
keychain, login, session and assertion are hidden, and so is why a command gives up.

A role in `creds` and `env` is history too: `CloudCredentials` does not record it.
Abstracted: an account is its id, whatever text called it (`Accounts`); the
three calls that make an assertion are one step; loading and saving the
configuration is atomic (`ConfigStore`); the three outputs are one
(`CredentialsFile`). The roles an account offers, `RolesOf`, are a constant here; `GetRoles`
says where they come from.

### SAMLAssertion and GetRoles

`SAMLAssertion` has no variables. A page is a tree given by the parent of each
node, in the order of the document, with what `walkInner` and its walkers look at:
whether a node is a form, one of the two inputs, another element or a text. `Pages`
are all trees of up to `MaxNodes` nodes in which inputs and texts are leaves and no
form is in another, which is what `html.Parse` returns. `walkInner` takes the set of nodes at
which its walker asks to stop and returns those it was given in order; the result
of the inner loop, which ends the outer one, is whether the last node it gave was
of that set. `Round` is one turn of that loop, and the walk is a recursive function over the nodes, not a
`RECURSIVE` operator, so that it can be proved about. `FindFirstForm`, `collectFormValues` and `GetSAMLAssertion` are made of it as in the
code. An ARN is what follows its account number: `role` or `saml-provider` and one or
two segments, since a role may have a path; `Fold` is a segment in lower case.

Two definitions are references and not code: `ReadsFirstForm` says by the order of
the document alone which input the assertion should be, and `ListedIsFound` what `roles`
and `get` should agree on. `Misread` and `Mistaken` are the pages and assertions that fail them.

`GetRoles` adds the values each account offers (`Offered`), assumes that `RolesOf` is
what `findRoleInSAML` finds in them, and states what `get` asks of AWS (`Asked`). Each value
is a role and a provider, in any order; a value without a role makes both commands panic,
which Okta never sends and the model excludes by `Paired`.

### ApplicationsApi

`Calls` are runs of `keyconjurer accounts`, each with the invocation of `Handle` that answers it.

| Variables | Code |
|---|---|
| `held` | what the user has in Okta; `Assign` changes it at any time |
| `cache` | the accounts of `config.json`, as their ids |
| `outcome[c]` | the command: `idle`, `asked` (in `refreshAccounts`), `refreshed`, `kept` |
| `handler[c]` | `at`: `off`, `userinfo`, `listing`, `returned`; `status`: `w.StatusCode`; `links`, `cursor`: the loop of `ListApplicationsForUser`; `user`: whose name the claims gave |
| `reply[c]` | what the load balancer sends: `w`, or 502 when the named result `err` is set |
| `always[c]`, `ever[c]` | history: held all the time, or at some time, since the command asked |

`Page` is one round of the loop: Okta answers with the applications after the cursor in the list
as it is by then. `UserInfo` may lose the name (`serverless_functions.go:56`): then the list of
the empty name is read, any of `Nameless`, and served under the status 500 that is already in `w`.
A failure after the name was decoded leaves the name and the 500. That claims which do decode have a
name is assumed of Okta: the code does not look.
`Fail` is the client's: it takes any reply but a list with status 0 or 200 for an error, and
may end while its handler goes on.

Abstracted: what becomes of nicknames (`Accounts`), the save (`ConfigStore`), the request's
wording, and the settings the function is started with.

### CredentialsFile

Each of `Procs` is one `get` or `switch` with a line of `Lines`, which records too whether a `get` is `known`
to mean some account and role, by the line or by what is remembered; `p` also stands for the keys it obtained.

| Variables | Code |
|---|---|
| `file` | for each profile, its three keys; or `Torn`, a file `ini.Load` refuses |
| `pc[p]` | `idle`, `obtained` (credentials in hand), `reading`, `loaded`, `truncated` (inside `os.WriteFile`), `declined` (no account or role is known) and `delivered`, both before `PersistentPostRunE`, `ended` |
| `seen[p]`, `mem[p]` | the file when its first bytes were read, and the `ini.File` with the keys set |
| `status[p]` | the exit status |
| `broken`, `overlapped` | history: who left a write unfinished, and who was not alone with the file |

`Spliced(a, b)` is what becomes of a file that has the beginning of one text and the
end of another: it cannot be read, or some profiles are of the first, others of the second and
the one at the seam has lost keys of its own. A read that a write interrupts, a write that
fails half way, and a write over another's are all splices; an empty text gives a
file that was cut. `ExitStatus` is what `main` makes of an error.

In `ProfileRegister` a profile has a `holder`, the command whose three keys it has, and a
command is `talking` (another output, or nothing to get: `Declines`, `get.go:118`, `get.go:128`), `saving`, `saved` (before the exit status), `zero` or `failed`. Between
the truncation and the write the register has what the truncating command read (`Held`). A save that is cut
short may lose any profile or the whole file, but gives none to anyone but its own command, which does not end with 0.

Abstracted: the order of profiles, comments and keys of other names; how the credentials were
obtained (`GetCredentials`), and the formatting of those that are printed.

## What the runs check

| Run | Bounds | Shows |
|---|---|---|
| `login` | 2 attempts, 2 requests in flight, 1 free and 1 contested port; 237 000 states | `TypeOK`; `OwnToken`; `OneHolder`; `DroppedOnlyAfterDeadline`; `SkippedPortsWereTaken`; `KeepsPromise`, the refinement |
| `login_live` | 2 attempts, 1 request; 56 000 states, fair | `EndsUnlessInCall`: every attempt ends, or stays in a call of the keychain or the browser |
| `login_result` | as `login` | violated: a result may have no receiver |
| `login_state` | as `login` | violated: the redirect of another attempt, one that was interrupted, is exchanged |
| `config_store` | 3 commands; 1 540 000 states | `TypeOK`; `LostOnlyToOverlap`; `UnreadableForGood`; `AtomicWhenAlone`, the refinement |
| `config_alias` | 2 commands | violated: a command that changes nothing undoes an alias |
| `accounts` | 2 ids, 2 names, 5 texts, lists of up to 2; 14 000 states | `TypeOK`; `ReplaceWithRefreshes`; `NicknameSurvives`; `RoleWasUsed`; `FreshAliasIsUnique`; `ClashesComeFromTheList`, what holds where `accounts_nickname` is violated |
| `accounts_nickname` | as `accounts` | violated: a nickname comes to call a second account |
| `get` | 2 accounts, 1 in the cache; 2 roles; 2 settings; lines with up to 2 flags; pages of up to 4 nodes, assertions of up to 2 values over 3 segments; 481 000 states, fair | `TypeOK`; `NewAreWhatWasAsked`; `RememberedWereServed`; `KeepsPromise`, the refinement; `CommandEnds`; `AssertionOfFirstForm`; `AskedAsOffered`; `PrintedCanBeGot` |
| `get_role` | as `get` | violated: credentials of one role are printed for another |
| `applications` | 2 commands, 3 applications of which 2 are accounts, 1 on a page; 149 000 states, fair | `TypeOK`; `CacheKeepsPromise`, the refinement; `HandlerReturns` |
| `credentials_file` | 2 commands, 2 profiles, 10 command lines; 1 215 000 states | `TypeOK`; `KeysBelongTogether`; `ZeroMeansSaved`; `OtherProfilesKept`; `AtomicWhenAlone`, the refinement |

Two attempts and two requests are enough for every pair to meet: a foreign
redirect, two requests at one server, a request that outlives `Close`, an attempt
that finds the other's port taken or free again. The proofs remove the bound.
Several properties excuse what overlaps or crashes do, because the code does it: `LostOnlyToOverlap` and both
`AtomicWhenAlone` say what is left when commands do not overlap, `KeysBelongTogether` and `ZeroMeansSaved` when saves
do not and none is cut short. The loss itself is shown by `AliasSticks`.
Three commands let two of them interleave while a third starts or ends in any
gap. Two accounts are the fewest that can collide, and lists of two entries the
shortest with a repetition. In `get` the clock has three values, a session lasts
one unit and credentials one or two, so that both can end before, during and after
a command; an hour is one unit and an integer three bits wide, so that
`--ttl 10` wraps to two hours while one and two hours do not; 0, the default and a larger value are on both
sides of every comparison with the time that remains. A page of four nodes is the smallest
in which the walk must stop two loops at once with another form still to come; two values are
the fewest of which the last may win. Three pages of one application let the list change before, at and
after the cursor; an application that is no account shows the filter. Two profiles are one
to change and one to keep, and of two commands one may start at any step of the other; a third would
meet the same file, as the proofs show. Attempts, requests and commands are symmetric; the
liveness run uses no symmetry. `CHECK_DEADLOCK FALSE` is set where the commands
may all have ended; in `Accounts` there is always a next command and deadlock is
checked.

**Fairness.** `Login!Fairness` asks that each attempt keeps taking its own steps (`OwnStep`),
its deadline included, and that a request goroutine does. That is what the Go
scheduler, the clock and the context of `root.go:75` give. It does not ask that a call without a context returns
(`InCall`): the look at the keychain before the port loop, with the discovery that follows it; the call that shows the URL,
where `browser.OpenURL` waits for a child process (`login.go:168`); the put of the session. `EndsUnlessInCall` excuses an
attempt that stays in one of them. Nor does fairness ask that requests arrive, that an
exchange ends, that Okta answers, or that a client ever hangs up: an exchange has
only the context of its request and may hang for ever. `GetCredentials!FairSpec`
asks that a command that has begun goes on, with an error if need be, outside `token`, where it reads the keychain, and `login`,
which may stay in the calls above; `CommandEnds` excuses a command that stays there. Its
other calls have the context with the deadline, and standard output and the local files are assumed to
take what is written. `ApplicationsApi!FairSpec` asks that an invocation goes on, that is that Okta
answers what it is asked, and not that anything fails: `HandlerReturns` must come from
the loop itself, whose cursor only moves on. `CredentialsFile` states no liveness. The clock, other terminals and the user are free.

## What is proved

`Login_proofs`, for any set of attempts, any set of requests and any list of
different ports, from `LoginAssumption`:

* `TypeCorrect`: `TypeOK` is inductive.
* `TokensAreOwn`, `JobsHaveOneHolder`, `NoAnswerDropped`: all three from `JobInv`,
  the inductive invariant. `OwnToken` alone is not inductive: a result on its way
  could be foreign. `JobInv` adds that a result is `None` or the session of the
  attempt whose job the request holds, that a request holds a job only while it
  works on it and for the attempt that serves it, that the job is held once, and
  that the holder's attempt waits for it unless its deadline has passed.
* `NoPortWasted`: from `PortInv`, which says of the loop of `findFirstFreePort`
  that every port it has passed was taken.
* `PromiseIsKept`: with `JobInv`, each step of `Login` is a step of
  `LoginPromise` on the mapped variables or leaves them alone. `Store` is
  `Succeed`, because the token is the attempt's own; `Reject`, `CannotBegin`,
  `NoPortsLeft` and `Interrupt` are `Fail`; every other action is a stutter.

`ConfigStore_proofs`, for any set of commands, from `ConfigAssumption`:

* `TypeCorrect`, with the fact that a running command finds a file.
* `NoRecovery`: a torn file, with no command holding a configuration, stays so.
* `AloneIsAtomic`: from `AloneInv`, which holds while no
  commands have overlapped. One command at most runs, the file has not changed
  since it read it, and what it is about to save is its own change of that. The
  register's value is the file or, between truncation and write, what the
  truncating command had read.
* `LossNeedsOverlap`: from `LossInv`. Take a finished command and a field it set, and suppose that no
  later saver set the field, was cut short or ran alongside the command or another later saver (`Clean`). Then the field
  keeps its value in the file, in what the later savers wrote or will write, and in what any other command has read that
  ran alongside none of them (`Kept`). `BesideInv` has that any two commands that run have each other in `beside`; `AfterInv` that whoever
  truncated the file before the command was done, and has not written yet, ran alongside it.

`Accounts_proofs`, for any ids, names and texts and lists of any length, from `AccountsAssumption`:

* `RefreshReplaces`: `ReplaceWith` is `Refreshed`. `After(accs, list, k)` says what the cache should be after `k`
  rounds of the loop; `OneRound` that a round leads from each to the next. The loop's function equals it because the
  least round at which they differed could be none (`LeastNumber` of `NumberLemmas`, from the library's theory of well-founded
  relations, stands in for an induction).
* `TypeCorrect`, `NicknamesSurvive`, `RolesWereUsed`: from `IInv`, which adds to them that a nickname is the alias of its
  account, and not the empty text. `NicknameSurvives` is not inductive, since an account may answer to a text by a name that a refresh
  changes. `RefreshKeeps` is what they need of a refresh.
* `FreshAliasesAreUnique`: with `TypeOK`, from the step of `Alias`.
* `OnlyTheListClashes`: an account that answers to a text it did not answer to before has a new name or a new
  alias (`MatchesStay`). `Alias` gives one, but with it the nickname passes to that account; `Unalias`
  gives the empty text, which is nobody's nickname.

`GetCredentials_proofs`, for any accounts, roles, command lines, settings,
lifetimes and width of the integer, from `GetAssumption`:

* `TypeCorrect`: `TypeOK` is inductive; that the lifetime is a number needs the
  lemma `WrapShortens` on the remainder.
* `NewAreAsAsked`, `OnlyServedIsRemembered`: from `PrintInv`. The two
  properties speak of a command that is about to save; `PrintInv` carries them
  back to where they are decided: `NewInv` to the assertion that offered the role
  and the request whose wrapped lifetime is never the longer one (`WrapShortens`), nor the shorter one if the
  integer holds it (`NoWrap`), `OldInv` to the look at the environment, `ServedInv` to the printing.
* `PromiseIsKept`: the refinement of `GetPromise`. `Begin` is `Ask`, `Echo` is `HandOut`, `Save` is `Remember`, `Fail`
  is `GiveUp`, and every step between is a stutter. `PrintInv` shows that what is handed out is good, with
  `EnvInv`: old credentials that are about to be printed are still those of the shell.

`GetRoles_proofs`, for pages of any size and assertions of any length over any names,
from `OfferedAssumption`, `AssertionAssumption`
and `GetAssumption`:

* `AssertionIsOfFirstForm`: `Misread` is empty. What a loop of `walkInner` meets is a stretch of the document
  (`Region`): its node, what is below it, and the siblings' part (`RegionSplits`). `LoopRuns` shows
  that the recursive function has a solution at all, for the last `d` nodes of the page for every `d`: the least `d` without
  one could be none. `WalkGives` says what a loop gives: elements of its region in the order of the
  document, none missing unless a stop came before it, nothing after a stop (`InOrder`); the greatest node
  for which that failed would have only loops that are right to rely on, its children's and its
  sibling's. So a stop at any depth ends all loops. `FirstFormIsFound` and `LastInputCounts` follow.
* `PrintedRolesCanBeGot`: `Mistaken` is empty. Both orders of a pair give the same role and provider (`PairOfBoth`),
  and the last of the pairs with a name exists (`GreatestNumber`).
* `AskedForWhatIsOffered`: that, with `PrintInv` of `GetCredentials_proofs`, which carries the role from the
  exchange to the call of AWS.

`ApplicationsApi_proofs`, for any number of commands and applications and any size of a page, from
`ApplicationsAssumption`:

* `TypeCorrect`: `TypeOK` is inductive.
* `PromiseIsKept`: the refinement of `ListingPromise`. Each step maps to a step or a stutter because of `IInv`,
  which has `Sound(c)` for each command. `PagesAreComplete` is the core: what has been read contains every
  application up to the cursor that was held all the time, and nothing that never was. `LostNameShows` is why
  the list of the empty name never gets into the cache: a status of 500 goes with it. `ReplyIsComplete`
  carries both to the client. The promise alone is not inductive, as a half-read list shows.

`CredentialsFile_proofs`, for any number of commands and profiles, from `FileAssumption`:

* `TypeCorrect`, which includes the statuses that get out.
* `KeysAreOfOneCommand`, `ZeroIsKept`, `OthersAreKept`: from `IInv`. `SavesAlone` says that a save which has not
  overlapped is the only one; `ReadAlone` that what it read is what the file was until it truncated it, and that it
  has in memory that with its own profile replaced; `SavesIfAsked` that only a command for this output saves; `FileIsTidy` that what it read was tidy too; `SavedStays` that what others saved before is in what
  it read, so that its write brings it back after the truncation; `StatusIsLast` that an unfinished write
  never ends with 0. Of `get` and `switch` that declined nothing is claimed: `Saves` is about a command that knew what to get.
* `SavesAreAtomic`: while no saves have overlapped, each step is one of `ProfileRegister` or a stutter. The write is
  `Save` or `Lose`: by `ReadAlone` what it makes of the file is what the register held with one profile changed, or a splice
  of that with nothing, of which no profile has the keys of another command (`FileIsTidy`). `FileAssumption` has that `Torn` is
  neither a file nor a map of holders, so that the abstract view can tell them apart.

`NumberLemmas` holds no result about the program. It derives from the library's theory of well-founded
relations that a set of numbers has a least element, and a greatest one if it is bounded; every argument above that
would be an induction uses one of the two, since no prover here can instantiate an induction theorem.

Only model-checked: `EndsUnlessInCall`, `CommandEnds` and `HandlerReturns`. Liveness under fairness is out of the prover's
reach. Every other property of a passing run is also a theorem.

## Where code and documentation disagree

Five runs end in a violation; `PROJECT.json` quotes the lines under `findings`.

* `handler.go:75` promises that the result is sent. After the deadline, and for
  a request that took the zero job, it is not, and the goroutine stays.
* `handler.go:93` compares the state of a request with itself. PKCE keeps this
  from returning a foreign session; it does not keep a stale redirect from
  ending the attempt.
* `alias.go:10`: a command that was started before an alias was given, and ends
  after, takes the alias away, whatever the command was for.
* `alias.go:10` again: a refresh may bring an account that answers to a nickname
  that is in use. Nothing but what the server lists does that (`ClashesComeFromTheList`).
* `get.go:41`: "The name of the role to assume." Credentials in the environment
  are printed for whatever role of the account is asked for, and that role is
  remembered, even one the user does not have.

Disagreements that were met and that no run shows, because they are about a status, a text or a
platform that the models leave out or take from the code as it is:

* `docs/decisions/0000-use-better-http-status-codes-in-api.md:12` wants the API to answer with the
  status of what happened. `serverless_functions.go:39` and the returns after it leave the named result `err` set, so that
  lambda drops the 403, 500 or 502 that was written and the load balancer answers 502 of its own; a success
  has status 0 (`json.go`), which the client accepts (`Return`, `JSON`, `Accepted`).
* `switch.go:28` offers `json`, `Validate` permits it, and `switch.go:110` refuses it after the role was assumed
  (`InvalidOutput`).
* `html.go:68`: "until walker returns false", while the loop ends when it returns true (`walkInner`).
* `main.go:28`: `IsWindowsPortAccessError` looks for a `*syscall.Errno`, which no error of package `net` holds, and
  `main.go:60` exits with 1 before the exit code of an error is used (`ExitStatus`).
* `get.go:128` prints "You must specify the --role flag with this command" and returns nil, as `get.go:118` does after
  the usage: the command ends with status 0 and nothing was obtained or saved (`Declines`).
* `get.go:40`: `--time-remaining` "Defaults to 60.", while `DefaultTimeRemaining` is 5 (`consts.go:21`): without the flag
  and the setting, credentials with ten minutes left are reused. What counts in `GetPromise` is the constant.
* `roles.go:85` names a role by the first segment of its ARN, which is a path if the role has one, where
  `get.go:41` has "the name of the role"; of several roles under one path the last is taken.

## Not modelled

* The formatting of variables for three shells and of tables, the wording of errors, logging and
  the frontend: no later step depends on them (`accounts.go:84`, whose test of `json.Unmarshal`
  is inverted, so that the server's message is lost, chooses a wording.)
* The three remote calls of the exchange one by one: they only read, and an error of any
  ends the command alike. Okta, AWS, the browser, the keychain, the load balancer and the libraries
  are external and modelled by what the code expects of them.
* The start of the API (`main` of its two programs, its settings): it keeps no state and runs before
  the first invocation.
* Several shells at once: they share the keychain and the files, which `KeychainChanges`, `ConfigStore`
  and `CredentialsFile` deal with each on its own.

## Plan

1. Done: `Login`, `ConfigStore`, `Accounts`, `GetCredentials`, `ApplicationsApi`, `CredentialsFile`, `SAMLAssertion` and
   `GetRoles`, each with proofs.
2. Next: `Login` and `GetCredentials` composed, with the attempt of `LoginPromise` in place of the one step.
