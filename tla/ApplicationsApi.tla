-------------------------- MODULE ApplicationsApi --------------------------
(***************************************************************************)
(* `keyconjurer accounts` and the function that serves it                  *)
(* (command/accounts.go, internal/api): the command posts its session, the *)
(* handler asks Okta whose it is and page after page of the applications   *)
(* that user has, and answers with those of AWS, which replace the account *)
(* cache.  Several commands run at once, a command may give up while its   *)
(* handler goes on, and applications come and go between two pages.        *)
(*                                                                         *)
(* Applications are numbers, in the order in which Okta lists them.  What  *)
(* becomes of nicknames is in Accounts.tla, and how the cache is saved in  *)
(* ConfigStore.tla; here the cache is the set of its ids.                  *)
(***************************************************************************)
EXTENDS Integers, FiniteSets

CONSTANTS
    Calls,      \* the runs of the command
    Apps,       \* the applications of the organisation
    Aws,        \* those whose AppName is "amazon_aws"
    PageSize,   \* how many applications Okta puts on a page
    Nameless,   \* the lists Okta may have for the empty user name
    None        \* no reply yet

\* ALBTargetGroupResponse: its status, what the body is, and the list, if so.
Responses == [status : Nat, body : {"list", "error"}, apps : SUBSET Aws]

ASSUME ApplicationsAssumption ==
    /\ Apps \subseteq Nat \ {0}
    /\ Aws \subseteq Apps
    /\ PageSize \in Nat \ {0}
    /\ Nameless \subseteq SUBSET Apps
    /\ None \notin Responses

VARIABLES
    held,       \* the applications the user has in Okta
    cache,      \* the applications in the account cache
    outcome,    \* how far each command is
    always,     \* history: held since the command asked, without a break
    ever,       \* history: held at some time since the command asked
    handler,    \* the invocation of Handle for each command
    reply       \* what the load balancer sends back

vars == <<held, cache, outcome, always, ever, handler, reply>>

\* Handle: where it stands, whose name claims.PreferredUsername is,
\* w.StatusCode, the applications so far and how far into the list they go.
Handlers ==
    [at : {"off", "userinfo", "listing", "returned"}, user : {"caller", "nobody"},
     status : Nat, links : SUBSET Apps, cursor : Nat]

NewHandler ==
    [at |-> "off", user |-> "caller", status |-> 0, links |-> {}, cursor |-> 0]

Init ==
    /\ held \in SUBSET Apps
    /\ cache = {}
    /\ outcome = [c \in Calls |-> "idle"]
    /\ always = [c \in Calls |-> {}]
    /\ ever = [c \in Calls |-> {}]
    /\ handler = [c \in Calls |-> NewHandler]
    /\ reply = [c \in Calls |-> None]

----------------------------------------------------------------------------
(* The handler                                                             *)

\* What ServeJSONError leaves in w, and what ServeJSON does: no status.
JSONError(status) == [status |-> status, body |-> "error", apps |-> {}]
JSON(status, data) == [status |-> status, body |-> "list", apps |-> data]

\* lambda.NewHandler: w is sent unless err, the other named result, is set.
\* Then the load balancer answers for the function, and not in JSON.  Nobody
\* waits for the answer to a command that has ended.
Return(c, w, err) ==
    /\ handler' = [handler EXCEPT ![c] = [NewHandler EXCEPT !.at = "returned"]]
    /\ reply' = [reply EXCEPT ![c] =
                    CASE outcome[c] # "asked" -> None
                      [] outcome[c] = "asked" /\ err -> JSONError(502)
                      [] outcome[c] = "asked" /\ ~err -> w]

\* requestTokenSource: no authorization header, or not "Bearer" and a token.
NoBearer(c) ==
    /\ handler[c].at = "userinfo"
    /\ Return(c, JSONError(401), FALSE)
    /\ UNCHANGED <<held, cache, outcome, always, ever>>

\* UserInfo returns an error, because the token is no good or for another
\* reason; 500 is for ErrBadRequest.
Unauthorized(c) ==
    /\ handler[c].at = "userinfo"
    /\ \E status \in {403, 500} : Return(c, JSONError(status), TRUE)
    /\ UNCHANGED <<held, cache, outcome, always, ever>>

\* UserInfo, and Claims: a failure of Claims may come before or after it has
\* decoded the name, leaves its error response in w and ends nothing.  (Okta
\* gives a name with the claims whenever they do decode.)
UserInfo(c) ==
    /\ handler[c].at = "userinfo"
    /\ \E user \in {"caller", "nobody"}, status \in {0, 500} :
          /\ user = "nobody" => status = 500
          /\ handler' = [handler EXCEPT ![c].at = "listing", ![c].user = user,
                                        ![c].status = status]
    /\ UNCHANGED <<held, cache, outcome, always, ever, reply>>

\* What Okta has for the name in the claims.
Listed(c) == IF handler[c].user = "caller" THEN {held} ELSE Nameless

\* The applications in list from the cursor to upto.
Between(list, cursor, upto) == {a \in list : cursor < a /\ a <= upto}

\* Where the page that begins after the cursor ends.
PageEnds(list, cursor) ==
    {a \in Apps :
        /\ cursor < a
        /\ IF Cardinality({b \in list : cursor < b}) > PageSize
           THEN a \in list /\ Cardinality(Between(list, cursor, a)) = PageSize
           ELSE \A b \in list : b <= a}

HasNextPage(list, upto) == \E a \in list : upto < a

\* ServeJSON with every application there is.
Serve_All(c, links) == Return(c, JSON(handler[c].status, links), FALSE)

\* ServeJSON with the accounts among the applications.  With none its body is
\* null, which the client reads as an empty list.
Serve(c, links) == Return(c, JSON(handler[c].status, links \cap Aws), FALSE)

\* A resp of the loop's own: the same page is asked for again.
Continue_SamePage(c, links, upto) ==
    /\ handler' = [handler EXCEPT ![c].links = links]
    /\ UNCHANGED reply

\* The loop of ListApplicationsForUser goes round.
Continue(c, links, upto) ==
    /\ handler' = [handler EXCEPT ![c].links = links, ![c].cursor = upto]
    /\ UNCHANGED reply

\* ListApplicationsForUser, one page: ListAppLinks, or Next for the page that
\* begins after the cursor; after the last one Handle goes on to the end.
Page(c) ==
    /\ handler[c].at = "listing"
    /\ \E list \in Listed(c) : \E upto \in PageEnds(list, handler[c].cursor) :
          LET links == handler[c].links \cup Between(list, handler[c].cursor, upto)
          IN IF HasNextPage(list, upto)
             THEN Continue(c, links, upto)
             ELSE Serve(c, links)
    /\ UNCHANGED <<held, cache, outcome, always, ever>>

\* Of a page that cannot be had, the ones before it are served.
PageFails_Partial(c) ==
    /\ handler[c].at = "listing"
    /\ Serve(c, handler[c].links)
    /\ UNCHANGED <<held, cache, outcome, always, ever>>

\* A page cannot be had: 502, which gets no further than 403 does.
PageFails(c) ==
    /\ handler[c].at = "listing"
    /\ Return(c, JSONError(502), TRUE)
    /\ UNCHANGED <<held, cache, outcome, always, ever>>

Proceed(c) == NoBearer(c) \/ Unauthorized(c) \/ UserInfo(c) \/ Page(c)

Handle(c) == Proceed(c) \/ PageFails(c)

----------------------------------------------------------------------------
(* The command, and Okta                                                   *)

Ends(c, o) ==
    /\ outcome' = [outcome EXCEPT ![c] = o]
    /\ always' = [always EXCEPT ![c] = {}]
    /\ ever' = [ever EXCEPT ![c] = {}]
    /\ reply' = [reply EXCEPT ![c] = None]
    /\ UNCHANGED <<held, handler>>

\* refreshAccounts sends its request, with the session from the keychain.
Ask(c) ==
    /\ outcome[c] = "idle"
    /\ outcome' = [outcome EXCEPT ![c] = "asked"]
    /\ always' = [always EXCEPT ![c] = held]
    /\ ever' = [ever EXCEPT ![c] = held]
    /\ handler' = [handler EXCEPT ![c].at = "userinfo"]
    /\ UNCHANGED <<held, cache, reply>>

\* The status and the body that refreshAccounts takes for a list.
Accepted(r) == r.status \in {0, 200} /\ r.body = "list"

\* refreshAccounts returns the list, and UpdateAccounts and the save follow.
Refresh(c) ==
    /\ outcome[c] = "asked" /\ reply[c] # None
    /\ Accepted(reply[c])
    /\ cache' = reply[c].apps
    /\ Ends(c, "refreshed")

\* The command fails: the reply is no list, or there is none, because there is
\* no session, the request cannot be sent, the deadline passes or the user
\* interrupts.  The handler knows nothing of it.
Fail(c) ==
    /\ outcome[c] = "asked"
    /\ reply[c] # None => ~Accepted(reply[c])
    /\ UNCHANGED cache
    /\ Ends(c, "kept")

\* An administrator gives the user an application or takes one away.
Assign(a) ==
    /\ held' \in {held \cup {a}, held \ {a}}
    /\ always' = [c \in Calls |-> always[c] \cap held']
    /\ ever' = [c \in Calls |->
                   IF outcome[c] = "asked" THEN ever[c] \cup held' ELSE ever[c]]
    /\ UNCHANGED <<cache, outcome, handler, reply>>

Next ==
    \/ \E c \in Calls : Ask(c) \/ Handle(c) \/ Refresh(c) \/ Fail(c)
    \/ \E a \in Apps : Assign(a)

Spec == Init /\ [][Next]_vars

\* An invocation goes on: what it asks of Okta is answered, though nothing has
\* to fail.
FairSpec == Spec /\ \A c \in Calls : WF_vars(Proceed(c))

----------------------------------------------------------------------------
(* Properties                                                              *)

\* Every variable has its type; lists that are sent and cached hold only
\* accounts of AWS.
TypeOK ==
    /\ held \in SUBSET Apps
    /\ cache \in SUBSET Aws
    /\ outcome \in [Calls -> {"idle", "asked", "refreshed", "kept"}]
    /\ always \in [Calls -> SUBSET Apps]
    /\ ever \in [Calls -> SUBSET Apps]
    /\ handler \in [Calls -> Handlers]
    /\ reply \in [Calls -> Responses \cup {None}]

Promise == INSTANCE ListingPromise

\* The cache is replaced as a whole, by a list that is complete for as long as
\* the user's applications do not change, although it was read page by page
\* while they may, although a page may fail and although the name of the user
\* may be lost on the way, or it stays (serverless_functions.go:39-80,
\* okta.go:29-45, accounts.go:82-94).
CacheKeepsPromise == Promise!Spec

\* Every invocation returns, however often the list changes between pages
\* (okta.go:35-42).
HandlerReturns ==
    \A c \in Calls : handler[c].at \in {"userinfo", "listing"} ~> handler[c].at = "returned"
=============================================================================
