------------------------------- MODULE Login -------------------------------
(***************************************************************************)
(* `keyconjurer login`: command/login.go, pkg/oauth2cli/handler.go and the *)
(* half of pkg/oauth2cli/authorizationcode.go that drives them.            *)
(*                                                                         *)
(* A login attempt binds the first free callback port, serves it from one  *)
(* goroutine per HTTP request, shows the user a URL and then hands a single *)
(* job (state, PKCE verifier, result channel) over an unbuffered channel   *)
(* to whichever request asks first.  Several attempts run at once or one   *)
(* after the other, in different terminals, over the same few ports, the   *)
(* same browser and the same keychain.                                     *)
(*                                                                         *)
(* A session is named by the attempt it belongs to: l stands for l's state *)
(* parameter, for l's verifier, for the code Okta issues for l's URL and   *)
(* for the token that code is redeemed for.                                *)
(***************************************************************************)
EXTENDS Naturals, Sequences, FiniteSets

CONSTANTS
    Logins,         \* login attempts, one process each
    Conns,          \* how many HTTP requests may be in flight (a bound)
    CallbackPorts,  \* consts.go:14, tried in this order
    Contested,      \* the ports other programs hold from time to time
    None            \* the zero value: no port, no job, "" or a nil token

PortSet == {CallbackPorts[i] : i \in DOMAIN CallbackPorts}

ASSUME LoginAssumption ==
    /\ None \notin Logins
    /\ CallbackPorts \in Seq(PortSet)
    /\ \A i, j \in DOMAIN CallbackPorts :
          CallbackPorts[i] = CallbackPorts[j] => i = j
    /\ None \notin PortSet
    /\ Contested \subseteq PortSet

VARIABLES
    phase,      \* where each attempt stands in LoginCommand.Execute
    tried,      \* how many ports findFirstFreePort has found taken
    port,       \* the port bound, kept after it is released (the URL names it)
    expired,    \* whether the command's context is past its deadline
    token,      \* the token Wait returned, None with an error
    exited,     \* attempts whose process has ended
    pc,         \* where each request stands in ServeHTTP
    to,         \* the attempt whose server got the request
    req,        \* the form values of the request
    job,        \* the job taken from h.jobs, None for the zero job
    res,        \* the token in the result r, None with an error
    tabs,       \* attempts whose URL the user has been shown
    redeemed,   \* codes Okta has exchanged for a token
    keychain    \* the session stored in the operating system keychain

loginVars == <<phase, tried, port, expired, token, exited>>
connVars  == <<pc, to, req, job, res>>
worldVars == <<tabs, redeemed, keychain>>
vars      == <<loginVars, connVars, worldVars>>

Phases == {"start", "opening", "offer", "await",
           "returned", "closed", "stored", "failed"}
Steps  == {"idle", "select", "verify", "exchange", "send"}

Session == Logins \cup {None}
Request == [state : Session, code : Session, error : BOOLEAN]
NoRequest == [state |-> None, code |-> None, error |-> FALSE]
\* Its state is not looked at (handler.go:136).
Refusal == [NoRequest EXCEPT !.error = TRUE]

Init ==
    /\ phase = [l \in Logins |-> "start"]
    /\ tried = [l \in Logins |-> 0]
    /\ port = [l \in Logins |-> None]
    /\ expired = [l \in Logins |-> FALSE]
    /\ token = [l \in Logins |-> None]
    /\ exited = {}
    /\ pc = [c \in Conns |-> "idle"]
    /\ to = [c \in Conns |-> None]
    /\ req = [c \in Conns |-> NoRequest]
    /\ job = [c \in Conns |-> None]
    /\ res = [c \in Conns |-> None]
    /\ tabs = {}
    /\ redeemed = {}
    /\ keychain = None

----------------------------------------------------------------------------
(* The attempt: LoginCommand.Execute and HandlePendingSession              *)

Goto(l, p) == phase' = [phase EXCEPT ![l] = p]

\* The socket is open from Listen to the deferred sock.Close().
Listening(l) ==
    phase[l] \in {"opening", "offer", "await", "returned", "closed"}

PortTaken(p) == \E m \in Logins : Listening(m) /\ port[m] = p

\* The keychain is locked or the provider cannot be discovered.
CannotBegin(l) ==
    /\ phase[l] = "start"
    /\ tried[l] = 0
    /\ Goto(l, "failed")
    /\ UNCHANGED <<tried, port, expired, token, exited, connVars, worldVars>>

\* findFirstFreePort: the next port cannot be listened on.
SkipPort(l) ==
    /\ phase[l] = "start"
    /\ tried[l] < Len(CallbackPorts)
    /\ \/ PortTaken(CallbackPorts[tried[l] + 1])
       \/ CallbackPorts[tried[l] + 1] \in Contested
    /\ tried' = [tried EXCEPT ![l] = @ + 1]
    /\ UNCHANGED <<phase, port, expired, token, exited, connVars, worldVars>>

\* The same loop when it forgets that the index counts the ports tried.
BindPort_SkipsOne(l) ==
    /\ phase[l] = "start"
    /\ tried[l] + 2 <= Len(CallbackPorts)
    /\ ~PortTaken(CallbackPorts[tried[l] + 2])
    /\ port' = [port EXCEPT ![l] = CallbackPorts[tried[l] + 2]]
    /\ Goto(l, "opening")
    /\ UNCHANGED <<tried, expired, token, exited, connVars, worldVars>>

\* findFirstFreePort: the next port is free.  The redirect URL names it, the
\* state and verifier are generated, and `go http.Serve` takes connections.
BindPort(l) ==
    /\ phase[l] = "start"
    /\ tried[l] < Len(CallbackPorts)
    /\ ~PortTaken(CallbackPorts[tried[l] + 1])
    /\ port' = [port EXCEPT ![l] = CallbackPorts[tried[l] + 1]]
    /\ Goto(l, "opening")
    /\ UNCHANGED <<tried, expired, token, exited, connVars, worldVars>>

\* findFirstFreePort leaving its index beyond the list.
NoPortsLeft_MovesOn(l) ==
    /\ phase[l] = "start"
    /\ tried[l] = Len(CallbackPorts)
    /\ tried' = [tried EXCEPT ![l] = @ + 1]
    /\ Goto(l, "failed")
    /\ UNCHANGED <<port, expired, token, exited, connVars, worldVars>>

\* findFirstFreePort: errNoPortsAvailable.
NoPortsLeft(l) ==
    /\ phase[l] = "start"
    /\ tried[l] = Len(CallbackPorts)
    /\ Goto(l, "failed")
    /\ UNCHANGED <<tried, port, expired, token, exited, connVars, worldVars>>

\* serveURL(url) has shown the user the URL, on the terminal or in a browser.
ShowURL(l) ==
    /\ phase[l] = "opening" /\ l \notin tabs
    /\ tabs' = tabs \cup {l}
    /\ UNCHANGED <<loginVars, connVars, redeemed, keychain>>

\* serveURL returns nil, once the command that opens the browser has ended, and
\* Wait starts to offer the job.
OfferJob(l) ==
    /\ phase[l] = "opening" /\ l \in tabs
    /\ Goto(l, "offer")
    /\ UNCHANGED <<tried, port, expired, token, exited, connVars, worldVars>>

\* serveURL returns an error: HandlePendingSession returns with no Wait, even if
\* the browser has the URL.
ShowURLFails(l) ==
    /\ phase[l] = "opening"
    /\ Goto(l, "returned")
    /\ UNCHANGED <<tried, port, expired, token, exited, connVars, worldVars>>

\* Wait leaving its second select with nothing received and time left.
WaitGivesUp_Early(l) ==
    /\ phase[l] \in {"offer", "await"}
    /\ phase[l] = "await" \/ expired[l]
    /\ Goto(l, "returned")
    /\ UNCHANGED <<tried, port, expired, token, exited, connVars, worldVars>>

\* Wait with a second select that has no ctx.Done() branch.
WaitGivesUp_OnlyWhileOffering(l) ==
    /\ phase[l] = "offer"
    /\ expired[l]
    /\ Goto(l, "returned")
    /\ UNCHANGED <<tried, port, expired, token, exited, connVars, worldVars>>

\* The ctx.Done() branch of either select of Wait.
WaitGivesUp(l) ==
    /\ phase[l] \in {"offer", "await"}
    /\ expired[l]
    /\ Goto(l, "returned")
    /\ UNCHANGED <<tried, port, expired, token, exited, connVars, worldVars>>

\* The deferred handler.Close() of HandlePendingSession.
CloseJobs(l) ==
    /\ phase[l] = "returned"
    /\ Goto(l, "closed")
    /\ UNCHANGED <<tried, port, expired, token, exited, connVars, worldVars>>

\* Storing the token before the id token is looked at.
Store_BeforeVerify(l) ==
    /\ phase[l] = "closed"
    /\ token[l] # None
    /\ keychain' = token[l]
    /\ Goto(l, "stored") \/ Goto(l, "failed")
    /\ UNCHANGED <<tried, port, expired, token, exited, connVars, tabs, redeemed>>

\* The id token is in the response and verifies, and the keychain takes it.
Store(l) ==
    /\ phase[l] = "closed"
    /\ token[l] # None
    /\ keychain' = token[l]
    /\ Goto(l, "stored")
    /\ UNCHANGED <<tried, port, expired, token, exited, connVars, tabs, redeemed>>

\* Execute returns an error: Wait's own, a token response with no id token or
\* one that does not verify, or a keychain that refuses the write.
Reject(l) ==
    /\ phase[l] = "closed"
    /\ Goto(l, "failed")
    /\ UNCHANGED <<tried, port, expired, token, exited, connVars, worldVars>>

\* The deadline set by PersistentPreRunE passes.
Deadline(l) ==
    /\ phase[l] \notin {"stored", "failed"}
    /\ ~expired[l]
    /\ expired' = [expired EXCEPT ![l] = TRUE]
    /\ UNCHANGED <<phase, tried, port, token, exited, connVars, worldVars>>

\* These requests are over, and what their goroutines knew is forgotten.
EndRequests(S) ==
    /\ pc'   = [c \in Conns |-> IF c \in S THEN "idle" ELSE pc[c]]
    /\ to'   = [c \in Conns |-> IF c \in S THEN None ELSE to[c]]
    /\ req'  = [c \in Conns |-> IF c \in S THEN NoRequest ELSE req[c]]
    /\ job'  = [c \in Conns |-> IF c \in S THEN None ELSE job[c]]
    /\ res'  = [c \in Conns |-> IF c \in S THEN None ELSE res[c]]

\* The process ends, and with it every request goroutine it still has.
EndProcess(l) ==
    /\ exited' = exited \cup {l}
    /\ EndRequests({c \in Conns : to[c] = l})
    /\ UNCHANGED <<tried, port, expired, token, worldVars>>

\* main returns.
Exit(l) ==
    /\ phase[l] \in {"stored", "failed"}
    /\ l \notin exited
    /\ EndProcess(l)
    /\ UNCHANGED phase

\* The user interrupts the command while it runs.
Interrupt(l) ==
    /\ phase[l] \notin {"stored", "failed"}
    /\ EndProcess(l)
    /\ Goto(l, "failed")

----------------------------------------------------------------------------
(* The requests: handler.ServeHTTP, one goroutine each                     *)

Step(c, s) == pc' = [pc EXCEPT ![c] = s]

\* What a browser can send to the port m listens on: Okta's redirect for any
\* attempt whose URL names that port (once or reloaded, whichever attempt
\* listens there by now), a refusal by Okta, or a request with no parameters.
Requests(m) ==
    {[state |-> l, code |-> l, error |-> FALSE] :
        l \in {k \in tabs : port[k] = port[m]}}
      \cup {NoRequest, Refusal}

\* A request arrives and its goroutine blocks in the select of ServeHTTP.
Arrive(c, m, r) ==
    /\ pc[c] = "idle"
    /\ Listening(m)
    /\ Step(c, "select")
    /\ to' = [to EXCEPT ![c] = m]
    /\ req' = [req EXCEPT ![c] = r]
    /\ UNCHANGED <<loginVars, job, res, worldVars>>

\* Wait offering the job again to the next request instead of waiting for
\* the result of the first.
TakeJob_StillOffered(c) ==
    /\ pc[c] = "select"
    /\ phase[to[c]] \in {"offer", "await"}
    /\ job' = [job EXCEPT ![c] = to[c]]
    /\ Goto(to[c], "await")
    /\ Step(c, "verify")
    /\ UNCHANGED <<tried, port, expired, token, exited, to, req, res, worldVars>>

\* The rendezvous on h.jobs: ServeHTTP receives what Wait sends.
TakeJob(c) ==
    /\ pc[c] = "select"
    /\ phase[to[c]] = "offer"
    /\ job' = [job EXCEPT ![c] = to[c]]
    /\ Goto(to[c], "await")
    /\ Step(c, "verify")
    /\ UNCHANGED <<tried, port, expired, token, exited, to, req, res, worldVars>>

\* h.jobs is closed: the receive yields the zero job, whose channel is nil.
TakeZeroJob(c) ==
    /\ pc[c] = "select"
    /\ phase[to[c]] \in {"closed", "stored", "failed"}
    /\ Step(c, "verify")
    /\ UNCHANGED <<loginVars, to, req, job, res, worldVars>>

\* The client closes the connection while no job is offered: the ctx.Done()
\* branch of the select answers and returns.  (One that closes it later, or
\* whose select still takes the job, makes the exchange fail.)
GiveUp(c) ==
    /\ pc[c] = "select"
    /\ EndRequests({c})
    /\ UNCHANGED <<loginVars, worldVars>>

\* authorizationCodeReq.Verify(state, code)
ReqVerifies(r, state) == ~r.error /\ r.state = state

\* ServeHTTP calls Verify with the state of the request itself.
Verify(c) ==
    /\ pc[c] = "verify"
    /\ Step(c, IF ReqVerifies(req[c], req[c].state) THEN "exchange" ELSE "send")
    /\ UNCHANGED <<loginVars, to, req, job, res, worldVars>>

\* Okta exchanges a code once, and only for the verifier whose challenge it
\* was issued under; the zero job has the empty verifier.
OktaAccepts(code, verifier) ==
    code # None /\ code \notin redeemed /\ code = verifier

\* The exchange of a flow with neither S256ChallengeOption nor VerifierOption.
Exchange_NoPKCE(c) ==
    /\ pc[c] = "exchange"
    /\ req[c].code \notin redeemed \cup {None}
    /\ redeemed' = redeemed \cup {req[c].code}
    /\ res' = [res EXCEPT ![c] = req[c].code]
    /\ Step(c, "send")
    /\ UNCHANGED <<loginVars, to, req, job, tabs, keychain>>

\* Exchanger.Exchange with oauth2.VerifierOption(job.Verifier) succeeds.
Exchange(c) ==
    /\ pc[c] = "exchange"
    /\ OktaAccepts(req[c].code, job[c])
    /\ redeemed' = redeemed \cup {req[c].code}
    /\ res' = [res EXCEPT ![c] = req[c].code]
    /\ Step(c, "send")
    /\ UNCHANGED <<loginVars, to, req, job, tabs, keychain>>

\* It fails: Okta refuses, the network does, or the client is gone.
ExchangeFails(c) ==
    /\ pc[c] = "exchange"
    /\ Step(c, "send")
    /\ UNCHANGED <<loginVars, to, req, job, res, worldVars>>

\* The deferred `job.C <- r` meets the second select of Wait.  Nobody else
\* receives from that channel, and a nil channel (the zero job) has nobody.
Send(c) ==
    /\ pc[c] = "send"
    /\ job[c] # None
    /\ phase[job[c]] = "await"
    /\ token' = [token EXCEPT ![job[c]] = res[c]]
    /\ Goto(job[c], "returned")
    /\ EndRequests({c})
    /\ UNCHANGED <<tried, port, expired, exited, worldVars>>

----------------------------------------------------------------------------
LoginStep(l) ==
    \/ CannotBegin(l) \/ SkipPort(l) \/ BindPort(l) \/ NoPortsLeft(l)
    \/ ShowURL(l) \/ OfferJob(l) \/ ShowURLFails(l)
    \/ WaitGivesUp(l) \/ CloseJobs(l)
    \/ Store(l) \/ Reject(l) \/ Deadline(l) \/ Exit(l)

\* Execute is in a call that has no context, and nothing bounds how long it
\* takes: it asks the keychain whether it is locked, before the first port is
\* tried; it waits for the command that opens the browser; it gives the keychain
\* the token.
InCall(l) ==
    \/ phase[l] = "start" /\ tried[l] = 0
    \/ phase[l] = "opening"
    \/ phase[l] = "closed" /\ token[l] # None

\* What an attempt does on its own, elsewhere.
OwnStep(l) ==
    \/ ~InCall(l) /\ (SkipPort(l) \/ BindPort(l) \/ NoPortsLeft(l) \/ Reject(l))
    \/ WaitGivesUp(l) \/ CloseJobs(l) \/ Deadline(l) \/ Exit(l)

\* What a request goroutine does on its own; an exchange may hang for ever,
\* because the HTTP client has no timeout and the context is the request's.
HandlerStep(c) ==
    TakeJob(c) \/ TakeZeroJob(c) \/ Verify(c) \/ Send(c)

Next ==
    \/ \E l \in Logins : LoginStep(l) \/ Interrupt(l)
    \/ \E c \in Conns : HandlerStep(c) \/ Exchange(c) \/ ExchangeFails(c) \/ GiveUp(c)
    \/ \E c \in Conns, m \in Logins : \E r \in Requests(m) : Arrive(c, m, r)

\* The Go scheduler runs every goroutine that can run, and time passes.  Of the
\* calls without a context it is not assumed that they return.
Fairness ==
    /\ \A l \in Logins : WF_vars(OwnStep(l))
    /\ \A c \in Conns : WF_vars(HandlerStep(c))

Spec == Init /\ [][Next]_vars

FairSpec == Spec /\ Fairness

----------------------------------------------------------------------------
(* Properties                                                              *)

\* Every variable has its type, whatever the attempts and requests do.
TypeOK ==
    /\ phase \in [Logins -> Phases]
    /\ tried \in [Logins -> 0..Len(CallbackPorts)]
    /\ port \in [Logins -> PortSet \cup {None}]
    /\ expired \in [Logins -> BOOLEAN]
    /\ token \in [Logins -> Session]
    /\ exited \in SUBSET Logins
    /\ pc \in [Conns -> Steps]
    /\ to \in [Conns -> Session]
    /\ req \in [Conns -> Request]
    /\ job \in [Conns -> Session]
    /\ res \in [Conns -> Session]
    /\ tabs \in SUBSET Logins
    /\ redeemed \in SUBSET Logins
    /\ keychain \in Session

\* An attempt never returns the session of another one, although the state
\* of the redirect is not compared with the state of the attempt: a stale or
\* foreign redirect answered by its server is not exchanged, because the code
\* it carries was issued under another verifier (handler.go:98).
OwnToken == \A l \in Logins : token[l] \in {None, l}

\* Wait hands its job to one request only: two requests in flight on the same
\* server (a tab opened twice, a browser that also asks for an icon) never
\* both work for it, so nobody sends on a closed channel (handler.go:76-79).
OneHolder ==
    \A c, d \in Conns : job[c] # None /\ job[c] = job[d] => c = d

\* While a request works on a job, the attempt that gave it the job is waiting
\* for it; the only excuse is that its deadline passed (handler.go:115-117).
\* Otherwise a good answer of the user would be thrown away.
DroppedOnlyAfterDeadline ==
    \A c \in Conns :
        job[c] # None /\ pc[c] \in {"verify", "exchange", "send"} =>
            phase[job[c]] = "await" \/ expired[job[c]]

\* A port is passed over only because another program or another attempt
\* had it: the redirect URL must name a port that is registered with Okta, so
\* none of the few may be skipped (login.go:137-139).
SkippedPortsWereTaken ==
    \A l \in Logins, k \in DOMAIN CallbackPorts :
        port[l] = CallbackPorts[k] =>
            \A i \in 1..(k - 1) :
                CallbackPorts[i] \in Contested \cup {port[m] : m \in Logins \ {l}}

\* What an attempt has come to, for its user.
Outcome ==
    [l \in Logins |->
        CASE phase[l] = "stored" -> "stored"
          [] phase[l] = "failed" -> "failed"
          [] OTHER -> "pending"]

Promise == INSTANCE LoginPromise WITH outcome <- Outcome, keychain <- keychain

\* Each attempt ends once; if it succeeds the keychain holds its own session
\* at that moment and if it fails the keychain is untouched, whatever
\* the other attempts, the browser and late requests do (login.go:77-133).
KeepsPromise == Promise!Spec

\* Every attempt ends, with nobody at the browser, with requests that hang in the
\* exchange and with one that outlives Wait (handler.go:107-121), unless the
\* keychain or the command that opens the browser never returns: those calls
\* have no deadline (login.go:78, 132, 168-171).
EndsUnlessInCall ==
    \A l \in Logins : <>(phase[l] \in {"stored", "failed"}) \/ <>[]InCall(l)

\* A result that a request has worked out has somebody to receive it: what
\* handler.go:75 says of the deferred send, "Ensure that the result is sent."
ResultHasReceiver ==
    \A c \in Conns :
        pc[c] = "send" => job[c] # None /\ phase[job[c]] = "await"

\* A redirect with the state of another attempt is a bad request to this one, as
\* Verify says (handler.go:135-138): it never gets to the exchange.
OnlyOwnStateIsExchanged ==
    \A c \in Conns :
        pc[c] = "exchange" /\ job[c] # None /\ req[c].state # None =>
            req[c].state = job[c]
=============================================================================
