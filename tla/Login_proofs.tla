---------------------------- MODULE Login_proofs ----------------------------
(***************************************************************************)
(* What Login's runs check for two attempts, for any number of attempts,   *)
(* requests and ports.                                                     *)
(***************************************************************************)
EXTENDS Login, TLAPS

LEMMA NotNone == None \notin Logins /\ None \notin PortSet
BY LoginAssumption

\* A port the loop looks at is one of the ports.
LEMMA PortInList ==
    ASSUME NEW l \in Logins, TypeOK, tried[l] < Len(CallbackPorts)
    PROVE  /\ tried[l] + 1 \in 1..Len(CallbackPorts)
           /\ CallbackPorts[tried[l] + 1] \in PortSet
BY LoginAssumption DEF TypeOK

\* What a browser may send is a request.
LEMMA RequestsAreTyped ==
    ASSUME TypeOK, NEW m \in Logins
    PROVE  Requests(m) \subseteq Request
<1>1. NoRequest \in Request /\ Refusal \in Request
  BY DEF NoRequest, Refusal, Request, Session
<1>2. ASSUME NEW l \in tabs
      PROVE  [state |-> l, code |-> l, error |-> FALSE] \in Request
  BY DEF TypeOK, Request, Session
<1> QED BY <1>1, <1>2 DEF Requests

\* Ending requests keeps every variable in its type.
LEMMA EndRequestsTyped ==
    ASSUME TypeOK, NEW S \in SUBSET Conns, EndRequests(S)
    PROVE  /\ pc' \in [Conns -> Steps]
           /\ to' \in [Conns -> Session]
           /\ req' \in [Conns -> Request]
           /\ job' \in [Conns -> Session]
           /\ res' \in [Conns -> Session]
<1>1. NoRequest \in Request /\ None \in Session /\ "idle" \in Steps
  BY DEF NoRequest, Request, Session, Steps
<1> QED BY <1>1 DEF TypeOK, EndRequests

LEMMA InitTyped == Init => TypeOK
<1>1. NoRequest \in Request
  BY DEF NoRequest, Request, Session
<1>2. Len(CallbackPorts) \in Nat
  BY LoginAssumption
<1> QED BY <1>1, <1>2 DEF Init, TypeOK, Phases, Steps, Session

\* One step keeps the types: Login.tla's actions in their order.
LEMMA NextTyped == TypeOK /\ [Next]_vars => TypeOK'
<1> SUFFICES ASSUME TypeOK, [Next]_vars PROVE TypeOK'
  OBVIOUS
<1> USE DEF TypeOK
<1>0. Len(CallbackPorts) \in Nat
  BY LoginAssumption
<1>1. ASSUME NEW l \in Logins, LoginStep(l) PROVE TypeOK'
  <2> USE <1>0 DEF loginVars, connVars, worldVars, Goto, Phases
  <2>1. CASE CannotBegin(l)
    BY <2>1 DEF CannotBegin
  <2>2. CASE SkipPort(l)
    BY <2>2 DEF SkipPort
  <2>3. CASE BindPort(l)
    BY <2>3, PortInList DEF BindPort
  <2>4. CASE NoPortsLeft(l)
    BY <2>4 DEF NoPortsLeft
  <2>5. CASE ShowURL(l) \/ OfferJob(l)
    BY <2>5 DEF ShowURL, OfferJob
  <2>6. CASE ShowURLFails(l)
    BY <2>6 DEF ShowURLFails
  <2>7. CASE WaitGivesUp(l)
    BY <2>7 DEF WaitGivesUp
  <2>8. CASE CloseJobs(l)
    BY <2>8 DEF CloseJobs
  <2>9. CASE Store(l)
    BY <2>9 DEF Store
  <2>10. CASE Reject(l)
    BY <2>10 DEF Reject
  <2>11. CASE Deadline(l)
    BY <2>11 DEF Deadline
  <2>12. CASE Exit(l)
    BY <2>12, EndRequestsTyped DEF Exit, EndProcess
  <2> QED
    BY <1>1, <2>1, <2>2, <2>3, <2>4, <2>5, <2>6, <2>7, <2>8, <2>9, <2>10,
       <2>11, <2>12 DEF LoginStep
<1>2. ASSUME NEW l \in Logins, Interrupt(l) PROVE TypeOK'
  BY <1>2, EndRequestsTyped
     DEF Interrupt, EndProcess, Goto, Phases, worldVars
<1>3. ASSUME NEW c \in Conns,
             HandlerStep(c) \/ Exchange(c) \/ ExchangeFails(c) \/ GiveUp(c)
      PROVE  TypeOK'
  <2> USE DEF loginVars, connVars, worldVars, Step, Steps, Session
  <2>1. CASE TakeJob(c)
    BY <2>1 DEF TakeJob, Goto, Phases
  <2>2. CASE TakeZeroJob(c)
    BY <2>2 DEF TakeZeroJob
  <2>3. CASE Verify(c)
    BY <2>3 DEF Verify
  <2>4. CASE Send(c)
    BY <2>4, EndRequestsTyped DEF Send, Goto, Phases
  <2>5. CASE Exchange(c)
    BY <2>5 DEF Exchange, OktaAccepts, Request
  <2>6. CASE ExchangeFails(c)
    BY <2>6 DEF ExchangeFails
  <2>7. CASE GiveUp(c)
    BY <2>7, EndRequestsTyped DEF GiveUp
  <2> QED
    BY <1>3, <2>1, <2>2, <2>3, <2>4, <2>5, <2>6, <2>7 DEF HandlerStep
<1>4. ASSUME NEW c \in Conns, NEW m \in Logins, NEW r \in Requests(m),
             Arrive(c, m, r)
      PROVE  TypeOK'
  BY <1>4, RequestsAreTyped
     DEF Arrive, Step, Steps, Session, loginVars, worldVars
<1>5. CASE UNCHANGED vars
  BY <1>5 DEF vars, loginVars, connVars, worldVars
<1> QED BY <1>1, <1>2, <1>3, <1>4, <1>5 DEF Next

\* Spec keeps every variable in its type.
THEOREM TypeCorrect == Spec => []TypeOK
<1> QED BY InitTyped, NextTyped, PTL DEF Spec

----------------------------------------------------------------------------
(* Requests, jobs and tokens                                               *)

\* What each request goroutine knows: it has a server while it lives, a job
\* only of that server's attempt, and a token only of the job it holds.
RequestInv ==
    \A c \in Conns :
        /\ pc[c] = "idle" <=> to[c] = None
        /\ pc[c] \in {"idle", "select"} => job[c] = None
        /\ pc[c] # "send" => res[c] = None
        /\ job[c] # None => job[c] = to[c]
        /\ res[c] # None => res[c] = job[c]

\* An attempt whose job is out has started to wait for its result, and waits
\* still unless its deadline has passed.
HeldInv ==
    \A c \in Conns :
        job[c] # None =>
            /\ phase[job[c]] \notin {"start", "opening", "offer"}
            /\ phase[job[c]] = "await" \/ expired[job[c]]

JobInv == TypeOK /\ RequestInv /\ HeldInv /\ OneHolder /\ OwnToken

LEMMA JobInit == Init => JobInv
<1> SUFFICES ASSUME Init PROVE JobInv
  OBVIOUS
<1>1. TypeOK
  BY InitTyped
<1> QED BY <1>1 DEF Init, JobInv, RequestInv, HeldInv, OneHolder, OwnToken

\* A step that leaves requests and tokens alone and moves an attempt neither
\* back to where it has not waited yet nor out of a wait with time left.
LEMMA QuietStep ==
    ASSUME JobInv, TypeOK', NEW l \in Logins, UNCHANGED connVars, UNCHANGED token,
           \A m \in Logins : expired[m] => expired'[m],
           \A m \in Logins \ {l} : phase'[m] = phase[m],
           \/ phase'[l] = phase[l]
           \/ phase[l] \in {"start", "opening", "offer"}
           \/ expired[l] /\ phase'[l] \notin {"start", "opening", "offer"}
           \/ /\ phase[l] \notin {"start", "opening", "offer", "await"}
              /\ phase'[l] \notin {"start", "opening", "offer"}
    PROVE  JobInv'
<1>1. RequestInv'
  BY DEF JobInv, RequestInv, connVars
<1>2. HeldInv'
  <2> SUFFICES ASSUME NEW c \in Conns, job[c] # None
               PROVE  /\ phase'[job[c]] \notin {"start", "opening", "offer"}
                      /\ phase'[job[c]] = "await" \/ expired'[job[c]]
    BY DEF HeldInv, connVars
  <2>1. /\ job[c] \in Logins
        /\ phase[job[c]] \notin {"start", "opening", "offer"}
        /\ phase[job[c]] = "await" \/ expired[job[c]]
    BY DEF JobInv, HeldInv, TypeOK, Session
  <2>2. CASE job[c] = l
    BY <2>1, <2>2
  <2>3. CASE job[c] # l
    BY <2>1, <2>3
  <2> QED BY <2>2, <2>3
<1>3. OneHolder' /\ OwnToken'
  BY DEF JobInv, OneHolder, OwnToken, connVars
<1> QED BY <1>1, <1>2, <1>3 DEF JobInv

\* Requests that end leave the others as they were.
LEMMA EndingStep ==
    ASSUME JobInv, NEW S \in SUBSET Conns, EndRequests(S)
    PROVE  /\ RequestInv' /\ OneHolder'
           /\ \A c \in Conns :
                 job'[c] # None => c \notin S /\ job'[c] = job[c]
<1>1. \A c \in Conns :
         /\ c \in S => /\ pc'[c] = "idle" /\ to'[c] = None
                       /\ job'[c] = None /\ res'[c] = None
         /\ c \notin S => /\ pc'[c] = pc[c] /\ to'[c] = to[c]
                          /\ job'[c] = job[c] /\ res'[c] = res[c]
  BY DEF EndRequests
<1> QED BY <1>1 DEF JobInv, RequestInv, OneHolder

LEMMA ExitStep ==
    ASSUME JobInv, TypeOK', NEW l \in Logins, EndProcess(l),
           \A m \in Logins \ {l} : phase'[m] = phase[m]
    PROVE  JobInv'
<1> DEFINE S == {c \in Conns : to[c] = l}
<1>1. /\ RequestInv' /\ OneHolder'
      /\ \A c \in Conns : job'[c] # None => c \notin S /\ job'[c] = job[c]
  BY EndingStep DEF EndProcess
<1>2. HeldInv'
  BY <1>1 DEF JobInv, HeldInv, RequestInv, TypeOK, Session, EndProcess
<1>3. OwnToken'
  BY DEF JobInv, OwnToken, EndProcess
<1> QED BY <1>1, <1>2, <1>3 DEF JobInv

LEMMA JobNext == JobInv /\ [Next]_vars => JobInv'
<1> SUFFICES ASSUME JobInv, [Next]_vars PROVE JobInv'
  OBVIOUS
<1>0. TypeOK /\ TypeOK'
  BY NextTyped DEF JobInv
<1>1. ASSUME NEW l \in Logins, LoginStep(l) PROVE JobInv'
  <2>1. CASE CannotBegin(l) \/ SkipPort(l) \/ BindPort(l) \/ NoPortsLeft(l)
    BY <1>0, <2>1, QuietStep
       DEF CannotBegin, SkipPort, BindPort, NoPortsLeft, Goto, TypeOK
  <2>2. CASE ShowURL(l) \/ OfferJob(l) \/ ShowURLFails(l)
    BY <1>0, <2>2, QuietStep
       DEF ShowURL, OfferJob, ShowURLFails, Goto, TypeOK, loginVars
  <2>3. CASE WaitGivesUp(l)
    BY <1>0, <2>3, QuietStep DEF WaitGivesUp, Goto, TypeOK
  <2>4. CASE CloseJobs(l) \/ Store(l) \/ Reject(l)
    BY <1>0, <2>4, QuietStep DEF CloseJobs, Store, Reject, Goto, TypeOK
  <2>5. CASE Deadline(l)
    BY <1>0, <2>5, QuietStep DEF Deadline, TypeOK
  <2>6. CASE Exit(l)
    BY <1>0, <2>6, ExitStep DEF Exit
  <2> QED
    BY <1>1, <2>1, <2>2, <2>3, <2>4, <2>5, <2>6 DEF LoginStep
<1>2. ASSUME NEW l \in Logins, Interrupt(l) PROVE JobInv'
  BY <1>0, <1>2, ExitStep DEF Interrupt, Goto, TypeOK
<1>3. ASSUME NEW c \in Conns,
             HandlerStep(c) \/ Exchange(c) \/ ExchangeFails(c) \/ GiveUp(c)
      PROVE  JobInv'
  <2> USE <1>0 DEF JobInv
  <2>1. CASE TakeJob(c)
    <3>1. RequestInv'
      BY <2>1 DEF TakeJob, RequestInv, TypeOK, Step, Session
    <3>2. \A d \in Conns : job[d] # to[c] \/ job[d] = None
      BY <2>1 DEF TakeJob, RequestInv, HeldInv
    <3>3. HeldInv' /\ OneHolder'
      BY <2>1, <3>2
         DEF TakeJob, RequestInv, HeldInv, OneHolder, TypeOK, Goto, Session
    <3>4. OwnToken'
      BY <2>1 DEF TakeJob, OwnToken
    <3> QED BY <3>1, <3>3, <3>4
  <2>2. CASE TakeZeroJob(c) \/ Verify(c) \/ ExchangeFails(c)
    <3>1. RequestInv'
      BY <2>2
         DEF TakeZeroJob, Verify, ExchangeFails, RequestInv, TypeOK, Step
    <3>2. HeldInv' /\ OneHolder' /\ OwnToken'
      BY <2>2
         DEF TakeZeroJob, Verify, ExchangeFails, HeldInv, OneHolder, OwnToken,
             loginVars
    <3> QED BY <3>1, <3>2
  <2>3. CASE Exchange(c)
    <3>1. RequestInv'
      BY <2>3 DEF Exchange, OktaAccepts, RequestInv, TypeOK, Step
    <3>2. HeldInv' /\ OneHolder' /\ OwnToken'
      BY <2>3 DEF Exchange, HeldInv, OneHolder, OwnToken, loginVars
    <3> QED BY <3>1, <3>2
  <2>4. CASE Send(c)
    <3>1. /\ RequestInv' /\ OneHolder'
          /\ \A d \in Conns : job'[d] # None => d # c /\ job'[d] = job[d]
      BY <2>4, EndingStep DEF Send
    <3>2. \A d \in Conns : job'[d] # None => job'[d] # job[c]
      BY <3>1 DEF OneHolder
    <3>3. HeldInv'
      BY <2>4, <3>1, <3>2 DEF Send, HeldInv, TypeOK, Goto, Session
    <3>4. OwnToken'
      BY <2>4 DEF Send, OwnToken, RequestInv, TypeOK, Session
    <3> QED BY <3>1, <3>3, <3>4
  <2>5. CASE GiveUp(c)
    <3>1. /\ RequestInv' /\ OneHolder'
          /\ \A d \in Conns : job'[d] # None => job'[d] = job[d]
      BY <2>5, EndingStep DEF GiveUp
    <3>2. HeldInv' /\ OwnToken'
      BY <2>5, <3>1 DEF GiveUp, HeldInv, OwnToken, loginVars
    <3> QED BY <3>1, <3>2
  <2> QED BY <1>3, <2>1, <2>2, <2>3, <2>4, <2>5 DEF HandlerStep
<1>4. ASSUME NEW c \in Conns, NEW m \in Logins, NEW r \in Requests(m),
             Arrive(c, m, r)
      PROVE  JobInv'
  <2>1. RequestInv'
    BY <1>0, <1>4, NotNone DEF JobInv, Arrive, RequestInv, TypeOK, Step
  <2>2. HeldInv' /\ OneHolder' /\ OwnToken'
    BY <1>4 DEF JobInv, Arrive, HeldInv, OneHolder, OwnToken, loginVars
  <2> QED BY <1>0, <2>1, <2>2 DEF JobInv
<1>5. CASE UNCHANGED vars
  BY <1>0, <1>5
     DEF vars, loginVars, connVars, JobInv, RequestInv, HeldInv, OneHolder,
         OwnToken
<1> QED BY <1>1, <1>2, <1>3, <1>4, <1>5 DEF Next

LEMMA JobInvariant == Spec => []JobInv
<1> QED BY JobInit, JobNext, PTL DEF Spec

\* An attempt never returns another attempt's session, whatever redirects its
\* server is sent.
THEOREM TokensAreOwn == Spec => []OwnToken
<1>1. JobInv => OwnToken
  BY DEF JobInv
<1> QED BY <1>1, JobInvariant, PTL

\* Wait's job is never in the hands of two requests.
THEOREM JobsHaveOneHolder == Spec => []OneHolder
<1>1. JobInv => OneHolder
  BY DEF JobInv
<1> QED BY <1>1, JobInvariant, PTL

\* Only a deadline makes an attempt abandon the request that has its job.
THEOREM NoAnswerDropped == Spec => []DroppedOnlyAfterDeadline
<1>1. JobInv => DroppedOnlyAfterDeadline
  BY DEF JobInv, HeldInv, DroppedOnlyAfterDeadline
<1> QED BY <1>1, JobInvariant, PTL

----------------------------------------------------------------------------
(* The ports                                                               *)

\* An attempt has a port only once it has left the loop, the port is the one
\* after those it found taken, and each of those was in use.
PortInv ==
    \A l \in Logins :
        /\ phase[l] = "start" => port[l] = None
        /\ port[l] # None => /\ tried[l] + 1 \in DOMAIN CallbackPorts
                             /\ port[l] = CallbackPorts[tried[l] + 1]
        /\ \A i \in 1..tried[l] :
              CallbackPorts[i] \in
                  Contested \cup {port[m] : m \in Logins \ {l}}

LEMMA PortInit == Init => PortInv
BY DEF Init, PortInv

\* A step that sends nobody back to the loop and touches no port.
LEMMA PortUntouched ==
    ASSUME TypeOK, PortInv, UNCHANGED <<port, tried>>,
           \A l \in Logins : phase'[l] = "start" => phase[l] = "start"
    PROVE  PortInv'
BY DEF PortInv

LEMMA PortNext == TypeOK /\ PortInv /\ [Next]_vars => PortInv'
<1> SUFFICES ASSUME TypeOK, PortInv, [Next]_vars PROVE PortInv'
  OBVIOUS
<1>1. ASSUME NEW l \in Logins, LoginStep(l) \/ Interrupt(l) PROVE PortInv'
  <2>1. CASE SkipPort(l)
    <3> DEFINE p == CallbackPorts[tried[l] + 1]
    <3>1. /\ tried[l] \in Nat /\ Len(CallbackPorts) \in Nat
          /\ tried'[l] = tried[l] + 1
          /\ \A m \in Logins \ {l} : tried'[m] = tried[m]
          /\ UNCHANGED <<port, phase>>
      BY <2>1, LoginAssumption DEF SkipPort, TypeOK
    <3>2. p \in Contested \cup {port[m] : m \in Logins \ {l}}
      BY <2>1 DEF SkipPort, PortTaken, Listening
    <3>3. \A i \in 1..tried'[l] :
             CallbackPorts[i] \in
                 Contested \cup {port[m] : m \in Logins \ {l}}
      <4> SUFFICES ASSUME NEW i \in 1..tried'[l]
                   PROVE  CallbackPorts[i] \in
                              Contested \cup {port[m] : m \in Logins \ {l}}
        OBVIOUS
      <4>1. i \in 1..tried[l] \/ i = tried[l] + 1
        BY <3>1
      <4> QED BY <4>1, <3>2 DEF PortInv
    <3>4. port[l] = None
      BY <2>1 DEF SkipPort, PortInv
    <3> QED BY <3>1, <3>3, <3>4 DEF PortInv
  <2>2. CASE BindPort(l)
    <3>1. /\ port'[l] = CallbackPorts[tried[l] + 1]
          /\ tried[l] + 1 \in DOMAIN CallbackPorts
          /\ phase'[l] = "opening"
          /\ \A m \in Logins \ {l} : port'[m] = port[m] /\ phase'[m] = phase[m]
          /\ UNCHANGED tried
      BY <2>2, LoginAssumption DEF BindPort, Goto, TypeOK
    <3>2. port[l] = None
      BY <2>2 DEF BindPort, PortInv
    <3>3. ASSUME NEW m \in Logins, NEW i \in 1..tried[m]
          PROVE  CallbackPorts[i] \in
                     Contested \cup {port'[k] : k \in Logins \ {m}}
      <4>1. CallbackPorts[i] \in PortSet
        BY LoginAssumption DEF TypeOK
      <4>2. CallbackPorts[i] # None
        BY <4>1, NotNone
      <4>3. CallbackPorts[i] \in Contested \cup {port[k] : k \in Logins \ {m}}
        BY DEF PortInv
      <4> QED BY <3>1, <3>2, <4>2, <4>3
    <3> QED BY <3>1, <3>3 DEF PortInv
  <2>3. CASE \/ CannotBegin(l) \/ NoPortsLeft(l) \/ ShowURL(l) \/ OfferJob(l)
             \/ ShowURLFails(l) \/ WaitGivesUp(l)
    BY <2>3, PortUntouched
       DEF CannotBegin, NoPortsLeft, ShowURL, OfferJob, ShowURLFails, WaitGivesUp,
           Goto, TypeOK, loginVars
  <2>4. CASE CloseJobs(l) \/ Store(l) \/ Reject(l) \/ Deadline(l)
    BY <2>4, PortUntouched DEF CloseJobs, Store, Reject, Deadline, Goto, TypeOK
  <2>5. CASE Exit(l) \/ Interrupt(l)
    BY <2>5, PortUntouched DEF Exit, Interrupt, EndProcess, Goto, TypeOK
  <2> QED
    BY <1>1, <2>1, <2>2, <2>3, <2>4, <2>5 DEF LoginStep
<1>2. ASSUME NEW c \in Conns,
             HandlerStep(c) \/ Exchange(c) \/ ExchangeFails(c) \/ GiveUp(c)
      PROVE  PortInv'
  <2>1. UNCHANGED <<port, tried>>
    BY <1>2
       DEF HandlerStep, TakeJob, TakeZeroJob, Verify, Send, Exchange,
           ExchangeFails, GiveUp, loginVars
  <2>2. \A l \in Logins : phase'[l] = "start" => phase[l] = "start"
    BY <1>2
       DEF HandlerStep, TakeJob, TakeZeroJob, Verify, Send, Exchange,
           ExchangeFails, GiveUp, loginVars, Goto, TypeOK
  <2> QED BY <2>1, <2>2, PortUntouched
<1>3. ASSUME NEW c \in Conns, NEW m \in Logins, NEW r \in Requests(m),
             Arrive(c, m, r)
      PROVE  PortInv'
  BY <1>3, PortUntouched DEF Arrive, loginVars
<1>4. CASE UNCHANGED vars
  BY <1>4, PortUntouched DEF vars, loginVars
<1> QED BY <1>1, <1>2, <1>3, <1>4 DEF Next

\* No attempt passes over a port that nobody had.
THEOREM NoPortWasted == Spec => []SkippedPortsWereTaken
<1>1. TypeOK /\ PortInv => SkippedPortsWereTaken
  <2> SUFFICES ASSUME TypeOK, PortInv, NEW l \in Logins,
                      NEW k \in DOMAIN CallbackPorts, port[l] = CallbackPorts[k],
                      NEW i \in 1..(k - 1)
               PROVE  CallbackPorts[i] \in
                          Contested \cup {port[m] : m \in Logins \ {l}}
    BY DEF SkippedPortsWereTaken
  <2>1. CallbackPorts[k] \in PortSet /\ port[l] # None
    BY NotNone DEF PortSet
  <2>2. k = tried[l] + 1
    BY <2>1, LoginAssumption DEF PortInv
  <2>3. i \in 1..tried[l]
    BY <2>2, LoginAssumption DEF TypeOK
  <2> QED BY <2>3 DEF PortInv
<1> QED BY <1>1, InitTyped, NextTyped, PortInit, PortNext, PTL DEF Spec

----------------------------------------------------------------------------
(* The promise                                                             *)

\* A step that moves l alone.
LEMMA OthersKeepOutcome ==
    ASSUME NEW l \in Logins, \A m \in Logins \ {l} : phase'[m] = phase[m]
    PROVE  \A m \in Logins \ {l} : Outcome'[m] = Outcome[m]
BY DEF Outcome

LEMMA FailIsFail ==
    ASSUME NEW l \in Logins, phase[l] \notin {"stored", "failed"},
           phase'[l] = "failed", UNCHANGED keychain,
           \A m \in Logins \ {l} : phase'[m] = phase[m]
    PROVE  Promise!Fail(l)
<1>1. Outcome[l] = "pending" /\ Outcome'[l] = "failed"
  BY DEF Outcome
<1>2. \A m \in Logins \ {l} : Outcome'[m] = Outcome[m]
  BY OthersKeepOutcome
<1>3. Outcome' = [Outcome EXCEPT ![l] = "failed"]
  BY <1>1, <1>2 DEF Outcome
<1> QED BY <1>1, <1>3 DEF Promise!Fail

LEMMA PendingIsStutter ==
    ASSUME UNCHANGED keychain,
           \A l \in Logins :
               \/ phase'[l] = phase[l]
               \/ /\ phase[l] \notin {"stored", "failed"}
                  /\ phase'[l] \notin {"stored", "failed"}
    PROVE  UNCHANGED Promise!vars
<1>1. \A l \in Logins : Outcome'[l] = Outcome[l]
  BY DEF Outcome
<1>2. Outcome' = Outcome
  BY <1>1 DEF Outcome
<1> QED BY <1>2 DEF Promise!vars

LEMMA PromiseStep == JobInv /\ [Next]_vars => [Promise!Next]_(Promise!vars)
<1> SUFFICES ASSUME JobInv, [Next]_vars
             PROVE  Promise!Next \/ UNCHANGED Promise!vars
  OBVIOUS
<1>0. TypeOK
  BY DEF JobInv
<1>1. ASSUME NEW l \in Logins, LoginStep(l) \/ Interrupt(l)
      PROVE  Promise!Next \/ UNCHANGED Promise!vars
  <2>1. CASE CannotBegin(l) \/ NoPortsLeft(l) \/ Reject(l)
    <3>1. Promise!Fail(l)
      BY <1>0, <2>1, FailIsFail
         DEF CannotBegin, NoPortsLeft, Reject, Goto, TypeOK, worldVars
    <3> QED BY <3>1 DEF Promise!Next
  <2>2. CASE Interrupt(l)
    <3>1. Promise!Fail(l)
      BY <1>0, <2>2, FailIsFail DEF Interrupt, EndProcess, Goto, TypeOK, worldVars
    <3> QED BY <3>1 DEF Promise!Next
  <2>3. CASE Store(l)
    <3>1. /\ phase[l] = "closed" /\ phase'[l] = "stored" /\ keychain' = l
          /\ \A m \in Logins \ {l} : phase'[m] = phase[m]
      BY <1>0, <2>3 DEF Store, Goto, JobInv, OwnToken, TypeOK
    <3>2. Outcome[l] = "pending" /\ Outcome'[l] = "stored"
      BY <3>1 DEF Outcome
    <3>3. Outcome' = [Outcome EXCEPT ![l] = "stored"]
      BY <3>1, <3>2, OthersKeepOutcome DEF Outcome
    <3>4. Promise!Succeed(l)
      BY <3>1, <3>2, <3>3 DEF Promise!Succeed
    <3> QED BY <3>4 DEF Promise!Next
  <2>4. CASE \/ SkipPort(l) \/ BindPort(l)
             \/ ShowURL(l) \/ OfferJob(l) \/ ShowURLFails(l)
    BY <1>0, <2>4, PendingIsStutter
       DEF SkipPort, BindPort, ShowURL, OfferJob, ShowURLFails, Goto, TypeOK,
           loginVars, worldVars
  <2>5. CASE WaitGivesUp(l) \/ CloseJobs(l) \/ Deadline(l) \/ Exit(l)
    BY <1>0, <2>5, PendingIsStutter
       DEF WaitGivesUp, CloseJobs, Deadline, Exit, EndProcess, Goto, TypeOK,
           worldVars
  <2> QED
    BY <1>1, <2>1, <2>2, <2>3, <2>4, <2>5 DEF LoginStep
<1>2. ASSUME NEW c \in Conns,
             HandlerStep(c) \/ Exchange(c) \/ ExchangeFails(c) \/ GiveUp(c)
      PROVE  UNCHANGED Promise!vars
  <2>1. UNCHANGED keychain
    BY <1>2
       DEF HandlerStep, TakeJob, TakeZeroJob, Verify, Send, Exchange,
           ExchangeFails, GiveUp, worldVars
  <2>2. \A l \in Logins :
           \/ phase'[l] = phase[l]
           \/ /\ phase[l] \notin {"stored", "failed"}
              /\ phase'[l] \notin {"stored", "failed"}
    BY <1>0, <1>2
       DEF HandlerStep, TakeJob, TakeZeroJob, Verify, Send, Exchange,
           ExchangeFails, GiveUp, loginVars, Goto, TypeOK
  <2> QED BY <2>1, <2>2, PendingIsStutter
<1>3. ASSUME NEW c \in Conns, NEW m \in Logins, NEW r \in Requests(m),
             Arrive(c, m, r)
      PROVE  UNCHANGED Promise!vars
  BY <1>3, PendingIsStutter DEF Arrive, loginVars, worldVars
<1>4. CASE UNCHANGED vars
  BY <1>4, PendingIsStutter DEF vars, loginVars, worldVars
<1> QED BY <1>1, <1>2, <1>3, <1>4 DEF Next

\* The detailed login keeps LoginPromise: an attempt succeeds with its own
\* session in the keychain or fails with the keychain untouched, once.
THEOREM PromiseIsKept == Spec => KeepsPromise
<1>1. Init => Promise!Init
  BY DEF Init, Promise!Init, Outcome
<1> QED
  BY <1>1, JobInvariant, PromiseStep, PTL
     DEF Spec, KeepsPromise, Promise!Spec
=============================================================================
