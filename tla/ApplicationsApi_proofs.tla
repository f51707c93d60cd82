----------------------- MODULE ApplicationsApi_proofs -----------------------
(***************************************************************************)
(* What ApplicationsApi promises, for any number of commands, applications *)
(* and pages.  The inductive invariant is TypeOK with two facts about each *)
(* command that waits: what its handler has collected so far is complete   *)
(* up to the cursor (PagesAreComplete), and a reply that would be accepted *)
(* is complete altogether (ReplyIsComplete).  A handler that lost the name *)
(* of the user never gets its 500 out of the way (LostNameShows).          *)
(***************************************************************************)
EXTENDS ApplicationsApi, TLAPS

\* What a waiting command may be given: no account that the user held all along
\* is missing, and none is foreign to the user.
Complete(c, list) == always[c] \cap Aws \subseteq list /\ list \subseteq ever[c]

HistoryIsSound(c) ==
    outcome[c] = "asked" => always[c] \subseteq held /\ held \subseteq ever[c]

LostNameShows(c) == handler[c].user = "nobody" => handler[c].status = 500

\* A handler begins with nothing, and only when its command asks.
BeginsWithNothing(c) ==
    /\ outcome[c] = "idle" => handler[c].at = "off"
    /\ handler[c].at \in {"off", "userinfo"} =>
          handler[c].user = "caller" /\ handler[c].links = {} /\ handler[c].cursor = 0
    /\ reply[c] # None => outcome[c] = "asked" /\ handler[c].at = "returned"

\* Up to the cursor the handler has missed nothing the user held all along.
PagesAreComplete(c) ==
    outcome[c] = "asked" /\ handler[c].at = "listing" /\ handler[c].user = "caller" =>
        /\ \A a \in always[c] : a <= handler[c].cursor => a \in handler[c].links
        /\ handler[c].links \subseteq ever[c]

ReplyIsComplete(c) ==
    reply[c] # None /\ Accepted(reply[c]) => Complete(c, reply[c].apps)

Sound(c) ==
    /\ HistoryIsSound(c)
    /\ LostNameShows(c)
    /\ BeginsWithNothing(c)
    /\ PagesAreComplete(c)
    /\ ReplyIsComplete(c)

----------------------------------------------------------------------------
(* Types                                                                   *)

LEMMA ErrorTyped ==
    ASSUME NEW status \in Nat
    PROVE  JSONError(status) \in Responses
BY DEF JSONError, Responses

LEMMA ServedTyped ==
    ASSUME TypeOK, NEW c \in Calls, NEW links \in SUBSET Apps
    PROVE  JSON(handler[c].status, links \cap Aws) \in Responses
BY DEF TypeOK, Handlers, JSON, Responses

\* Whatever the handler returns, it returns once and for all.
LEMMA ReturnTyped ==
    ASSUME TypeOK, NEW c \in Calls, NEW w \in Responses, NEW err \in BOOLEAN,
           Return(c, w, err), UNCHANGED <<held, cache, outcome, always, ever>>
    PROVE  TypeOK'
<1>1. JSONError(502) \in Responses
  BY ErrorTyped
<1>2. [NewHandler EXCEPT !.at = "returned"] \in Handlers
  BY DEF NewHandler, Handlers
<1> QED BY <1>1, <1>2 DEF TypeOK, Return

\* The handler returns with an error response, its own or not.
LEMMA RefusalTyped ==
    ASSUME TypeOK, NEW c \in Calls,
           \E status \in Nat, err \in BOOLEAN :
               Return(c, JSONError(status), err),
           UNCHANGED <<held, cache, outcome, always, ever>>
    PROVE  TypeOK'
<1>1. PICK status \in Nat, err \in BOOLEAN :
          Return(c, JSONError(status), err)
  OBVIOUS
<1>2. JSONError(status) \in Responses
  BY ErrorTyped
<1> QED BY <1>1, <1>2, ReturnTyped

LEMMA PageTyped ==
    ASSUME TypeOK, NEW c \in Calls, Page(c)
    PROVE  TypeOK'
<1>1. Listed(c) \subseteq SUBSET Apps
  BY ApplicationsAssumption DEF Listed, TypeOK
<1>2. PICK list \in Listed(c), upto \in {a \in Apps : handler[c].cursor < a} :
         LET links == handler[c].links \cup Between(list, handler[c].cursor, upto)
         IN IF HasNextPage(list, upto)
            THEN Continue(c, links, upto)
            ELSE Serve(c, links)
  BY DEF Page, PageEnds
<1> DEFINE links == handler[c].links \cup Between(list, handler[c].cursor, upto)
<1>3. links \in SUBSET Apps
  BY <1>1 DEF Between, TypeOK, Handlers
<1>4. UNCHANGED <<held, cache, outcome, always, ever>> /\ handler[c].at = "listing"
  BY DEF Page
<1>5. CASE Continue(c, links, upto)
  <2>1. upto \in Nat
    BY ApplicationsAssumption
  <2>2. [handler[c] EXCEPT !.links = links, !.cursor = upto] \in Handlers
    BY <1>3, <2>1 DEF TypeOK, Handlers
  <2>3. handler' = [handler EXCEPT ![c] = [handler[c] EXCEPT !.links = links, !.cursor = upto]]
    BY <1>5 DEF Continue, TypeOK
  <2> QED BY <1>4, <1>5, <2>2, <2>3 DEF TypeOK, Continue
<1>6. CASE Serve(c, links)
  BY <1>3, <1>4, <1>6, ServedTyped, ReturnTyped DEF Serve
<1> QED BY <1>2, <1>5, <1>6

LEMMA HandleTyped ==
    ASSUME TypeOK, NEW c \in Calls, Handle(c)
    PROVE  TypeOK'
<1>1. CASE NoBearer(c)
  <2>1. Return(c, JSONError(401), FALSE)
    BY <1>1 DEF NoBearer
  <2>2. UNCHANGED <<held, cache, outcome, always, ever>>
    BY <1>1 DEF NoBearer
  <2>3. 401 \in Nat
    OBVIOUS
  <2> QED BY <2>1, <2>2, <2>3, RefusalTyped
<1>2. CASE Unauthorized(c)
  <2>1. PICK status \in {403, 500} : Return(c, JSONError(status), TRUE)
    BY <1>2 DEF Unauthorized
  <2>2. UNCHANGED <<held, cache, outcome, always, ever>>
    BY <1>2 DEF Unauthorized
  <2>3. status \in Nat
    OBVIOUS
  <2> QED BY <2>1, <2>2, <2>3, RefusalTyped
<1>3. CASE UserInfo(c)
  <2> DEFINE h(user, status) ==
                 [handler[c] EXCEPT !.at = "listing", !.user = user, !.status = status]
  <2>1. \A user \in {"caller", "nobody"}, status \in Nat : h(user, status) \in Handlers
    BY DEF TypeOK, Handlers
  <2>2. PICK user \in {"caller", "nobody"}, status \in {0, 500} :
           handler' = [handler EXCEPT ![c].at = "listing", ![c].user = user,
                                      ![c].status = status]
    BY <1>3 DEF UserInfo
  <2>3. status \in Nat
    OBVIOUS
  <2>4. /\ handler'[c] = h(user, status)
        /\ \A d \in Calls \ {c} : handler'[d] = handler[d]
        /\ handler' = [d \in Calls |-> handler'[d]]
    <3> DEFINE k == [handler EXCEPT ![c].at = "listing"]
               l == [k EXCEPT ![c].user = user]
               m == [l EXCEPT ![c].status = status]
    <3>1. handler' = m
      BY <2>2
    <3>2. k = [d \in Calls |-> IF d = c THEN [handler[c] EXCEPT !.at = "listing"] ELSE handler[d]]
      BY DEF TypeOK
    <3> HIDE DEF k
    <3>3. l = [d \in Calls |-> IF d = c THEN [k[c] EXCEPT !.user = user] ELSE k[d]]
      BY <3>2
    <3> HIDE DEF l
    <3>4. m = [d \in Calls |-> IF d = c THEN [l[c] EXCEPT !.status = status] ELSE l[d]]
      BY <3>3
    <3> QED BY <3>1, <3>2, <3>3, <3>4
  <2> HIDE DEF h
  <2>5. h(user, status) \in Handlers
    BY <2>1, <2>3
  <2> QED BY <1>3, <2>4, <2>5 DEF UserInfo, TypeOK
<1>4. CASE Page(c)
  BY <1>4, PageTyped
<1>5. CASE PageFails(c)
  <2>1. Return(c, JSONError(502), TRUE)
    BY <1>5 DEF PageFails
  <2>2. UNCHANGED <<held, cache, outcome, always, ever>>
    BY <1>5 DEF PageFails
  <2>3. 502 \in Nat
    OBVIOUS
  <2> QED BY <2>1, <2>2, <2>3, RefusalTyped
<1> QED BY <1>1, <1>2, <1>3, <1>4, <1>5 DEF Handle, Proceed

LEMMA InitTyped == Init => TypeOK
BY DEF Init, TypeOK, Handlers, NewHandler

LEMMA NextTyped == TypeOK /\ [Next]_vars => TypeOK'
<1> SUFFICES ASSUME TypeOK, [Next]_vars PROVE TypeOK'
  OBVIOUS
<1>1. ASSUME NEW c \in Calls, Ask(c) PROVE TypeOK'
  <2> DEFINE h == [handler[c] EXCEPT !.at = "userinfo"]
  <2>1. h \in Handlers
    BY DEF TypeOK, Handlers
  <2>2. handler' = [handler EXCEPT ![c] = h]
    BY <1>1 DEF Ask, TypeOK
  <2> HIDE DEF h
  <2> QED BY <1>1, <2>1, <2>2 DEF Ask, TypeOK
<1>2. ASSUME NEW c \in Calls, Refresh(c) PROVE TypeOK'
  <2>1. reply[c] \in Responses
    BY <1>2 DEF Refresh, TypeOK
  <2>2. cache' \in SUBSET Aws
    BY <1>2, <2>1 DEF Refresh, Responses
  <2> QED BY <1>2, <2>2 DEF Refresh, Ends, TypeOK
<1>3. ASSUME NEW c \in Calls, Fail(c) PROVE TypeOK'
  BY <1>3 DEF Fail, Ends, TypeOK
<1>4. ASSUME NEW a \in Apps, Assign(a) PROVE TypeOK'
  BY <1>4 DEF Assign, TypeOK
<1>5. CASE UNCHANGED vars
  BY <1>5 DEF vars, TypeOK
<1> QED BY <1>1, <1>2, <1>3, <1>4, <1>5, HandleTyped DEF Next

\* Every variable of the command and its handlers keeps its type: an account
\* cache holds nothing that is no account of AWS (serverless_functions.go:70).
THEOREM TypeCorrect == Spec => []TypeOK
<1> QED BY InitTyped, NextTyped, PTL DEF Spec

----------------------------------------------------------------------------
(* Completeness                                                            *)

\* Nothing is lost for a command that a step does not touch.
LEMMA Untouched ==
    ASSUME NEW d \in Calls, Sound(d), held' = held, outcome'[d] = outcome[d],
           always'[d] = always[d], ever'[d] = ever[d],
           handler'[d] = handler[d], reply'[d] = reply[d]
    PROVE  Sound(d)'
BY DEF Sound, HistoryIsSound, LostNameShows, BeginsWithNothing, PagesAreComplete,
       ReplyIsComplete, Complete, Accepted

\* A handler may return any response that is complete if it is accepted.
LEMMA ReturnSound ==
    ASSUME TypeOK, NEW c \in Calls, \A d \in Calls : Sound(d), handler[c].at # "off",
           NEW w \in Responses, NEW err \in BOOLEAN,
           outcome[c] = "asked" /\ Accepted(w) => Complete(c, w.apps),
           Return(c, w, err), UNCHANGED <<held, cache, outcome, always, ever>>
    PROVE  \A d \in Calls : Sound(d)'
<1>1. handler'[c] = [NewHandler EXCEPT !.at = "returned"]
  BY DEF Return, TypeOK
<1>2. handler'[c].at = "returned" /\ handler'[c].user = "caller"
  BY <1>1 DEF NewHandler
<1>3. reply'[c] # None => outcome[c] = "asked" /\ reply'[c] \in {JSONError(502), w}
  BY DEF Return, TypeOK
<1>4. ~Accepted(JSONError(502))
  BY DEF Accepted, JSONError
<1>5. (reply[c] # None /\ Accepted(reply[c]))' => Complete(c, reply'[c].apps)
  BY <1>3, <1>4 DEF Accepted
<1>6. outcome[c] # "idle"
  BY DEF Sound, BeginsWithNothing
<1>7. Sound(c)'
  BY <1>2, <1>3, <1>5, <1>6 DEF Sound, HistoryIsSound, LostNameShows,
     BeginsWithNothing, PagesAreComplete, ReplyIsComplete, Complete
<1>8. ASSUME NEW d \in Calls, d # c PROVE Sound(d)'
  BY <1>8, Untouched DEF Return, TypeOK
<1> QED BY <1>7, <1>8

LEMMA RefusalSound ==
    ASSUME TypeOK, NEW c \in Calls, \A d \in Calls : Sound(d), handler[c].at # "off",
           \E status \in Nat, err \in BOOLEAN :
               Return(c, JSONError(status), err),
           UNCHANGED <<held, cache, outcome, always, ever>>
    PROVE  \A d \in Calls : Sound(d)'
<1>1. PICK status \in Nat, err \in BOOLEAN :
          Return(c, JSONError(status), err)
  OBVIOUS
<1>2. JSONError(status) \in Responses
  BY ErrorTyped
<1>3. ~Accepted(JSONError(status))
  BY DEF Accepted, JSONError
<1> QED BY <1>1, <1>2, <1>3, ReturnSound

\* The last page completes the list: nothing is held beyond it.
LEMMA PageSound ==
    ASSUME TypeOK, NEW c \in Calls, \A d \in Calls : Sound(d), Page(c)
    PROVE  \A d \in Calls : Sound(d)'
<1>1. PICK list \in Listed(c), upto \in {a \in Apps : handler[c].cursor < a} :
         LET links == handler[c].links \cup Between(list, handler[c].cursor, upto)
         IN IF HasNextPage(list, upto)
            THEN Continue(c, links, upto)
            ELSE Serve(c, links)
  BY DEF Page, PageEnds
<1> DEFINE links == handler[c].links \cup Between(list, handler[c].cursor, upto)
<1>2. UNCHANGED <<held, cache, outcome, always, ever>> /\ handler[c].at = "listing"
  BY DEF Page
<1>3. upto \in Nat /\ handler[c].cursor \in Nat /\ handler[c].cursor < upto
  BY ApplicationsAssumption DEF TypeOK, Handlers
<1>4. links \in SUBSET Apps
  BY ApplicationsAssumption DEF Listed, Between, TypeOK, Handlers
<1>5. ASSUME outcome[c] = "asked", handler[c].user = "caller"
      PROVE  /\ links \subseteq ever[c]
             /\ \A a \in always[c] : a <= upto => a \in links
             /\ \A a \in always[c] : upto < a => HasNextPage(list, upto)
  <2>1. list = held
    BY <1>5 DEF Listed
  <2>2. always[c] \subseteq held /\ held \subseteq ever[c]
    BY <1>5 DEF Sound, HistoryIsSound
  <2>3. /\ handler[c].links \subseteq ever[c]
        /\ \A a \in always[c] : a <= handler[c].cursor => a \in handler[c].links
    BY <1>2, <1>5 DEF Sound, PagesAreComplete
  <2>4. always[c] \subseteq Nat
    BY ApplicationsAssumption DEF TypeOK
  <2> QED BY <1>3, <2>1, <2>2, <2>3, <2>4 DEF Between, HasNextPage
<1>6. CASE HasNextPage(list, upto)
  <2>1. Continue(c, links, upto)
    BY <1>1, <1>6
  <2>2. /\ handler'[c].links = links /\ handler'[c].cursor = upto
        /\ handler'[c].at = "listing" /\ handler'[c].user = handler[c].user
        /\ handler'[c].status = handler[c].status /\ reply' = reply
    BY <1>2, <2>1 DEF Continue, TypeOK, Handlers
  <2>3. Sound(c)'
    BY <1>2, <1>5, <2>2 DEF Sound, HistoryIsSound, LostNameShows,
       BeginsWithNothing, PagesAreComplete, ReplyIsComplete, Complete, Accepted
  <2>4. ASSUME NEW d \in Calls, d # c PROVE Sound(d)'
    BY <1>2, <2>1, <2>4, Untouched DEF Continue, TypeOK
  <2> QED BY <2>3, <2>4
<1>7. CASE ~HasNextPage(list, upto)
  <2> DEFINE w == JSON(handler[c].status, links \cap Aws)
  <2>1. Return(c, w, FALSE)
    BY <1>1, <1>7 DEF Serve
  <2>2. w \in Responses
    BY <1>4, ServedTyped
  <2>3. w.status = handler[c].status /\ w.apps = links \cap Aws
    BY DEF JSON
  <2>4. ASSUME outcome[c] = "asked", Accepted(w)
        PROVE  Complete(c, w.apps)
    <3>1. handler[c].user = "caller"
      BY <2>3, <2>4, <1>2 DEF Accepted, Sound, LostNameShows, TypeOK, Handlers
    <3>2. always[c] \subseteq links
      <4>1. always[c] \subseteq Nat
        BY ApplicationsAssumption DEF TypeOK
      <4> QED BY <1>3, <1>5, <1>7, <2>4, <3>1, <4>1
    <3> QED BY <1>5, <2>3, <2>4, <3>1, <3>2 DEF Complete
  <2> HIDE DEF w
  <2> QED BY <1>2, <2>1, <2>2, <2>4, ReturnSound
<1> QED BY <1>6, <1>7

LEMMA HandleSound ==
    ASSUME TypeOK, NEW c \in Calls, \A d \in Calls : Sound(d), Handle(c)
    PROVE  \A d \in Calls : Sound(d)'
<1>1. CASE NoBearer(c)
  <2>1. Return(c, JSONError(401), FALSE)
    BY <1>1 DEF NoBearer
  <2>2. UNCHANGED <<held, cache, outcome, always, ever>> /\ handler[c].at # "off"
    BY <1>1 DEF NoBearer
  <2>3. 401 \in Nat
    OBVIOUS
  <2> QED BY <2>1, <2>2, <2>3, RefusalSound
<1>2. CASE Unauthorized(c)
  <2>1. PICK status \in {403, 500} : Return(c, JSONError(status), TRUE)
    BY <1>2 DEF Unauthorized
  <2>2. UNCHANGED <<held, cache, outcome, always, ever>> /\ handler[c].at # "off"
    BY <1>2 DEF Unauthorized
  <2>3. status \in Nat
    OBVIOUS
  <2>4. \E s \in Nat, e \in BOOLEAN : Return(c, JSONError(s), e)
    BY <2>1, <2>3, Zenon
  <2> QED BY <2>2, <2>4, RefusalSound
<1>3. CASE UserInfo(c)
  <2>1. /\ handler'[c].at = "listing"
        /\ handler'[c].links = handler[c].links /\ handler'[c].cursor = handler[c].cursor
        /\ handler'[c].user = "nobody" => handler'[c].status = 500
    BY <1>3 DEF UserInfo, TypeOK, Handlers
  <2>2. handler[c].links = {} /\ handler[c].cursor = 0 /\ reply[c] = None /\ outcome[c] # "idle"
    BY <1>3 DEF UserInfo, Sound, BeginsWithNothing
  <2>3. \A a \in always[c] : ~(a <= 0)
    BY ApplicationsAssumption DEF TypeOK
  <2>4. UNCHANGED <<held, cache, outcome, always, ever, reply>>
    BY <1>3 DEF UserInfo
  <2>5. Sound(c)'
    BY <2>1, <2>2, <2>3, <2>4 DEF Sound, HistoryIsSound, LostNameShows,
       BeginsWithNothing, PagesAreComplete, ReplyIsComplete
  <2>6. ASSUME NEW d \in Calls, d # c PROVE Sound(d)'
    BY <1>3, <2>6, Untouched DEF UserInfo, TypeOK
  <2> QED BY <2>5, <2>6
<1>4. CASE Page(c)
  BY <1>4, PageSound
<1>5. CASE PageFails(c)
  <2>1. Return(c, JSONError(502), TRUE)
    BY <1>5 DEF PageFails
  <2>2. UNCHANGED <<held, cache, outcome, always, ever>> /\ handler[c].at # "off"
    BY <1>5 DEF PageFails
  <2>3. 502 \in Nat
    OBVIOUS
  <2> QED BY <2>1, <2>2, <2>3, RefusalSound
<1> QED BY <1>1, <1>2, <1>3, <1>4, <1>5 DEF Handle, Proceed

IInv == TypeOK /\ \A c \in Calls : Sound(c)

LEMMA InitSound == Init => IInv
<1> SUFFICES ASSUME Init PROVE \A c \in Calls : Sound(c)
  BY InitTyped DEF IInv
<1> QED BY DEF Init, NewHandler, Sound, HistoryIsSound, LostNameShows,
        BeginsWithNothing, PagesAreComplete, ReplyIsComplete

\* A command that ends takes its reply with it.
LEMMA EndsSound ==
    ASSUME TypeOK, NEW c \in Calls, \A d \in Calls : Sound(d),
           NEW o \in {"refreshed", "kept"}, Ends(c, o)
    PROVE  \A d \in Calls : Sound(d)'
<1>1. Sound(c)'
  BY DEF Ends, TypeOK, Sound, HistoryIsSound, LostNameShows, BeginsWithNothing,
         PagesAreComplete, ReplyIsComplete
<1>2. ASSUME NEW d \in Calls, d # c PROVE Sound(d)'
  BY <1>2, Untouched DEF Ends, TypeOK
<1> QED BY <1>1, <1>2

LEMMA NextSound == IInv /\ [Next]_vars => IInv'
<1> SUFFICES ASSUME TypeOK, \A d \in Calls : Sound(d), [Next]_vars
             PROVE  \A d \in Calls : Sound(d)'
  BY NextTyped DEF IInv
<1>1. ASSUME NEW c \in Calls, Ask(c) PROVE \A d \in Calls : Sound(d)'
  <2>1. /\ handler'[c].at = "userinfo" /\ handler'[c].user = handler[c].user
        /\ handler'[c].links = handler[c].links /\ handler'[c].cursor = handler[c].cursor
        /\ handler'[c].status = handler[c].status
    BY <1>1 DEF Ask, TypeOK, Handlers
  <2>2. handler[c].at = "off" /\ reply'[c] = None
    BY <1>1 DEF Ask, Sound, BeginsWithNothing
  <2>3. Sound(c)'
    BY <1>1, <2>1, <2>2 DEF Ask, TypeOK, Sound, HistoryIsSound, LostNameShows,
       BeginsWithNothing, PagesAreComplete, ReplyIsComplete
  <2>4. ASSUME NEW d \in Calls, d # c PROVE Sound(d)'
    BY <1>1, <2>4, Untouched DEF Ask, TypeOK
  <2> QED BY <2>3, <2>4
<1>2. ASSUME NEW c \in Calls, Refresh(c) PROVE \A d \in Calls : Sound(d)'
  BY <1>2, EndsSound DEF Refresh
<1>3. ASSUME NEW c \in Calls, Fail(c) PROVE \A d \in Calls : Sound(d)'
  BY <1>3, EndsSound DEF Fail
<1>4. ASSUME NEW a \in Apps, Assign(a), NEW d \in Calls PROVE Sound(d)'
  <2>1. /\ always'[d] = always[d] \cap held'
        /\ outcome[d] = "asked" => ever'[d] = ever[d] \cup held'
        /\ outcome[d] # "asked" => ever'[d] = ever[d]
    BY <1>4 DEF Assign
  <2> QED BY <1>4, <2>1 DEF Assign, Sound, HistoryIsSound, LostNameShows,
          BeginsWithNothing, PagesAreComplete, ReplyIsComplete, Complete, Accepted
<1>5. ASSUME UNCHANGED vars, NEW d \in Calls PROVE Sound(d)'
  BY <1>5, Untouched DEF vars
<1> QED BY <1>1, <1>2, <1>3, <1>4, <1>5, HandleSound DEF Next

LEMMA Invariant == Spec => []IInv
<1> QED BY InitSound, NextSound, PTL DEF Spec

----------------------------------------------------------------------------
(* The refinement                                                          *)

LEMMA HandleStutters ==
    ASSUME NEW c \in Calls, Handle(c)
    PROVE  UNCHANGED Promise!vars
BY DEF Handle, Proceed, NoBearer, Unauthorized, UserInfo, Page, PageFails, Promise!vars

LEMMA PromiseStep == IInv /\ [Next]_vars => [Promise!Next]_(Promise!vars)
<1> SUFFICES ASSUME IInv, [Next]_vars
             PROVE  Promise!Next \/ UNCHANGED Promise!vars
  OBVIOUS
<1>1. ASSUME NEW c \in Calls, Ask(c) PROVE Promise!Next
  BY <1>1 DEF Ask, Promise!Ask, Promise!Next
<1>2. ASSUME NEW c \in Calls, Refresh(c) PROVE Promise!Next
  <2>1. reply[c] \in Responses
    BY <1>2 DEF Refresh, IInv, TypeOK
  <2>2. cache' \in SUBSET Aws
    BY <1>2, <2>1 DEF Refresh, Responses
  <2>3. always[c] \cap Aws \subseteq cache' /\ cache' \subseteq ever[c]
    BY <1>2 DEF Refresh, IInv, Sound, ReplyIsComplete, Complete
  <2>4. Promise!Refresh(c)
    BY <1>2, <2>2, <2>3 DEF Refresh, Ends, Promise!Refresh, Promise!Ends
  <2> QED BY <2>4 DEF Promise!Next
<1>3. ASSUME NEW c \in Calls, Fail(c) PROVE Promise!Next
  BY <1>3 DEF Fail, Ends, Promise!Keep, Promise!Ends, Promise!Next
<1>4. ASSUME NEW a \in Apps, Assign(a) PROVE Promise!Next
  BY <1>4 DEF Assign, Promise!Assign, Promise!Next
<1>5. CASE UNCHANGED vars
  BY <1>5 DEF vars, Promise!vars
<1> QED BY <1>1, <1>2, <1>3, <1>4, <1>5, HandleStutters DEF Next

\* The account cache keeps ListingPromise: a list read page by page, of which
\* any page may fail, replaces it only if it is complete
\* (serverless_functions.go:39-80, okta.go:29-45, accounts.go:82-94).
THEOREM PromiseIsKept == Spec => CacheKeepsPromise
<1>1. Init => Promise!Init
  BY DEF Init, Promise!Init
<1> QED
  BY <1>1, Invariant, PromiseStep, PTL DEF Spec, CacheKeepsPromise, Promise!Spec
=============================================================================
