----------------------- MODULE GetCredentials_proofs -----------------------
(***************************************************************************)
(* For any accounts, roles, command lines, settings and lifetimes, and any *)
(* width of the request's integer: the types of GetCredentials, what is    *)
(* printed, and what is remembered; and that to its user the whole command *)
(* is GetPromise.                                                          *)
(***************************************************************************)
EXTENDS GetCredentials, TLAPS

\* The wrap to an int32 never makes a lifetime longer.
LEMMA WrapShortens ==
    ASSUME NEW x \in Nat
    PROVE  /\ ((x + Half) % (2 * Half)) - Half \in Int
           /\ ((x + Half) % (2 * Half)) - Half <= x
<1> DEFINE m == 2 * Half
<1>1. m \in Nat \ {0}
    BY GetAssumption
<1>2. x + Half \in Nat
    BY GetAssumption
<1>3. (x + Half) % m \in 0..(m - 1) /\ (x + Half) % m <= x + Half
    <2> HIDE DEF m
    <2> DEFINE y == x + Half
    <2>1. y \in Nat
        BY <1>2
    <2> HIDE DEF y
    <2>2. y % m \in 0..(m - 1) /\ y % m <= y
        BY <1>1, <2>1
    <2> QED
        BY <2>2 DEF y
<1> QED
    BY <1>1, <1>2, <1>3, GetAssumption

\* Nor shorter, if an int32 holds it.
LEMMA NoWrap ==
    ASSUME NEW x \in Nat, x < Half
    PROVE  ((x + Half) % (2 * Half)) - Half = x
<1> DEFINE m == 2 * Half
           y == x + Half
<1>1. m \in Nat \ {0} /\ y \in 0..(m - 1)
    BY GetAssumption
<1>2. y % m = y
    <2> HIDE DEF m, y
    <2> QED
        BY <1>1
<1> QED
    BY <1>2, GetAssumption

\* The lifetime of a request is an integer, and not longer than its hours; nor
\* shorter, if an int32 holds them.
LEMMA SecondsShorten ==
    ASSUME NEW h \in Nat
    PROVE  /\ Seconds(h) \in Int /\ Seconds(h) <= Hour * h
           /\ Hour * h < Half => Seconds(h) = Hour * h
<1>1. Hour * h \in Nat
    BY GetAssumption
<1> QED
    BY <1>1, WrapShortens, NoWrap DEF Seconds

\* What Execute settles on has the types it needs.
LEMMA ArgumentTypes ==
    ASSUME TypeOK, NEW line \in Lines, Resolves(line), RoleName(line) # None
    PROVE  /\ AccountID(line) \in Ids
           /\ RoleName(line) \in Roles
           /\ line.login \in BOOLEAN /\ line.bypass \in BOOLEAN
           /\ line.ttl \in Nat /\ line.remaining \in Nat
<1>1. line \in CommandLine
    BY GetAssumption
<1>2. AccountID(line) \in Ids
    BY <1>1 DEF AccountID, Resolves, TypeOK, Config, CommandLine
<1>3. RoleName(line) \in Roles
    BY <1>1 DEF RoleName, Resolves, TypeOK, Config, CommandLine
<1> QED
    BY <1>1, <1>2, <1>3 DEF CommandLine

----------------------------------------------------------------------------
(* Types                                                                   *)

\* What is noted in a Config leaves a Config.
LEMMA NotedType ==
    ASSUME config \in Config, req \in Requests
    PROVE  Noted \in Config
<1> DEFINE rs == [i \in Cached |->
                    IF req.cached /\ i = req.id THEN req.role ELSE config.roles[i]]
<1>1. rs \in [Cached -> Roles \cup {None}]
    BY DEF Config, Requests
<1>2. Noted = [[config EXCEPT !.last = req.id] EXCEPT !.roles = rs]
    BY DEF Noted, Config
<1>3. req.id \in Ids
    BY DEF Requests
<1> HIDE DEF rs
<1> QED
    BY <1>1, <1>2, <1>3 DEF Config

\* A command that ends, with the clock, the keychain and the environment as
\* they were and a config of the right type, leaves the types intact.
LEMMA EndTypes ==
    ASSUME TypeOK, End, UNCHANGED <<now, keychain, env, served>>, config' \in Config
    PROVE  TypeOK'
<1>1. /\ now' \in 0..MaxTime /\ keychain' \in Sessions
      /\ env' \in Credentials \cup {None} /\ served' \subseteq Ids \X Roles
    BY DEF TypeOK
<1>2. /\ pc' \in Steps
      /\ req' \in Requests \cup {None} /\ (req' = None <=> pc' = "idle")
    BY DEF End, Steps
<1>3. now \in Nat
    BY GetAssumption DEF TypeOK
<1>4. began' \in 0..now'
    BY <1>3 DEF End
<1>5. tok' \in Sessions /\ (pc' = "exchange" <=> tok' # None)
    BY DEF End, Sessions
<1>6. creds' \in Credentials \cup {None} /\ (pc' \in {"echo", "save"} => creds' # None)
    BY DEF End
<1>7. fetched' \in BOOLEAN /\ loggedIn' \in BOOLEAN
    BY DEF End
<1> QED
    BY <1>1, <1>2, <1>4, <1>5, <1>6, <1>7 DEF TypeOK

\* TypeOK is inductive.
LEMMA TypeStep == TypeOK /\ [Next]_vars => TypeOK'
<1> SUFFICES ASSUME TypeOK, [Next]_vars
             PROVE  TypeOK'
    OBVIOUS
<1> USE GetAssumption DEF TypeOK, Steps, Sessions
<1>1. ASSUME NEW line \in Lines, Begin(line)
      PROVE  TypeOK'
    <2>1. req' \in Requests
        BY <1>1, ArgumentTypes DEF Begin, Requests
    <2>2. CASE pc' = "echo"
        <3>1. creds' = env /\ env # None
            BY <1>1, <2>2 DEF Begin, ValidUntil
        <3> QED
            BY <1>1, <2>1, <2>2, <3>1 DEF Begin
    <2>3. CASE pc' = "token"
        <3>1. creds' = None
            BY <1>1, <2>3 DEF Begin
        <3> QED
            BY <1>1, <2>1, <2>3, <3>1 DEF Begin
    <2> QED
        BY <1>1, <2>2, <2>3 DEF Begin
<1>2. CASE ReadToken
    BY <1>2 DEF ReadToken
<1>3. CASE NoToken
    BY <1>3 DEF NoToken
<1>4. CASE LoginSucceeds
    BY <1>4 DEF LoginSucceeds
<1>5. CASE Exchange
    BY <1>5 DEF Exchange
<1>6. CASE AssumeRole
    <2> DEFINE s == Seconds(TimeToLive(req.ttl))
    <2>1. req \in Requests
        BY <1>6 DEF AssumeRole
    <2>2. TimeToLive(req.ttl) \in Nat
        BY <2>1 DEF TimeToLive, Requests, Config
    <2>3. s \in Int
        BY <2>2, SecondsShorten
    <2> HIDE DEF s
    <2>4. creds' = [account |-> req.id, role |-> req.role, until |-> now + s]
          /\ MinDuration <= s
        BY <1>6 DEF AssumeRole, s
    <2>5. now + s \in Nat
        BY <2>3, <2>4
    <2>6. creds' \in Credentials
        BY <2>1, <2>4, <2>5 DEF Credentials, Requests
    <2> QED
        BY <1>6, <2>6 DEF AssumeRole
<1>7. CASE Echo
    <2>1. <<req.id, req.role>> \in Ids \X Roles
        BY <1>7 DEF Echo, Requests
    <2> QED
        BY <1>7, <2>1 DEF Echo
<1>8. CASE Save
    <2>1. req \in Requests
        BY <1>8 DEF Save
    <2>2. config' \in Config
        <3>1. config' = Noted
            BY <1>8 DEF Save
        <3>2. Noted \in Config
            BY <2>1, NotedType
        <3> QED
            BY <3>1, <3>2
    <2>3. UNCHANGED <<now, keychain, env, served>> /\ End
        BY <1>8 DEF Save
    <2> QED
        BY <2>2, <2>3, EndTypes
<1>9. CASE Fail
    BY <1>9, EndTypes DEF Fail
<1>10. CASE Tick
    BY <1>10 DEF Tick, command
<1>11. CASE KeychainChanges
    BY <1>11 DEF KeychainChanges, command
<1>12. CASE ClearEnvironment
    BY <1>12 DEF ClearEnvironment, command
<1>13. CASE UNCHANGED vars
    BY <1>13 DEF vars
<1> QED
    BY <1>1, <1>2, <1>3, <1>4, <1>5, <1>6, <1>7, <1>8, <1>9, <1>10, <1>11,
       <1>12, <1>13 DEF Next, Command

\* The first state has the types.
LEMMA TypeInit == Init => TypeOK
<1> SUFFICES ASSUME Init PROVE TypeOK
    OBVIOUS
<1>1. config \in Config
    BY GetAssumption DEF Init, Config
<1>2. /\ now \in 0..MaxTime /\ began \in 0..now
      /\ keychain \in Sessions
    BY GetAssumption DEF Init, Sessions
<1> QED
    BY <1>1, <1>2 DEF Init, TypeOK, Steps, Sessions

\* Every variable keeps its type, whatever the user and the surroundings do.
THEOREM TypeCorrect == Spec => []TypeOK
<1> QED
    BY TypeInit, TypeStep, PTL DEF Spec

----------------------------------------------------------------------------
(* What is printed                                                         *)

Printing == {"echo", "save"}

\* The credentials have the hours that were asked for, if an int32 holds them.
LongEnough == Hour * HoursAsked < Half => creds.until >= began + Hour * HoursAsked

\* The role was in the assertion before AWS was asked, and new credentials
\* are what AWS was asked for.
NewInv ==
    /\ pc = "assume" => req.role \in RolesOf[req.id]
    /\ fetched =>
          /\ pc \in Printing
          /\ creds.account = req.id
          /\ creds.role = req.role /\ req.role \in RolesOf[req.id]
          /\ creds.until <= now + Hour * HoursAsked /\ LongEnough

\* Credentials that are not new come from the environment, where they were
\* good when the command asked.
OldInv ==
    pc \in Printing /\ ~fetched =>
        /\ creds.account = req.id
        /\ creds.until > began + TimeRemaining(req.remaining)

\* What is about to be remembered has been served, and so has what is.
ServedInv ==
    /\ RememberedWereServed
    /\ pc = "save" => <<req.id, req.role>> \in served

PrintInv == TypeOK /\ NewInv /\ OldInv /\ ServedInv

\* A step of the surroundings, or of the command before it prints, that keeps
\* the request, the credentials and the settings keeps what is known of them.
LEMMA UndisturbedStep ==
    ASSUME PrintInv, TypeOK',
           UNCHANGED <<config, req, began, creds, fetched, served>>,
           now' >= now, pc' = pc \/ (pc' \notin Printing \cup {"assume"} /\ ~fetched)
    PROVE  NewInv' /\ OldInv' /\ ServedInv'
<1> USE DEF PrintInv
<1>1. NewInv'
    <2>1. CASE pc' # pc
        BY <2>1 DEF NewInv
    <2>2. CASE pc' = pc /\ pc \in Printing /\ fetched
        <3>1. HoursAsked' = HoursAsked
            BY DEF HoursAsked
        <3>2. req \in Requests /\ creds \in Credentials /\ config \in Config
            BY <2>2 DEF TypeOK, Printing
        <3>3. HoursAsked \in Nat
            BY <3>2 DEF HoursAsked, Requests, Config
        <3>4. Hour * HoursAsked \in Nat
            BY <3>3, GetAssumption
        <3>5. creds.until \in Nat /\ now \in Nat /\ now' \in Nat
            BY <3>2, GetAssumption DEF Credentials, TypeOK
        <3>6. creds.until <= now + Hour * HoursAsked
            BY <2>2 DEF NewInv
        <3>7. LongEnough'
            BY <2>2 DEF NewInv, LongEnough, HoursAsked
        <3> HIDE DEF PrintInv
        <3>8. creds.until <= now' + Hour * HoursAsked
            BY <3>4, <3>5, <3>6
        <3> QED
            BY <2>2, <3>1, <3>7, <3>8 DEF NewInv, PrintInv, Printing
    <2>3. CASE pc' = pc /\ ~(pc \in Printing /\ fetched)
        BY <2>3 DEF NewInv
    <2> QED
        BY <2>1, <2>2, <2>3
<1>2. OldInv'
    BY DEF OldInv, TimeRemaining, Printing
<1>3. ServedInv'
    BY DEF ServedInv, RememberedWereServed, Printing
<1> QED
    BY <1>1, <1>2, <1>3

\* PrintInv is inductive.
LEMMA PrintStep == PrintInv /\ [Next]_vars => PrintInv'
<1> SUFFICES ASSUME PrintInv, [Next]_vars
             PROVE  NewInv' /\ OldInv' /\ ServedInv'
    BY TypeStep DEF PrintInv
<1>0. TypeOK /\ TypeOK' /\ now \in Nat
    BY TypeStep, GetAssumption DEF PrintInv, TypeOK
<1>1. ASSUME NEW line \in Lines, Begin(line)
      PROVE  NewInv' /\ OldInv' /\ ServedInv'
    <2>1. ServedInv' /\ ~fetched
        BY <1>1 DEF PrintInv, ServedInv, NewInv, RememberedWereServed, Begin, Printing
    <2>2. NewInv'
        BY <1>1, <2>1 DEF NewInv, Begin, Printing
    <2>3. OldInv'
        BY <1>1 DEF OldInv, Begin, ValidUntil, TimeRemaining, Printing
    <2> QED
        BY <2>1, <2>2, <2>3
<1>2. CASE ReadToken
    BY <1>0, <1>2, UndisturbedStep DEF ReadToken, PrintInv, NewInv, Printing
<1>3. CASE NoToken
    BY <1>0, <1>3, UndisturbedStep DEF NoToken, PrintInv, NewInv, Printing
<1>4. CASE LoginSucceeds
    BY <1>0, <1>4, UndisturbedStep DEF LoginSucceeds, PrintInv, NewInv, Printing
<1>5. CASE Exchange
    BY <1>5 DEF Exchange, RoleIsOffered, PrintInv, NewInv, OldInv, ServedInv, RememberedWereServed, Printing
<1>6. CASE AssumeRole
    <2> DEFINE s == Seconds(TimeToLive(req.ttl))
    <2>1. req \in Requests /\ config \in Config /\ now \in Nat
        BY <1>0, <1>6, GetAssumption DEF AssumeRole, TypeOK
    <2>2. TimeToLive(req.ttl) = HoursAsked /\ HoursAsked \in Nat
        BY <2>1 DEF TimeToLive, HoursAsked, Requests, Config
    <2>3. /\ s \in Int /\ s <= Hour * HoursAsked
          /\ Hour * HoursAsked < Half => s = Hour * HoursAsked
        BY <2>2, SecondsShorten
    <2>4. Hour * HoursAsked \in Nat
        BY <2>2, GetAssumption
    <2> HIDE DEF s
    <2>5. /\ creds' = [account |-> req.id, role |-> req.role, until |-> now + s]
          /\ UNCHANGED <<now, req, config, began, served>>
          /\ fetched' = TRUE /\ pc = "assume" /\ pc' = "echo"
        BY <1>6 DEF AssumeRole, s
    <2>6. HoursAsked' = HoursAsked
        BY <2>5 DEF HoursAsked
    <2>7. creds'.until <= now' + Hour * HoursAsked'
        BY <2>1, <2>3, <2>4, <2>5, <2>6
    <2>8. LongEnough'
        <3>1. began \in Nat /\ began <= now
            BY <1>0, GetAssumption DEF TypeOK
        <3>2. Hour * HoursAsked < Half => now + s >= began + Hour * HoursAsked
            BY <2>1, <2>3, <2>4, <3>1
        <3> QED
            BY <2>5, <2>6, <3>2 DEF LongEnough
    <2>9. NewInv'
        BY <2>5, <2>7, <2>8 DEF PrintInv, NewInv, Printing
    <2>10. OldInv' /\ ServedInv'
        BY <2>5 DEF PrintInv, OldInv, ServedInv, RememberedWereServed
    <2> QED
        BY <2>9, <2>10
<1>7. CASE Echo
    <2>1. NewInv' /\ OldInv'
        BY <1>7 DEF Echo, PrintInv, NewInv, OldInv, LongEnough, HoursAsked, TimeRemaining, Printing
    <2>2. ServedInv'
        BY <1>7 DEF Echo, PrintInv, ServedInv, RememberedWereServed
    <2> QED
        BY <2>1, <2>2
<1>8. CASE Save
    <2>1. NewInv' /\ OldInv'
        BY <1>8 DEF Save, End, NewInv, OldInv, Printing
    <2>2. req \in Requests /\ config \in Config /\ pc' = "idle"
        BY <1>0, <1>8 DEF Save, End, TypeOK
    <2>3. /\ config'.last = req.id
          /\ \A i \in Cached : config'.roles[i] \in {config.roles[i]} \cup
                                   (IF i = req.id THEN {req.role} ELSE {})
        BY <1>8, <2>2 DEF Save, Noted, Config
    <2>4. <<req.id, req.role>> \in served' /\ served' = served /\ req.role \in Roles
        BY <1>8, <2>2 DEF Save, PrintInv, ServedInv, Requests
    <2>5. RememberedWereServed'
        BY <2>3, <2>4 DEF PrintInv, ServedInv, RememberedWereServed
    <2> QED
        BY <2>1, <2>2, <2>5 DEF ServedInv
<1>9. CASE Fail
    BY <1>9 DEF Fail, End, PrintInv, NewInv, OldInv, ServedInv, RememberedWereServed, Printing
<1>10. CASE Tick
    BY <1>0, <1>10, UndisturbedStep DEF Tick, command
<1>11. CASE KeychainChanges
    BY <1>0, <1>11, UndisturbedStep DEF KeychainChanges, command
<1>12. CASE ClearEnvironment
    BY <1>0, <1>12, UndisturbedStep DEF ClearEnvironment, command
<1>13. CASE UNCHANGED vars
    BY <1>0, <1>13, UndisturbedStep DEF vars
<1> QED
    BY <1>0, <1>1, <1>2, <1>3, <1>4, <1>5, <1>6, <1>7, <1>8, <1>9, <1>10, <1>11,
       <1>12, <1>13 DEF Next, Command

LEMMA PrintInvHolds == Spec => []PrintInv
<1>1. Init => TypeOK
    BY TypeInit
<1>2. Init => NewInv /\ OldInv /\ ServedInv
    BY DEF Init, NewInv, OldInv, ServedInv, RememberedWereServed, Printing
<1> QED
    BY <1>1, <1>2, PrintStep, PTL DEF Spec, PrintInv

\* New credentials that are printed are for the account and the role of the
\* command and last the hours asked for, no longer, and no shorter unless the
\* request's integer, of whatever width, does not hold them (get.go:170-211).
THEOREM NewAreAsAsked == Spec => []NewAreWhatWasAsked
<1>1. PrintInv => NewAreWhatWasAsked
    BY DEF PrintInv, NewInv, LongEnough, NewAreWhatWasAsked, Printing
<1> QED
    BY <1>1, PrintInvHolds, PTL

\* What is made of the flag and the setting is what was asked for.
LEMMA RemainingIs ==
    ASSUME req \in Requests, config \in Config
    PROVE  TimeRemaining(req.remaining) = RemainingAsked /\ RemainingAsked \in Nat
BY DEF TimeRemaining, RemainingAsked, Requests, Config

\* Nothing is remembered that was not served (get.go:162-166, root.go:79).
THEOREM OnlyServedIsRemembered == Spec => []RememberedWereServed
<1>1. PrintInv => RememberedWereServed
    BY DEF PrintInv, ServedInv
<1> QED
    BY <1>1, PrintInvHolds, PTL
----------------------------------------------------------------------------
(* The promise                                                             *)

\* Old credentials are still those of the shell when they are printed.
EnvInv == pc = "echo" /\ ~fetched => creds = env

LEMMA EnvStep == TypeOK /\ EnvInv /\ [Next]_vars => EnvInv'
<1> SUFFICES ASSUME TypeOK, EnvInv, [Next]_vars, pc' = "echo", ~fetched'
             PROVE  creds' = env'
    BY DEF EnvInv
<1>1. ASSUME NEW line \in Lines, Begin(line) PROVE creds' = env'
    BY <1>1 DEF Begin
<1>2. CASE Command
    <2>1. FALSE
        BY <1>2 DEF Command, ReadToken, NoToken, LoginSucceeds, Exchange, AssumeRole,
                    Echo, Save, Fail, End
    <2> QED
        BY <2>1
<1>3. CASE Tick \/ KeychainChanges \/ ClearEnvironment
    BY <1>3 DEF EnvInv, Tick, KeychainChanges, ClearEnvironment, command
<1>4. CASE UNCHANGED vars
    BY <1>4 DEF EnvInv, vars
<1> QED
    BY <1>1, <1>2, <1>3, <1>4 DEF Next

\* What the user sees of a command does not depend on the rest of it.
LEMMA AskedForStays ==
    ASSUME pc # "idle", pc' # "idle", UNCHANGED <<req, config, began>>
    PROVE  AskedFor' = AskedFor
BY DEF AskedFor, HoursAsked, RemainingAsked

\* A step towards credentials is none to the user.
LEMMA HiddenStep ==
    ASSUME TypeOK, pc \notin {"idle", "save"}, pc' \notin {"idle", "save"},
           UNCHANGED <<now, env, req, config, began>>
    PROVE  UNCHANGED Promise!vars
BY AskedForStays DEF Promise!vars, Phase

LEMMA PromiseStep ==
    ASSUME PrintInv, EnvInv, [Next]_vars
    PROVE  Promise!Next \/ UNCHANGED Promise!vars
<1>0. TypeOK
    BY DEF PrintInv
<1>1. ASSUME NEW line \in Lines, Begin(line) PROVE Promise!Ask
    <2>1. /\ pc = "idle" /\ pc' \in {"echo", "token"} /\ began' = now
          /\ UNCHANGED <<now, env, config>>
        BY <1>1 DEF Begin
    <2>2. AskedFor'.since = now
        BY <2>1 DEF AskedFor
    <2> QED
        BY <2>1, <2>2 DEF Promise!Ask, Phase
<1>2. CASE ReadToken \/ NoToken \/ LoginSucceeds \/ Exchange \/ AssumeRole
    <2>1. /\ pc \notin {"idle", "save"} /\ pc' \notin {"idle", "save"}
          /\ UNCHANGED <<now, env, req, config, began>>
        BY <1>2 DEF ReadToken, NoToken, LoginSucceeds, Exchange, AssumeRole
    <2> QED
        BY <1>0, <2>1, HiddenStep
<1>3. CASE Echo
    <2>1. /\ pc = "echo" /\ pc' = "save" /\ creds' = creds /\ env' \in {env, creds}
          /\ UNCHANGED <<now, req, config, began>>
        BY <1>3 DEF Echo
    <2>2. AskedFor' = AskedFor
        BY <2>1, AskedForStays
    <2>3. /\ AskedFor.id = req.id /\ AskedFor.role = req.role
          /\ AskedFor.hours = HoursAsked /\ AskedFor.remaining = RemainingAsked
          /\ AskedFor.since = began
        BY <2>1 DEF AskedFor
    <2>4. Promise!IsGood(creds)
        <3>1. CASE fetched
            BY <2>3, <3>1
            DEF PrintInv, NewInv, LongEnough, Promise!IsGood, Promise!LastsAsAsked
        <3>2. CASE ~fetched
            <4>1. req \in Requests /\ config \in Config
                BY <2>1 DEF PrintInv, TypeOK
            <4> QED
                BY <2>1, <2>3, <3>2, <4>1, RemainingIs
                DEF EnvInv, PrintInv, OldInv, Printing, Promise!IsGood
        <3> QED
            BY <3>1, <3>2
    <2> QED
        BY <2>1, <2>2, <2>4 DEF Promise!HandOut, Promise!IsGood, Promise!LastsAsAsked, Promise!Next, Phase
<1>4. CASE Save
    <2>1. /\ pc = "save" /\ pc' = "idle" /\ config' = Noted
          /\ UNCHANGED <<now, env>>
        BY <1>4 DEF Save, End
    <2>2. config \in Config
        BY <1>0 DEF TypeOK
    <2>3. /\ Noted.last = req.id
          /\ Noted.roles = [i \in Cached |->
                IF req.cached /\ i = req.id THEN req.role ELSE config.roles[i]]
        BY <2>2 DEF Noted, Config
    <2>4. /\ AskedFor.id = req.id /\ AskedFor.role = req.role
          /\ AskedFor.cached = req.cached /\ AskedFor' = None
        BY <2>1 DEF AskedFor
    <2> QED
        BY <2>1, <2>3, <2>4 DEF Promise!Remember, Promise!End, Promise!Next, Phase
<1>5. CASE Fail
    <2>1. pc # "idle" /\ pc' = "idle" /\ UNCHANGED <<now, env, config>>
        BY <1>5 DEF Fail, End
    <2>2. AskedFor' = None
        BY <2>1 DEF AskedFor
    <2> QED
        BY <2>1, <2>2 DEF Promise!GiveUp, Promise!End, Promise!Next, Phase
<1>6. CASE Tick
    <2>1. /\ now' = now + 1
          /\ UNCHANGED <<env, pc, req, config, began, creds>>
        BY <1>6 DEF Tick, command
    <2>2. AskedFor' = AskedFor
        BY <2>1 DEF AskedFor, HoursAsked, RemainingAsked
    <2> QED
        BY <2>1, <2>2 DEF Promise!Tick, Promise!Next, Phase
<1>7. CASE KeychainChanges \/ UNCHANGED vars
    <2>1. UNCHANGED <<now, env, pc, req, config, began, creds>>
        BY <1>7 DEF KeychainChanges, command, vars
    <2>2. AskedFor' = AskedFor
        BY <2>1 DEF AskedFor, HoursAsked, RemainingAsked
    <2> QED
        BY <2>1, <2>2 DEF Promise!vars, Phase
<1>8. CASE ClearEnvironment
    <2>1. /\ pc = "idle" /\ env' = None
          /\ UNCHANGED <<now, pc, req, config, began, creds>>
        BY <1>8 DEF ClearEnvironment, command
    <2>2. AskedFor' = AskedFor
        BY <2>1 DEF AskedFor, HoursAsked, RemainingAsked
    <2> QED
        BY <2>1, <2>2 DEF Promise!Clear, Promise!Next, Phase
<1> QED
    BY <1>1, <1>2, <1>3, <1>4, <1>5, <1>6, <1>7, <1>8 DEF Next, Command, Promise!Next

\* To its user a get prints once, what is good for what it was asked, or gives
\* up, and notes only what it has printed, for an account of the cache
\* (get.go:110-169).
THEOREM PromiseIsKept == Spec => KeepsPromise
<1>1. Init => Promise!Init /\ EnvInv
    BY DEF Init, Promise!Init, Phase, AskedFor, EnvInv
<1>2. PrintInv /\ EnvInv /\ [Next]_vars => EnvInv' /\ [Promise!Next]_(Promise!vars)
    BY EnvStep, PromiseStep DEF PrintInv
<1> QED
    BY <1>1, <1>2, PrintInvHolds, PTL DEF Spec, KeepsPromise, Promise!Spec
=============================================================================
