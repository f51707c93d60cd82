----------------------------- MODULE GetPromise -----------------------------
(***************************************************************************)
(* What `keyconjurer get` promises to a user with one shell, with no       *)
(* keychain, login, assertion or request: a command prints once, or not at *)
(* all, credentials that are good for what it was asked, and only then,    *)
(* and for the same account and role, may it note what a later command is  *)
(* to go by.  GetCredentials.tla is shown to implement this.               *)
(***************************************************************************)
EXTENDS Naturals

CONSTANTS
    Cached,     \* the accounts whose roles are remembered
    Hour,
    Half,       \* 2^31
    None

VARIABLES
    now,        \* the clock
    env,        \* the credentials in the shell
    phase,      \* of the command: "idle", "asked", "printed"
    asked,      \* the account, the role, the hours and the minutes to spare
    printed,    \* the credentials that were printed
    last,       \* the account used last
    roles       \* the role each account was used with last

vars == <<now, env, phase, asked, printed, last, roles>>

Init ==
    /\ env = None
    /\ phase = "idle" /\ asked = None /\ printed = None
    /\ last = None /\ roles = [i \in Cached |-> None]

Ask ==
    /\ phase = "idle" /\ phase' = "asked"
    /\ asked'.since = now
    /\ UNCHANGED <<now, env, printed, last, roles>>

\* The hours asked for, and less only of what 32 bits do not hold.
LastsAsAsked(c) ==
    /\ c.until <= now + Hour * asked.hours
    /\ Hour * asked.hours < Half => c.until >= asked.since + Hour * asked.hours

\* Those of the shell that have enough left, or new ones of the role.
IsGood(c) ==
    /\ c.account = asked.id
    /\ \/ c = env /\ c.until > asked.since + asked.remaining
       \/ c.role = asked.role /\ LastsAsAsked(c)

HandOut ==
    /\ phase = "asked" /\ phase' = "printed"
    /\ IsGood(printed')
    /\ env' \in {env, printed'}
    /\ UNCHANGED <<now, asked, last, roles>>

End ==
    /\ phase' = "idle" /\ asked' = None /\ printed' = None
    /\ UNCHANGED <<now, env>>

Remember ==
    /\ phase = "printed" /\ End
    /\ last' = asked.id
    /\ roles' = [i \in Cached |->
                    IF asked.cached /\ i = asked.id THEN asked.role ELSE roles[i]]

\* Whatever was printed, nothing is remembered.
GiveUp == phase # "idle" /\ End /\ UNCHANGED <<last, roles>>

Tick == now' = now + 1 /\ UNCHANGED <<env, phase, asked, printed, last, roles>>

Clear ==
    /\ phase = "idle" /\ env' = None
    /\ UNCHANGED <<now, phase, asked, printed, last, roles>>

Next == Ask \/ HandOut \/ Remember \/ GiveUp \/ Tick \/ Clear

Spec == Init /\ [][Next]_vars
=============================================================================
