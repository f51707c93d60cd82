--------------------------- MODULE ListingPromise ---------------------------
(***************************************************************************)
(* What `keyconjurer accounts` promises of the account cache, with no      *)
(* server, pages or tokens: the command ends once, having left the cache   *)
(* alone or having replaced it by a list that leaves out no application    *)
(* the user could use all the time it ran, and adds none that was never    *)
(* the user's meanwhile.  ApplicationsApi.tla is shown to implement this.  *)
(***************************************************************************)
CONSTANTS
    Calls,      \* the runs of the command
    Apps,       \* the applications of the organisation
    Aws         \* those that are accounts of AWS

VARIABLES held, cache, outcome, always, ever

vars == <<held, cache, outcome, always, ever>>

Init ==
    /\ held \in SUBSET Apps
    /\ cache = {}
    /\ outcome = [c \in Calls |-> "idle"]
    /\ always = [c \in Calls |-> {}]
    /\ ever = [c \in Calls |-> {}]

Ask(c) ==
    /\ outcome[c] = "idle"
    /\ outcome' = [outcome EXCEPT ![c] = "asked"]
    /\ always' = [always EXCEPT ![c] = held]
    /\ ever' = [ever EXCEPT ![c] = held]
    /\ UNCHANGED <<held, cache>>

\* An administrator gives the user an application or takes one away.
Assign(a) ==
    /\ held' \in {held \cup {a}, held \ {a}}
    /\ always' = [c \in Calls |-> always[c] \cap held']
    /\ ever' = [c \in Calls |->
                   IF outcome[c] = "asked" THEN ever[c] \cup held' ELSE ever[c]]
    /\ UNCHANGED <<cache, outcome>>

Ends(c, o) ==
    /\ outcome[c] = "asked"
    /\ outcome' = [outcome EXCEPT ![c] = o]
    /\ always' = [always EXCEPT ![c] = {}]
    /\ ever' = [ever EXCEPT ![c] = {}]
    /\ UNCHANGED held

Refresh(c) ==
    /\ Ends(c, "refreshed")
    /\ cache' \in SUBSET Aws
    /\ always[c] \cap Aws \subseteq cache'
    /\ cache' \subseteq ever[c]

Keep(c) == Ends(c, "kept") /\ UNCHANGED cache

Next ==
    \/ \E c \in Calls : Ask(c) \/ Refresh(c) \/ Keep(c)
    \/ \E a \in Apps : Assign(a)

Spec == Init /\ [][Next]_vars
=============================================================================
