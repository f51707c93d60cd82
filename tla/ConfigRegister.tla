--------------------------- MODULE ConfigRegister ---------------------------
(***************************************************************************)
(* What the configuration file is to a user who waits for each command to  *)
(* end before giving the next: a register that a command updates in one     *)
(* step or not at all.  An interrupted save may lose it, either silently   *)
(* (the settings are the defaults again) or for good (no later command can *)
(* read it).  ConfigStore.tla implements this while no two commands overlap.*)
(***************************************************************************)
CONSTANTS
    Procs,      \* the commands the user gives
    Fields,     \* the members of Config
    Commands,   \* the sets of fields that a command may change
    Unset,      \* the default of a field
    Unreadable  \* what a torn file is worth

VARIABLES value, outcome

vars == <<value, outcome>>

Defaults == [f \in Fields |-> Unset]

\* The configuration c after p changed the fields in cmd, each to a value of
\* its own or back to its default (`set ttl 0`).
Changes(p, cmd, c) ==
    {[f \in Fields |-> IF f \in cmd THEN v ELSE c[f]] : v \in {p, Unset}}

Ends(p, o) ==
    /\ outcome[p] = "pending"
    /\ outcome' = [outcome EXCEPT ![p] = o]

Commit(p) ==
    /\ Ends(p, "done")
    /\ value # Unreadable
    /\ \E cmd \in Commands : value' \in Changes(p, cmd, value)

Fail(p) == Ends(p, "failed") /\ UNCHANGED value

Lose(p) ==
    /\ Ends(p, "failed")
    /\ value # Unreadable
    /\ value' \in {Defaults, Unreadable}

Next == \E p \in Procs : Commit(p) \/ Fail(p) \/ Lose(p)
=============================================================================
