--------------------------- MODULE ProfileRegister ---------------------------
(***************************************************************************)
(* What the AWS credentials file is to a user whose commands do not        *)
(* overlap: a register for each profile, which a command sets in one step, *)
(* once, before it may report success, or not at all.  A save that is cut  *)
(* short is reported as a failure, or as nothing; it may lose profiles or  *)
(* the whole file, but gives none to another command.  CredentialsFile.tla *)
(* is shown to implement this while no two saves overlap.                  *)
(***************************************************************************)
CONSTANTS
    Procs,      \* the commands the user gives
    Profiles,
    None,       \* holds a profile that has no keys
    Lost,       \* holds a profile whose keys are not of one command
    Unreadable  \* what the file is worth to the AWS CLI when it is torn

VARIABLES
    target,     \* the profile each command is for
    holder,     \* whose keys each profile has
    outcome     \* what has become of each command

vars == <<target, holder, outcome>>

Becomes(p, o) ==
    /\ outcome' = [outcome EXCEPT ![p] = o]
    /\ UNCHANGED target

\* The commit point: the profile, and no other, is the command's.
Save(p) ==
    /\ outcome[p] = "saving" /\ holder # Unreadable
    /\ holder' = [holder EXCEPT ![target[p]] = p]
    /\ Becomes(p, "saved")

\* Exit status 0: what was to be saved is, once and for all.
Report(p) ==
    /\ outcome[p] \in {"talking", "saved"}
    /\ Becomes(p, "zero")
    /\ UNCHANGED holder

\* Another exit status, or an interruption; what was saved stays.
Fail(p) ==
    /\ outcome[p] \in {"talking", "saving", "saved"}
    /\ Becomes(p, "failed")
    /\ UNCHANGED holder

\* The save is cut short.
Lose(p) ==
    /\ outcome[p] = "saving" /\ holder # Unreadable
    /\ Becomes(p, "failed")
    /\ \/ holder' = Unreadable
       \/ \A q \in Profiles :
             \/ holder'[q] \in {holder[q], None, Lost}
             \/ q = target[p] /\ holder'[q] = p

Next == \E p \in Procs : Save(p) \/ Report(p) \/ Fail(p) \/ Lose(p)
=============================================================================
