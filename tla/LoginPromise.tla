---------------------------- MODULE LoginPromise ----------------------------
(***************************************************************************)
(* What `keyconjurer login` promises, with no ports, browser or handler:   *)
(* each attempt ends once, either having put the session that Okta issued  *)
(* to this very attempt into the keychain, or having left the keychain as  *)
(* it found it.  Login.tla is shown to implement this.                     *)
(***************************************************************************)
CONSTANTS Logins, None

VARIABLES outcome, keychain

vars == <<outcome, keychain>>

Init ==
    /\ outcome = [l \in Logins |-> "pending"]
    /\ keychain = None

\* The attempt ends with its own session in the keychain (login.go:132).
Succeed(l) ==
    /\ outcome[l] = "pending"
    /\ outcome' = [outcome EXCEPT ![l] = "stored"]
    /\ keychain' = l

\* The attempt ends with an error and whatever session was there stays.
Fail(l) ==
    /\ outcome[l] = "pending"
    /\ outcome' = [outcome EXCEPT ![l] = "failed"]
    /\ UNCHANGED keychain

Next == \E l \in Logins : Succeed(l) \/ Fail(l)

Spec == Init /\ [][Next]_vars
=============================================================================
