------------------------- MODULE MCApplicationsApi -------------------------
(* ApplicationsApi for TLC: the runs of the command differ only in name.   *)
EXTENDS ApplicationsApi, TLC

CONSTANTS x, y

\* Okta has nothing for the empty name, or everything.
MCNameless == {{}, Apps}
=============================================================================
