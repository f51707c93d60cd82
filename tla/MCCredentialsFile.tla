------------------------- MODULE MCCredentialsFile -------------------------
(***************************************************************************)
(* CredentialsFile for TLC: two commands, each `get` or `switch` with any   *)
(* output, and two profiles; a `get` may know no account or role.          *)
(***************************************************************************)
EXTENDS CredentialsFile, TLC

CONSTANTS x, y, a, b

\* Every line that saves; of the others, and of those that do not know what to
\* get, the ones for one profile.
MCLines ==
    {l \in CommandLine :
        \/ l.known /\ (l.output = "awscli" \/ l.profile = a)
        \/ l.name = "get" /\ l.output # "json" /\ l.profile = a}

MCSymmetry == Permutations(Procs)
=============================================================================
