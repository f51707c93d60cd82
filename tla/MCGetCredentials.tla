-------------------------- MODULE MCGetCredentials --------------------------
(***************************************************************************)
(* GetCredentials for TLC: an account in the cache and one that is not, two *)
(* roles of which the second account offers one; an hour is one unit of    *)
(* the clock and an int is three bits wide, so that 10 hours wrap to 2.    *)
(***************************************************************************)
EXTENDS GetRoles

CONSTANTS a, b, admin, reader, ADMIN

MCFold == (admin :> admin) @@ (reader :> reader) @@ (ADMIN :> admin)

Role(name) == [kind |-> "role", path |-> <<name>>]

Provider == [kind |-> "saml-provider", path |-> <<ADMIN>>]

\* The assertions of Okta, and the roles that get finds in them.
MCValues ==
    (a :> <<<<Provider, Role(ADMIN)>>, <<Role(reader), Provider>>>>)
    @@ (b :> <<<<Provider, Role(reader)>>>>)

MCRolesOf == [i \in Ids |-> {r \in Roles : findRoleInSAML(r, MCValues[i]) # NoPair}]

NoFlags == [role |-> None, login |-> FALSE, bypass |-> FALSE, ttl |-> 1,
            remaining |-> DefaultTimeRemaining]

\* Any account, or none, with two flags at most.
MCLines ==
    {l \in [arg : Ids \cup {None}, role : Roles \cup {None}, login : BOOLEAN,
            bypass : BOOLEAN, ttl : {1, 10}, remaining : {0, DefaultTimeRemaining}] :
        Cardinality({f \in DOMAIN NoFlags : l[f] # NoFlags[f]}) <= 2}

\* The defaults, and a user who set both.
MCSettings == {[ttl |-> 1, remaining |-> 0], [ttl |-> 2, remaining |-> 2]}
=============================================================================
