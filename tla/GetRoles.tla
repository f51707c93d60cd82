------------------------------ MODULE GetRoles ------------------------------
(***************************************************************************)
(* `get` together with what it reads: the roles that GetCredentials        *)
(* supposes an account to offer are those that findRoleInSAML finds in the *)
(* account's assertion (command/get.go:176-179, command/roles.go:59-95).   *)
(***************************************************************************)
EXTENDS GetCredentials, SAMLAssertion

CONSTANT Offered    \* the values of the Role attribute that Okta has for an account

ASSUME OfferedAssumption ==
    /\ Roles \subseteq Segments
    /\ Offered \in [Ids -> Assertions]
    /\ \A id \in Ids : \A i \in DOMAIN Offered[id] : Paired(Offered[id][i])
    /\ RolesOf = [id \in Ids |-> {r \in Roles : findRoleInSAML(r, Offered[id]) # NoPair}]

\* The arguments of AssumeRoleWithSAML (get.go:187-192).
Asked == findRoleInSAML(req.role, Offered[req.id])

\* "FindFirstForm finds the first form within the given HTML document"
\* (html.go:100): whatever page answers a command that asks Okta for an assertion,
\* the assertion is of the form that comes first in the page, and of no other
\* (websso.go:71-86).
AssertionOfFirstForm == pc = "exchange" => Misread = {}

\* What get asks of AWS is a role of the name that the user gave or that was
\* remembered, in any case, with the provider it was offered with, in whatever
\* order the assertion has the two (get.go:176-192, roles.go:44-95).
AskedAsOffered == pc = "assume" => IsOffered(req.role, Asked, Offered[req.id])

\* When get asks Okta for an assertion: whatever pairs of a role and its provider
\* that has, nothing panics, each name that `roles` prints is one that get takes,
\* and a name that it does not print is unknown to get (roles.go:81-114).
PrintedCanBeGot == pc = "exchange" => Mistaken = {}
=============================================================================
