--------------------------- MODULE SAMLAssertion ---------------------------
(***************************************************************************)
(* The pure part of `get` and `roles`: which assertion is taken from       *)
(* Okta's page (oktawebsso/html.go, websso.go:71-86) and which roles from  *)
(* the assertion (command/roles.go:39-114).                                *)
(*                                                                         *)
(* An assertion, or what an input holds, is the number of the input; text  *)
(* is split where the program splits it, and otherwise not looked into.    *)
(***************************************************************************)
EXTENDS Naturals, SequencesExt

CONSTANTS
    MaxNodes,   \* bounds a page
    MaxValues,  \* bounds the values of the Role attribute
    Segments,   \* what stands between the slashes of an ARN
    Fold        \* a segment in lower case

ASSUME AssertionAssumption ==
    /\ MaxNodes \in Nat /\ MaxValues \in Nat
    /\ DOMAIN Fold = Segments

----------------------------------------------------------------------------
(* The page                                                                *)

\* The nodes of a document in its order.  The parent of its first is 0; a node
\* between a parent and its child is below that parent.
Trees(size) ==
    {p \in [1..size -> 0..size] :
        /\ \A n \in 1..size : p[n] < n
        /\ \A m, n \in 1..size : p[n] < m /\ m < n => p[n] <= p[m]}

\* An input is given by its name; a text is no element.
Data == {"form", "SAMLResponse", "RelayState", "div", "text"}

Inputs == {"SAMLResponse", "RelayState"}

Below(page, a, n) == n > a /\ \A m \in (a + 1)..n : page.parent[m] >= a

\* What html.Parse returns: inputs and texts are leaves, and a form is in no
\* other form.
Pages ==
    {page \in UNION {[parent : Trees(n), data : [1..n -> Data]] : n \in 0..MaxNodes} :
        \A m, n \in DOMAIN page.data :
            /\ page.parent[n] = m => page.data[m] \in {"form", "div"}
            /\ page.data[m] = "form" /\ page.data[n] = "form" => ~Below(page, m, n)}

\* The least of them; 0 is nil.
Least(S) == IF S = {} THEN 0 ELSE Min(S)

FirstChild(page, n) == Least({m \in DOMAIN page.data : page.parent[m] = n})

NextSibling(page, n) ==
    Least({m \in DOMAIN page.data : m > n /\ page.parent[m] = page.parent[n]})

Forms(page) == {n \in DOMAIN page.data : page.data[n] = "form"}

----------------------------------------------------------------------------
(* The walk                                                                *)

\* As Round, but only the loop that met the node ends.
Round_OneLoopEnds(page, stops, n, inner, rest) ==
    IF page.data[n] = "text" THEN rest
    ELSE IF n \in stops THEN <<n>>
    ELSE <<n>> \o inner \o rest

\* What the walker is given from node n on, if the inner loop gives it inner and
\* the siblings that follow give it rest: a stop ends the loops at every depth.
Round(page, stops, n, inner, rest) ==
    IF page.data[n] = "text" THEN rest
    ELSE IF n \in stops THEN <<n>>
    ELSE IF ToSet(inner) \cap stops # {} THEN <<n>> \o inner
    ELSE <<n>> \o inner \o rest

\* The nodes below a node that the walker is given, in order, if it stops the
\* walk at those of stops.
walkInner(page, node, stops) ==
    LET loop[n \in 0..MaxNodes] ==
            IF n = 0 THEN <<>>
            ELSE Round(page, stops, n, loop[FirstChild(page, n)], loop[NextSibling(page, n)])
    IN loop[FirstChild(page, node)]

\* The walker notes every form it is given and asks to stop; 0 if there is none.
FindFirstForm(page) ==
    LET seen == walkInner(page, 0, Forms(page))
        noted == {i \in DOMAIN seen : seen[i] \in Forms(page)}
    IN IF noted = {} THEN 0 ELSE seen[Max(noted)]

\* Form.Inputs: the last input of a name is what the name stands for.
collectFormValues(page, form) ==
    LET seen == walkInner(page, form, {})
        Named(name) == {i \in DOMAIN seen : page.data[seen[i]] = name}
    IN [name \in {k \in Inputs : Named(k) # {}} |-> seen[Max(Named(name))]]

\* The assertion; 0 for an error.  No status but 500 is looked at.
GetSAMLAssertion(status, page) ==
    IF status = 500 \/ FindFirstForm(page) = 0 THEN 0
    ELSE LET values == collectFormValues(page, FindFirstForm(page))
         IN IF "SAMLResponse" \in DOMAIN values THEN values["SAMLResponse"] ELSE 0

----------------------------------------------------------------------------
(* The roles                                                               *)

\* An ARN from "role/" or "saml-provider/" on.  A role may have a path before
\* its name.
ARNs == [kind : {"role", "saml-provider"}, path : UNION {[1..n -> Segments] : n \in 1..2}]

\* A value of the attribute, split at its commas.
AttributeValues == UNION {[1..n -> ARNs] : n \in 1..2}

\* The values of the attribute.
Assertions == UNION {[1..n -> AttributeValues] : n \in 0..MaxValues}

\* roleProviderPair{}; no ARN has an empty text.
NoPair ==
    LET empty == [kind |-> "none", path |-> <<>>]
    IN [role |-> empty, provider |-> empty]

\* As getARN for the values with the provider first.
getARN_ProviderFirst(value) ==
    IF Len(value) < 2 THEN NoPair ELSE [provider |-> value[1], role |-> value[2]]

\* One of the two is the provider; which one, the first one shows.
getARN(value) ==
    IF Len(value) < 2 THEN NoPair
    ELSE IF value[1].kind = "saml-provider" THEN [provider |-> value[1], role |-> value[2]]
    ELSE [provider |-> value[2], role |-> value[1]]

\* Without a "role/" the index is -1, and to slice with it panics.
Panics(values) == \E i \in DOMAIN values : getARN(values[i]).role.kind # "role"

\* parts[1] is the first segment: a path, if the role has one.
NameOf(pair) == pair.role.path[1]

\* As Hits, for names with their case.
Hits_CaseMatters(name, values) == {i \in DOMAIN values : NameOf(getARN(values[i])) = name}

Hits(name, values) ==
    {i \in DOMAIN values : Fold[NameOf(getARN(values[i]))] = Fold[name]}

\* The last of the pairs with the name in any case; NoPair is "false".
findRoleInSAML(name, values) ==
    IF Hits(name, values) = {} THEN NoPair ELSE getARN(values[Max(Hits(name, values))])

listRoles(values) == [i \in DOMAIN values |-> NameOf(getARN(values[i]))]

----------------------------------------------------------------------------
(* What the operators must do; GetRoles.tla states the properties.         *)

\* The page is read as its definition by the order of the document would have it:
\* the last SAMLResponse of the form that comes first, unless there is none of
\* either or the error is internal.
ReadsFirstForm(page, status) ==
    LET first == Least(Forms(page))
        theirs == {n \in DOMAIN page.data :
                      page.data[n] = "SAMLResponse" /\ Below(page, first, n)}
    IN GetSAMLAssertion(status, page) =
          IF status = 500 \/ first = 0 \/ theirs = {} THEN 0 ELSE Max(theirs)

\* The pages that are not read so.
Misread == {page \in Pages : \E status \in {200, 404, 500} : ~ReadsFirstForm(page, status)}

\* A role and its provider, in whatever order.
Paired(value) == {a.kind : a \in ToSet(value)} = {"role", "saml-provider"}

\* A role of that name with the provider it was given with.
IsOffered(name, pair, values) ==
    /\ pair.role.kind = "role"
    /\ Fold[NameOf(pair)] = Fold[name]
    /\ \E i \in DOMAIN values : ToSet(values[i]) = {pair.role, pair.provider}

\* Neither command panics; each name that `roles` prints is one that `get` takes,
\* and a name that it does not print is unknown to `get`.
ListedIsFound(values) ==
    /\ ~Panics(values)
    /\ \A name \in Segments :
          LET pair == findRoleInSAML(name, values)
          IN IF \E i \in DOMAIN values : Fold[listRoles(values)[i]] = Fold[name]
             THEN IsOffered(name, pair, values)
             ELSE pair = NoPair

\* The assertions of such pairs with which `roles` and `get` do not agree.
Mistaken ==
    {values \in Assertions :
        (\A i \in DOMAIN values : Paired(values[i])) /\ ~ListedIsFound(values)}
=============================================================================
