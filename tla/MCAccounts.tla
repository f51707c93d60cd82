----------------------------- MODULE MCAccounts -----------------------------
(* Accounts for TLC: two applications, two names, and texts that call one   *)
(* application or both.                                                    *)
EXTENDS Accounts

T(aws, words, capitals, spaces) ==
    [aws |-> aws, words |-> words, capitals |-> capitals, spaces |-> spaces]

MCEmpty == T(FALSE, "", FALSE, FALSE)
MCIDs == {T(FALSE, "0oa1", FALSE, FALSE), T(FALSE, "0oa2", FALSE, FALSE)}

\* "AWS - Foo Bar" and "AWS - Baz"; the list may give both ids the same name.
FooBar == T(TRUE, "foo bar", TRUE, TRUE)
MCNames == {FooBar, T(TRUE, "baz", TRUE, FALSE)}

\* An id, "Foo Bar", "foo-bar", "mine" and nothing.
MCTyped ==
    {T(FALSE, "0oa1", FALSE, FALSE), NormalizeName(FooBar), DefaultAlias(FooBar),
     T(FALSE, "mine", FALSE, FALSE), MCEmpty}
=============================================================================
