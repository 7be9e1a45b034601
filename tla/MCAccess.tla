------------------------------- MODULE MCAccess -------------------------------
\* A small instance of Access: a founder and one more account.
EXTENDS Access, TLC

CONSTANTS ann, ops, ga, gh, b1, c1, c2, l1, l2, t1, t2, a1, w

MCProviderOf == (ga :> "google") @@ (gh :> "google")
MCMailsOf == (ga :> {ann}) @@ (gh :> {ops, ann})
MCLists == {{ops}, {ops, ann}}
MCOwnerOf == b1 :> ops
Alike == Permutations(Calls) \cup Permutations(Logins) \cup Permutations(Grants)
=============================================================================
