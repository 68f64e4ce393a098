--------------------------- MODULE MCUserAccounts ---------------------------
(* UserAccounts with few accounts, values and requests.                    *)
EXTENDS UserAccounts, TLC

Symmetry == Permutations(Requests) \cup Permutations(Accounts)
            \cup Permutations(Emails) \cup Permutations(Subs)

\* No action reads the last event of a profile, and no property does once the
\* account has had overlapping updates.
View == <<table, announced, req, abandoned, overlapped,
          [a \in Accounts \ overlapped |-> profile[a]]>>
=============================================================================
