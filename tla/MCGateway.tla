------------------------------ MODULE MCGateway ------------------------------
(***************************************************************************)
(* Instances of Gateway for TLC: one browser, whose requests overlap.      *)
(***************************************************************************)
EXTENDS Gateway, Naturals, TLC

\* The roles the gateway or ListProjects tells apart.
MCRoles == {"worker", "department_manager", "director"}

\* Refresh tokens are random, and calls only carry them.
Interchangeable == Permutations(Tokens) \cup Permutations(Calls)

\* Overlapping logins and refreshes, by a user in no place whose role stays;
\* or one request at a time with a token at most, a report among them, while
\* the user's role, projects and department change.
OneThingAtATime ==
    \/ /\ \A c \in Calls : ~Report(c)
       /\ \A u \in Users : Places(u) = {None} /\ was[u] = {"worker"}
    \/ /\ Cardinality(issued) <= 1
       /\ Cardinality({c \in Calls : call[c] # Unused}) <= 1
==============================================================================
