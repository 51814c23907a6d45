--------------------------- MODULE MCJobDispatch ---------------------------
(* JobDispatch on small instances.                                         *)
EXTENDS JobDispatch, TLC

CONSTANTS j1, j2, k1

\* Two identical jobs share their dedup key.
SameKey == [j \in Jobs |-> k1]

\* Two different jobs do not.
OwnKey == [j \in Jobs |-> j]

\* Jobs go to the whole fleet, or to any part of it.
WholeFleet == {Agents}
AnyTargets == SUBSET Agents

\* Agents, handlers and users are interchangeable, and so are jobs when all or no
\* two of them share a dedup key.
Symmetry == Permutations(Agents) \cup Permutations(Handlers) \cup Permutations(Users)
            \cup Permutations(Jobs)
=============================================================================
