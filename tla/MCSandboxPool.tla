--------------------------- MODULE MCSandboxPool ---------------------------
(***************************************************************************)
(* Instances of SandboxPool for TLC.                                       *)
(***************************************************************************)
EXTENDS SandboxPool, TLC

\* Ids are unique: each handle is its own id.
UniqueIds == [h \in Handles |-> h]

\* Callers, replenishers and handles are interchangeable.
Symmetry ==
    Permutations(Handles) \cup Permutations(Callers)
        \cup Permutations(Replenishers)

\* Handles h1 and h2 carry the same id (a HostBackend id has eight hex digits).
CONSTANTS h1, h2
CollidingIds == [h \in Handles |-> IF h = h2 THEN h1 ELSE h]

\* The other handles are interchangeable then.
CollideSymmetry ==
    Permutations(Handles \ {h1, h2}) \cup Permutations(Callers)
        \cup Permutations(Replenishers)
=============================================================================
