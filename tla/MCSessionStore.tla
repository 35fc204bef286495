--------------------------- MODULE MCSessionStore ---------------------------
(* Two completed sessions with id 1 (a uuid4()[:8] collision, or the same  *)
(* session written again) and one with id 2; paths are numbered so that   *)
(* the details can be sorted.                                             *)
EXTENDS SessionStore

MCSnapshots ==
    { [id |-> 1, changes |-> (1 :> [type |-> "created", added |-> 2, removed |-> 0])
                             @@ (2 :> [type |-> "modified", added |-> 1, removed |-> 1])],
      [id |-> 1, changes |-> (2 :> [type |-> "modified", added |-> 3, removed |-> 0])],
      [id |-> 2, changes |-> (1 :> [type |-> "deleted", added |-> 0, removed |-> 4])] }

\* The writers are interchangeable calls: every property quantifies over all
\* of them, and none is named in an action.
WriterSymmetry == Permutations(Writers)
=============================================================================
