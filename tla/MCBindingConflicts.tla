------------------------- MODULE MCBindingConflicts -------------------------
(* Small instances of BindingConflicts for TLC. *)
EXTENDS BindingConflicts, TLC

CONSTANT Excused    \* kinds of conflict after which a behaviour is not followed

\* Users that dial and users that do not are not interchangeable.
Symmetry == Permutations(Node) \cup Permutations(Dialers) \cup Permutations(User \ Dialers)
            \cup Permutations(Handler) \cup Permutations(Conn)

\* A behaviour in which operations on one user overlap is followed until the
\* overlap ends, and only among the operations that write the off flag.
NotExcused ==
    /\ raced \cap Excused = {}
    /\ "user" \in raced => /\ UserConflict /\ raced = {"user"} /\ apiUp
                           /\ \A p \in Proc : InFlight(p) =>
                                  task[p].op \in {"save", "traffic", "switch"}
=============================================================================
