--------------------------- MODULE MCSchemaStream ---------------------------
(* SchemaStream for TLC: the parts of a definition are interchangeable. *)
EXTENDS SchemaStream, TLC

Symmetry == Permutations(Relids) \cup Permutations(Names) \cup Permutations(Cols)
            \cup Permutations(Attrs) \cup Permutations(Keys)
=============================================================================
