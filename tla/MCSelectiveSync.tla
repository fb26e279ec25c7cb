--------------------------- MODULE MCSelectiveSync ---------------------------
(* A folder with a file in it and a folder in it, which holds a file of the *)
(* same name; the inner folder is excluded, or the only one included.       *)
EXTENDS SelectiveSync

CONSTANTS a, b, d, e

AboveTree == [p \in {a, b, d, e} |->
                CASE p = a -> {a, d} [] p = b -> {b, e, d} [] p = d -> {d} [] p = e -> {e, d}]

OneName == {<<a, b>>, <<b, a>>}

SomeLists == {[include |-> {}, exclude |-> {}], [include |-> {}, exclude |-> {e}],
              [include |-> {e}, exclude |-> {}]}
=============================================================================
