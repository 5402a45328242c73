---------------------------- MODULE MCCliAdapter ----------------------------
EXTENDS CliAdapter

CONSTANTS x

Good(w) == [writes |-> w, encodable |-> TRUE]
Bad(w) == [writes |-> w, encodable |-> FALSE]

\* Nothing, a mint and a check of it, the same mint twice, a mint before an
\* argument that does not encode.
SomePlans ==
    {<<>>, <<Good(x), Good(Read)>>, <<Good(x), Good(x)>>, <<Good(x), Bad(x)>>}
=============================================================================
