--------------------------- MODULE MC_KeyInsertion ---------------------------
EXTENDS KeyInsertion

CONSTANTS v1, v2, v3

\* Three JSON entries, v3 lacking a seed field.
MCValidator == {v1, v2, v3}
MCComplete == {v1, v2}

\* No "beta" key, more entries than are used, an incomplete entry past the
\* cut, an incomplete entry inside it, and a single validator.
MCBetaLists == {<<>>, <<v1, v2, v3>>, <<v3, v1>>, <<v2>>}
=============================================================================
