------------------------------ MODULE MCServer ------------------------------
EXTENDS Server

Kind(s, j, u) == [stream |-> s, json |-> j, usage |-> u]

MCKinds == {Kind(TRUE, FALSE, TRUE), Kind(TRUE, TRUE, FALSE), Kind(FALSE, FALSE, FALSE)}
=============================================================================
