------------------------------ MODULE MCChannel ------------------------------
EXTENDS Channel
CONSTANTS a, b
\* The initiator of the relay has a name, which of the two answers in the mesh is open.
Surroundings == {s \in Setting : s.initiator = a}
=============================================================================
