------------------------------ MODULE MCAccess ------------------------------
\* Keys and requests are interchangeable.
EXTENDS Access, TLC

Interchangeable == Permutations(Keys) \cup Permutations(Requests)
=============================================================================
