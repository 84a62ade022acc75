----------------------------- MODULE MCSessions -----------------------------
EXTENDS Sessions, TLC

Interchangeable == Permutations(Requests) \cup Permutations(Passwords)
=============================================================================
