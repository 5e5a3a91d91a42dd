---------------------------- MODULE MCAcmeLimits ----------------------------
EXTENDS AcmeLimits, TLC
Interchangeable == Permutations(Source) \cup Permutations(Account)
=============================================================================
