------------------------------ MODULE MCDrive ------------------------------
EXTENDS Drive, TLC

RequestSymmetry == Permutations(Requests)
=============================================================================
