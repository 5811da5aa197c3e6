-------------------------- MODULE MCPersistedFile --------------------------
(* TLC instances of PersistedFile.                                         *)
EXTENDS PersistedFile, TLC

\* Inodes, values and writers only ever get compared.
Symmetry == Permutations(Inodes) \cup Permutations(Keys) \cup Permutations(Writers)
=============================================================================
