---------------------------- MODULE MCSaveStore ----------------------------
EXTENDS SaveStore, TLC

\* Saves, files and contents are told apart by name only.
Alike == Permutations(Saves) \cup Permutations(Files) \cup Permutations(Contents)
=============================================================================
