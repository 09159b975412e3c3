---- MODULE MCActionMarks ----
EXTENDS ActionMarks, TLC
Symmetry == Permutations(Messages) \cup Permutations(Drafts) \cup Permutations(MarkerIds) \cup Permutations(Subjects)
====
