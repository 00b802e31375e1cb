--------------------------- MODULE MCMountSession ---------------------------
EXTENDS MountSession

CONSTANTS d, e, f, hidden

\* Two directories with room for the same file, and the name libfuse gives to
\* a file that is unlinked while in use.
TreeAndHidden == {<<d>>, <<e>>, <<d, f>>, <<e, f>>, <<hidden>>}

HiddenName == {<<hidden>>}

\* The two directories are alike; contents and handles are only compared.
Symmetric == Permutations({d, e}) \cup Permutations(Contents) \cup Permutations(Handles)
=============================================================================
