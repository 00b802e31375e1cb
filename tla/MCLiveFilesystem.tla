-------------------------- MODULE MCLiveFilesystem --------------------------
EXTENDS LiveFilesystem
CONSTANTS f, g, empty, one, two
MCBlockCount == [c \in Contents |-> CASE c = empty -> 0 [] c = one -> 1 [] c = two -> 2]
=============================================================================
