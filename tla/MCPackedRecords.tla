-------------------------- MODULE MCPackedRecords --------------------------
EXTENDS PackedRecords, TLC
CONSTANTS a, b, c, d, m, s, t, two, three

MCEncoded    == s :> 1 @@ t :> 2
MCBlockCount == two :> 2 @@ three :> 3

File(n, x) == [name |-> n, content |-> x]
MCBatches ==
    {<<File(m, two)>>, <<File(a, s), File(b, s), File(c, s), File(d, s)>>,
     <<File(a, s)>>, <<File(a, s), File(m, three)>>, <<File(a, s), File(c, s)>>}
\* Two small files, two more that leave a gap in each block, and large ones
\* that need the space of the blocks in between.
MixedBatches ==
    {<<File(a, s), File(b, s), File(m, two)>>,
     <<File(c, t), File(a, s), File(m, three)>>, <<File(d, t)>>}
=============================================================================
