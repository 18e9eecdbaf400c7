----------------------------- MODULE MCTpCommit -----------------------------
(***************************************************************************)
(* An instance of TpCommit: two regions, the first with blocks blkA and    *)
(* blkB, the second with block blkC.                                       *)
(***************************************************************************)
EXTENDS TpCommit

CONSTANTS p1, p2, p3, blkA, blkB, blkC

R(blk) == [blk |-> blk, upd |-> FALSE]
W(blk) == [blk |-> blk, upd |-> TRUE]

MCReg == blkA :> 1 @@ blkB :> 1 @@ blkC :> 2

\* The transactions of p1, p2 and p3.
MCPrograms ==
    {p1 :> x[1] @@ p2 :> x[2] @@ p3 :> x[3] : x \in {
        \* An update of both regions, and one that meets them in the opposite order:
        \* a reader, an updater, one that reads a block a second time.
        << <<W(blkA), W(blkC)>>, <<R(blkC), R(blkA)>>, <<>> >>,
        << <<W(blkA), W(blkC)>>, <<W(blkC), W(blkA)>>, <<>> >>,
        << <<W(blkA), W(blkC)>>, <<R(blkC), W(blkA), R(blkC)>>, <<>> >>,
        \* Each updates what the other reads.
        << <<R(blkA), W(blkC)>>, <<R(blkC), W(blkA)>>, <<>> >>,
        \* Two blocks of a region.
        << <<W(blkA), W(blkB)>>, <<R(blkA), R(blkB)>>, <<>> >>,
        \* Two updates, and a reader that must not see them in different orders.
        << <<W(blkA)>>, <<R(blkA), R(blkC)>>, <<W(blkC)>> >> }}

\* The reader of what two updates left, one of which met an error.
WindowPrograms == {p1 :> <<R(blkA), W(blkC)>> @@ p2 :> <<W(blkA)>>
                        @@ p3 :> <<R(blkA), R(blkC)>>}
=============================================================================
