----------------------------- MODULE MCChunkDb -----------------------------
EXTENDS ChunkDb

CONSTANTS t1, t2, src, big, virt, down, a, b

\* src is short of a chunk by a byte; big is larger than MaxInt.
MCBlock == [p \in {src, big} |-> IF p = src THEN [c \in 0 .. 1 |-> IF c = 0 THEN a ELSE b]
                                 ELSE [c \in 0 .. 4 |-> IF c % 2 = 0 THEN b ELSE a]]
MCSize == [p \in {src, big} |-> IF p = src THEN 3 ELSE 10]

\* virt has the last chunk of the file in the middle, down has it in front.
Order(n, i, h, eof, size) == [fileIndex |-> [c \in 0 .. n - 1 |-> i[c + 1]],
                              hash |-> [c \in 0 .. n - 1 |-> h[c + 1]],
                              eofIndex |-> eof, eofSize |-> size]
MCMap == [p \in {virt, down} |->
            IF p = virt THEN Order(3, <<0, 2, 1>>, <<a, b, a>>, 1, 1)
            ELSE Order(2, <<1, 0>>, <<b, a>>, 0, 1)]

MCRanges == {[offset |-> 0, count |-> 3], [offset |-> 1, count |-> 5], [offset |-> 2, count |-> 2],
             [offset |-> 3, count |-> 0]}
MCParts == {[offset |-> 0, count |-> 1], [offset |-> 1, count |-> 3], [offset |-> 0, count |-> 4]}

Symmetry == Permutations(Threads)
===========================================================================
