------------------------------ MODULE MCMemoryFS ------------------------------
(* Two file systems with few paths and little room, for TLC. *)
EXTENDS MemoryFS, TLC

CONSTANTS s1, s2, c

MCSlot      == {s1, s2}
MCAddr      == 1..2
\* There is room for /a/b/c, as a file or a directory, and for nothing below it.
MCPath      == {<<>>, <<"a">>, <<"a", "b">>, <<"a", "b", "c">>, <<"a", "b", "c", "d">>,
                <<"n">>, <<"n", "b">>}
MCDevice    == <<"n">>
MCPathBytes == [p \in MCPath |-> Len(p)]
MCChunk     == {c}
MCContent   == {<<>>, <<c>>}
Slots       == Permutations(MCSlot)
===============================================================================
