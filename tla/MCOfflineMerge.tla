------------------------------ MODULE MCOfflineMerge ------------------------------
(* OfflineMerge with a dataBuf of 16 words: packets of one to three events, 14 to 16 *)
(* words long.                                                                       *)
EXTENDS OfflineMerge

\* A run number reads like an edge, like event 2, or like a long header.
MCRunNumbers == {Edge(0, 0, 0), Header(2, 0), Header(0, 13)}

\* The other file is empty, shorter, as long, or longer.
MCOtherFiles == {<<>>, <<0>>, <<1, 0, 1>>, <<0, 1, 0, 2, 0, 1, 0>>}
================================================================================
