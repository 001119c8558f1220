--------------------------- MODULE MCRangeReader ---------------------------
(* A small file read by a demuxer: from the start, past what has been read, *)
(* near the end, at it, and back again.                                     *)
EXTENDS RangeReader

MCReads == {<<0, 1>>, <<6, 1>>, <<7, 1>>}
====
