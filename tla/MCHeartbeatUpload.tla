------------------------- MODULE MCHeartbeatUpload -------------------------
(* Small instances of HeartbeatUpload for TLC.                             *)
EXTENDS HeartbeatUpload

(* Up to 5 rows: enough for a group of 4 or 5 rows, which max_n = 2 cuts   *)
(* into 3 chunks of unequal size (array_split's extras), and for rows of   *)
(* two or more groups interleaved in the CSV.                              *)
MCMaxRows == 5

(* Two present values per column give four groups whose sorted order can   *)
(* differ from their order of appearance.                                  *)
MCIds == {1, 2}

(* Ids with the empty cell, which pandas reads as NaN.                     *)
MCIdsWithNaN == {0, 1}

(* Stand-ins for 250: max_n = 2 and 3 (several chunks, exact multiples and *)
(* remainders); 1, whose last chunk is always empty; 0 and -1, the         *)
(* non-positive sizes the spec rejects.                                    *)
MCBatchSizes == {-1, 0, 1, 2, 3}

(* max_n = 1, which run() accepts when called from Python.                 *)
MCBatchSizeOne == {1}
=============================================================================
