--------------------------- MODULE MCSampleDataGui ---------------------------
(* Model values for SampleDataGui.                                         *)
EXTENDS SampleDataGui

(* Up to 4 heartbeats: single mode then posts several requests, so a      *)
(* failure can come after some were stored.                                *)
MCMaxN == 4

(* The offset spin box ranges over -2147483647..0: 0 makes randint fail,  *)
(* -1 is a safe offset, and -5 lies past MCOverflowHours.                  *)
MCOffsets == {-5, -1, 0}

(* datetime.min lies about 17.7 million hours before now; 3 stands for it. *)
MCOverflowHours == 3

(* Headless -n: a negative count, none, and up to MCMaxN.                  *)
MCNs == -1..MCMaxN

(* Headless -p: no project (random.choice raises) and the default 5.       *)
MCProjectCounts == {0, 5}

MCOutcomes == {"ok", "RequestError", "RequestErrorStored", "HTTPStatusError"}

(* Requests always succeed or fail with a RequestError, and the offset and *)
(* the project count are safe: the window's own logic alone.               *)
MCCaughtOutcomes == {"ok", "RequestError", "RequestErrorStored"}
MCSafeOffsets == {-1}
MCSafeProjectCounts == {5}
=============================================================================
