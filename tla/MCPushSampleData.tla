--------------------------- MODULE MCPushSampleData ---------------------------
(* Model values for PushSampleData.                                        *)
EXTENDS PushSampleData

(* A negative -n and 0 give an empty list; 1..9 let a failure come after   *)
(* some heartbeats were stored and before others were sent.                *)
MCNs == -1..9

(* No project (random.choice raises) and the default 5.                    *)
MCProjectCounts == {0, 5}

(* No hour (randint raises), the default 24, and one past year 1.          *)
MCOffsets == {0, 24, 40}

(* Stands for the hours since year 1: 40 reaches beyond it, 24 does not.   *)
MCOverflowHours == 30
=============================================================================
