------------------------------- MODULE SendLoop -------------------------------
(***************************************************************************)
(* What a script that posts a list of items one request at a time promises *)
(* its user: the server receives the items in the order of the list, with  *)
(* no gap, and the script reports success only once the server has all of  *)
(* them.  A failure ends the script; the request it was waiting for when   *)
(* it failed may or may not have reached the server.                       *)
(***************************************************************************)
EXTENDS Naturals, Sequences

CONSTANT Item   \* the items a list can hold

VARIABLES
  items,      \* the list the script was started with
  delivered,  \* what the server received, in the order received
  outcome     \* "idle" | "running" | "ok" | "failed"

vars == <<items, delivered, outcome>>

(* The item the script is waiting for an answer on.                        *)
Pending == items[Len(delivered) + 1]

Init ==
  /\ items = <<>>
  /\ delivered = <<>>
  /\ outcome = "idle"

(* The script has its list and starts posting.                             *)
Start ==
  /\ outcome = "idle"
  /\ items' \in Seq(Item)
  /\ outcome' = "running"
  /\ UNCHANGED delivered

(* The next item reaches the server.                                       *)
Deliver ==
  /\ outcome = "running"
  /\ Len(delivered) < Len(items)
  /\ delivered' = Append(delivered, Pending)
  /\ UNCHANGED <<items, outcome>>

(* Every item has reached the server and the script says so.               *)
Complete ==
  /\ outcome = "running"
  /\ delivered = items
  /\ outcome' = "ok"
  /\ UNCHANGED <<items, delivered>>

(* The script fails, before it has its list or while it posts; the         *)
(* pending item may have reached the server all the same.                  *)
Fail ==
  /\ outcome \in {"idle", "running"}
  /\ \/ UNCHANGED delivered
     \/ /\ outcome = "running"
        /\ Len(delivered) < Len(items)
        /\ delivered' = Append(delivered, Pending)
  /\ outcome' = "failed"
  /\ UNCHANGED items

Next == Start \/ Deliver \/ Complete \/ Fail

Spec == Init /\ [][Next]_vars
=============================================================================
