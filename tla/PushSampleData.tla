---------------------------- MODULE PushSampleData ----------------------------
(***************************************************************************)
(* scripts/push_sample_data.py: generate_data(n, projects, offset) and     *)
(* post_data_sync, one POST per heartbeat.                                 *)
(*                                                                         *)
(* generate_data builds the whole list before the first request, and can   *)
(* raise on the way: random.choice on an empty project list (IndexError),  *)
(* random.randint(0, offset - 1) on an empty range (ValueError), and       *)
(* now - delta below year 1 (OverflowError).  The send loop exits with     *)
(* status 1 on the first answer other than 201; an exception of requests   *)
(* ends the script with status 1 too, after the server may have stored     *)
(* the heartbeat.                                                          *)
(*                                                                         *)
(* Data abstraction: the heartbeats are random and pairwise distinct, so   *)
(* the j-th generated heartbeat is the number j; its fields are left out.  *)
(***************************************************************************)
EXTENDS Integers, Sequences

CONSTANTS
  Ns,             \* the values of -n the user may give
  ProjectCounts,  \* the values of -p (--projects)
  Offsets,        \* the values of -o (--offset), in hours
  OverflowHours   \* the hours from year 1 to now: a larger delta overflows

NsAssumption == Ns \subseteq Int
ASSUME NsAssumption
ProjectCountsAssumption == ProjectCounts \subseteq Int
ASSUME ProjectCountsAssumption
OffsetsAssumption == Offsets \subseteq Int
ASSUME OffsetsAssumption
OverflowHoursAssumption == OverflowHours \in Nat
ASSUME OverflowHoursAssumption

(* The heartbeats a run can generate: the j-th one is j.                   *)
Heartbeats == Nat \ {0}

VARIABLES
  pc,      \* "start" | "post" | "exited"
  data,    \* the list generate_data returned
  i,       \* the position in data of the heartbeat being posted
  stored,  \* the heartbeats the server stored, in the order stored
  code     \* the exit status, once exited

vars == <<pc, data, i, stored, code>>

-----------------------------------------------------------------------------
(* generate_data raises before it returns: random.choice(projects) with no *)
(* project, random.randint(0, n_past_hours - 1) with no hour, or a delta   *)
(* drawn beyond year 1.  The loop body only runs when n > 0.               *)
GenerationFails(n, p, off) == n > 0 /\ (p <= 0 \/ off <= 0 \/ off > OverflowHours)

(* generate_data returns: no heartbeat, or every draw stayed after year 1. *)
GenerationSucceeds(n, p, off) == n <= 0 \/ (p > 0 /\ off > 0)

(* The list generate_data(n, ...) returns: n distinct heartbeats.          *)
Generated(n) == [j \in 1..n |-> j]

Init ==
  /\ pc = "start"
  /\ data = <<>>
  /\ i = 1
  /\ stored = <<>>
  /\ code = 0

(* __main__: generate_data(args.n, args.projects, args.offset).            *)
Generate ==
  /\ pc = "start"
  /\ \E n \in Ns, p \in ProjectCounts, off \in Offsets :
       \/ /\ GenerationFails(n, p, off)
          /\ pc' = "exited"
          /\ code' = 1
          /\ UNCHANGED data
       \/ /\ GenerationSucceeds(n, p, off)
          /\ data' = Generated(n)
          /\ pc' = "post"
          /\ UNCHANGED code
  /\ UNCHANGED <<i, stored>>

(* requests.post answers 201: the server stored the heartbeat.             *)
PostCreatedDoubleStep ==
  /\ pc = "post"
  /\ i <= Len(data)
  /\ stored' = Append(stored, data[i])
  /\ i' = i + 2
  /\ UNCHANGED <<pc, data, code>>
PostCreated ==
  /\ pc = "post"
  /\ i <= Len(data)
  /\ stored' = Append(stored, data[i])
  /\ i' = i + 1
  /\ UNCHANGED <<pc, data, code>>

(* Any other status: print(r.text) and sys.exit(1), nothing stored.        *)
PostRejectedNoExit ==
  /\ pc = "post"
  /\ i <= Len(data)
  /\ i' = i + 1
  /\ UNCHANGED <<pc, data, stored, code>>
PostRejected ==
  /\ pc = "post"
  /\ i <= Len(data)
  /\ pc' = "exited"
  /\ code' = 1
  /\ UNCHANGED <<data, i, stored>>

(* requests raises (connection reset, read error): the traceback ends the  *)
(* script with status 1, and the server may have stored the heartbeat.     *)
PostLostContinues ==
  /\ pc = "post"
  /\ i <= Len(data)
  /\ stored' \in {stored, Append(stored, data[i])}
  /\ i' = i + 1
  /\ UNCHANGED <<pc, data, code>>
PostLost ==
  /\ pc = "post"
  /\ i <= Len(data)
  /\ stored' \in {stored, Append(stored, data[i])}
  /\ pc' = "exited"
  /\ code' = 1
  /\ UNCHANGED <<data, i>>

(* The for loop is over and the script ends with status 0.                 *)
FinishEarly ==
  /\ pc = "post"
  /\ i >= Len(data)
  /\ pc' = "exited"
  /\ UNCHANGED <<data, i, stored, code>>
Finish ==
  /\ pc = "post"
  /\ i > Len(data)
  /\ pc' = "exited"
  /\ UNCHANGED <<data, i, stored, code>>

Exited ==
  /\ pc = "exited"
  /\ UNCHANGED vars

Next == Generate \/ PostCreated \/ PostRejected \/ PostLost \/ Finish \/ Exited

Spec == Init /\ [][Next]_vars

-----------------------------------------------------------------------------
TypeOK ==
  /\ pc \in {"start", "post", "exited"}
  /\ data \in Seq(Heartbeats)
  /\ i \in 1..Len(data) + 1
  /\ stored \in Seq(Heartbeats)
  /\ code \in {0, 1}

(* When the script stops, the server holds exactly the heartbeats before   *)
(* the one post_data_sync was posting, and at most that one besides, in    *)
(* the order generated: a non-201 answer or an exception ends the loop     *)
(* before anything later is sent, and no heartbeat is skipped.             *)
StoredIsLoopPrefix ==
  /\ Len(stored) \in {i - 1, i}
  /\ stored = SubSeq(data, 1, Len(stored))
  /\ pc = "post" => Len(stored) = i - 1

(* Exit status 0 means the server stored every generated heartbeat.        *)
ExitZeroMeansAllStored == pc = "exited" /\ code = 0 => stored = data

(* The script implements SendLoop: the list is generate_data's, the server *)
(* receives a gapless prefix of it, and only a full one ends in status 0.  *)
Outcome ==
  CASE pc = "start" -> "idle"
    [] pc = "post" -> "running"
    [] pc = "exited" /\ code = 0 -> "ok"
    [] pc = "exited" /\ code = 1 -> "failed"

SL == INSTANCE SendLoop WITH
        Item <- Heartbeats, items <- data, delivered <- stored, outcome <- Outcome

ImplementsSendLoop == SL!Spec
=============================================================================
