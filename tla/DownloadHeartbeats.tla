------------------------- MODULE DownloadHeartbeats -------------------------
(***************************************************************************)
(* scripts/download_heartbeats.py, launched again and again by a user.     *)
(*                                                                         *)
(* A launch refuses to start when the output file exists.  Otherwise run() *)
(* asks the server for the user's all-time range, clamps it to --from and  *)
(* --to, opens the CSV for writing and appends the heartbeats of every day *)
(* of the range, one GET per day.  Any failed GET raises out of the script *)
(* and leaves the rows written so far in the file.                         *)
(*                                                                         *)
(* Data abstraction: a date is a day number, Today the last one; a         *)
(* heartbeat is <<day, j>>, the j-th one the server holds for that day.    *)
(* The server's all-time range runs from its first day with heartbeats to  *)
(* Today, and a day after Today holds none.                                *)
(***************************************************************************)
EXTENDS Integers, Sequences, SequencesExt

CONSTANTS
  Today,        \* the day the script runs; days are 0..Today
  MaxPerDay,    \* bound on the heartbeats the server holds for one day
  MaxLaunches   \* bound on how often the user starts the script

TodayAssumption == Today \in Nat
ASSUME TodayAssumption
MaxPerDayAssumption == MaxPerDay \in Nat
ASSUME MaxPerDayAssumption
MaxLaunchesAssumption == MaxLaunches \in Nat \ {0}
ASSUME MaxLaunchesAssumption

Days == 0..Today

VARIABLES
  server,      \* day -> number of heartbeats the server holds for it
  fromD, toD,  \* the --from and --to arguments of the current launch
  pc,          \* "start" | "range" | "fetch" | "done" | "failed" | "refused"
  fileExists,  \* os.path.exists(args.output)
  file,        \* the rows of the output CSV, in the order written
  lo, hi,      \* total_range, as returned by fetch_total_range
  x,           \* the next offset of the date_range loop
  launches     \* how often the script was started

vars == <<server, fromD, toD, pc, fileExists, file, lo, hi, x, launches>>

-----------------------------------------------------------------------------
(* The heartbeats the server returns for a date; none after Today.         *)
HeartbeatsOn(d) == IF d \in Days THEN server[d] ELSE 0

(* all_time_since_today's range: the first day with heartbeats, or Today. *)
RangeStart == IF \E d \in Days : server[d] > 0
              THEN CHOOSE d \in Days : server[d] > 0 /\ \A e \in 0..d-1 : server[e] = 0
              ELSE Today

(* The rows csv.DictWriter writes for the answer of fetch_heartbeats(d).   *)
DayRows(d) == [j \in 1..HeartbeatsOn(d) |-> <<d, j>>]

(* len(date_range): range(0, (end - start).days + 2) has that many items,  *)
(* none when the bound is not positive.                                    *)
NDatesLong == IF hi - lo + 3 > 0 THEN hi - lo + 3 ELSE 0
NDates == IF hi - lo + 2 > 0 THEN hi - lo + 2 ELSE 0


(* The x-th item of date_range: start + timedelta(days=x).               *)
DayAtSkipFirst(i) == lo + i + 1
DayAt(i) == lo + i

-----------------------------------------------------------------------------
Init ==
  /\ server \in [Days -> 0..MaxPerDay]
  /\ fromD \in Days    \* --from, by default 1970-01-01 (day 0)
  /\ toD \in Days      \* --to, by default today
  /\ pc = "start"
  /\ fileExists = FALSE
  /\ file = <<>>
  /\ lo = 0
  /\ hi = 0
  /\ x = 0
  /\ launches = 1

(* The __main__ check before anything is fetched.                          *)
CheckOutputSkipped ==
  /\ pc = "start"
  /\ pc' = "range"
  /\ UNCHANGED <<server, fromD, toD, fileExists, file, lo, hi, x, launches>>
CheckOutput ==
  /\ pc = "start"
  /\ pc' = IF fileExists THEN "refused" ELSE "range"
  /\ UNCHANGED <<server, fromD, toD, fileExists, file, lo, hi, x, launches>>

(* fetch_total_range, then open(out_file, 'w') and writeheader().  A       *)
(* failed GET raises before the file is opened.                            *)
FetchRange ==
  /\ pc = "range"
  /\ \/ /\ lo' = IF RangeStart > fromD THEN RangeStart ELSE fromD
        /\ hi' = IF Today < toD THEN Today ELSE toD
        /\ fileExists' = TRUE
        /\ file' = <<>>
        /\ x' = 0
        /\ pc' = "fetch"
     \/ /\ pc' = "failed"
        /\ UNCHANGED <<fileExists, file, lo, hi, x>>
  /\ UNCHANGED <<server, fromD, toD, launches>>

(* One day of fetch_all_heartbeats: the GET of fetch_heartbeats(date) and  *)
(* w.writerow for each heartbeat it returns, or the error that ends the    *)
(* script with the rows written so far.                                    *)
FetchDay ==
  /\ pc = "fetch"
  /\ x < NDates
  /\ \/ /\ file' = file \o DayRows(DayAt(x))
        /\ x' = x + 1
        /\ UNCHANGED pc
     \/ /\ pc' = "failed"
        /\ UNCHANGED <<file, x>>
  /\ UNCHANGED <<server, fromD, toD, fileExists, lo, hi, launches>>

(* The generator is exhausted: the with block closes the file.             *)
Finish ==
  /\ pc = "fetch"
  /\ x >= NDates
  /\ pc' = "done"
  /\ UNCHANGED <<server, fromD, toD, fileExists, file, lo, hi, x, launches>>

(* The user starts the script again, with new dates, once it has ended.    *)
Relaunch ==
  /\ pc \in {"done", "failed", "refused"}
  /\ launches < MaxLaunches
  /\ fromD' \in Days
  /\ toD' \in Days
  /\ pc' = "start"
  /\ launches' = launches + 1
  /\ UNCHANGED <<server, fileExists, file, lo, hi, x>>

Stopped ==
  /\ pc \in {"done", "failed", "refused"}
  /\ launches = MaxLaunches
  /\ UNCHANGED vars

Next == CheckOutput \/ FetchRange \/ FetchDay \/ Finish \/ Relaunch \/ Stopped

Spec == Init /\ [][Next]_vars

-----------------------------------------------------------------------------
TypeOK ==
  /\ server \in [Days -> 0..MaxPerDay]
  /\ fromD \in Days /\ toD \in Days
  /\ pc \in {"start", "range", "fetch", "done", "failed", "refused"}
  /\ fileExists \in BOOLEAN
  /\ file \in Seq((0..Today + 1) \X (1..MaxPerDay))
  /\ lo \in Days /\ hi \in Days
  /\ x \in 0..Today + 2
  /\ launches \in 1..MaxLaunches

(* Rows of the file. *)
FileRows == {file[i] : i \in 1..Len(file)}

(* A finished download holds every heartbeat the server has for the days   *)
(* from --from to --to, the clamp to the server's range included.          *)
RowsCoverRange ==
  pc = "done" =>
    \A d \in fromD..toD : \A j \in 1..HeartbeatsOn(d) : <<d, j>> \in FileRows

(* A finished download holds only heartbeats of the days from --from to    *)
(* --to, as the --from and --to options promise.                           *)
RowsWithinRange ==
  pc = "done" => \A r \in FileRows : r[1] \in fromD..toD

(* A launch never destroys rows an earlier one wrote: the output file only *)
(* ever grows, since a launch that finds it refuses to start.              *)
FileOnlyGrows == [][IsPrefix(file, file')]_vars
=============================================================================
