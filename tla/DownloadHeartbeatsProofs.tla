----------------------- MODULE DownloadHeartbeatsProofs -----------------------
(***************************************************************************)
(* Proofs about DownloadHeartbeats, for every number of days, heartbeats   *)
(* per day and launches.                                                   *)
(***************************************************************************)
EXTENDS DownloadHeartbeats, SequenceTheorems, WellFoundedInduction, TLAPS

(* The rows a CSV can hold: a day up to the one after Today, and the       *)
(* heartbeat's index on that day.                                          *)
RowType == (0..Today + 1) \X (1..MaxPerDay)

(* The inductive invariant: the file is well formed, exists as soon as     *)
(* anything was written to it, and is known to be missing whenever a       *)
(* launch is about to open it for writing.                                 *)
IInv ==
  /\ TypeOK
  /\ ~fileExists => file = <<>>
  /\ pc = "range" => ~fileExists
  /\ pc = "fetch" => fileExists

USE TodayAssumption, MaxPerDayAssumption, MaxLaunchesAssumption
    DEF TodayAssumption, MaxPerDayAssumption, MaxLaunchesAssumption

-----------------------------------------------------------------------------
(* Among the days with heartbeats there is a first one.                    *)
LEMMA FirstBusyDay ==
  ASSUME server \in [Days -> 0..MaxPerDay], \E d \in Days : server[d] > 0
  PROVE  \E d \in Days : server[d] > 0 /\ \A e \in 0..d-1 : server[e] = 0
<1> DEFINE S == {d \in Days : server[d] > 0}
<1>1. S \subseteq Nat /\ S # {}
  BY DEF Days
<1>2. \A a, b \in Nat : <<a, b>> \in OpToRel(<, Nat) <=> a < b
  BY DEF OpToRel
<1>3. PICK m \in S : \A y \in S : ~(<<y, m>> \in OpToRel(<, Nat))
  BY <1>1, NatLessThanWellFounded, WFMin, Zenon
<1>4. \A y \in S : ~(y < m)
  BY <1>1, <1>2, <1>3, Zenon
<1>5. server[m] > 0 /\ \A e \in 0..m-1 : server[e] = 0
  <2>1. \A e \in 0..m-1 : e \in Days /\ e < m
    BY DEF Days
  <2>2. \A e \in 0..m-1 : server[e] \in Nat /\ ~(server[e] > 0)
    BY <1>4, <2>1
  <2>. QED BY <2>2
<1>. QED BY <1>5

(* all_time_since_today's start is a day: a first day with heartbeats      *)
(* exists whenever one with heartbeats does.                               *)
LEMMA RangeStartIsDay ==
  ASSUME server \in [Days -> 0..MaxPerDay]
  PROVE  RangeStart \in Days
<1>1. CASE \E d \in Days : server[d] > 0
  BY <1>1, FirstBusyDay DEF RangeStart
<1>2. CASE ~\E d \in Days : server[d] > 0
  BY <1>2 DEF RangeStart, Days
<1>. QED BY <1>1, <1>2

(* No day with heartbeats lies before all_time_since_today's start.        *)
LEMMA RangeStartFirst ==
  ASSUME server \in [Days -> 0..MaxPerDay], NEW d \in Days, server[d] > 0
  PROVE  RangeStart \in Days /\ RangeStart <= d
<1>1. /\ RangeStart \in Days
      /\ \A e \in 0..RangeStart-1 : server[e] = 0
  BY FirstBusyDay DEF RangeStart
<1>. QED BY <1>1 DEF Days

(* Appending rows keeps what the file held: IsPrefix(s, s \o t).           *)
LEMMA PrefixOfConcat ==
  ASSUME NEW S, NEW s \in Seq(S), NEW t \in Seq(S)
  PROVE  IsPrefix(s, s \o t)
<1>1. Len(s) <= Len(s \o t)
  BY ConcatProperties
<1>2. CASE Len(s) = 0
  BY <1>2, SubSeqEmpty DEF IsPrefix
<1>3. CASE Len(s) > 0
  <2>1. SubSeq(s \o t, 1, Len(s)) = SubSeq(s, 1, Len(s))
    BY <1>3, SubSeqOfConcat1
  <2>. QED BY <1>1, <2>1 DEF IsPrefix
<1>. QED BY <1>2, <1>3

(* A sequence is a prefix of itself.                                       *)
LEMMA PrefixOfSelf ==
  ASSUME NEW S, NEW s \in Seq(S)
  PROVE  IsPrefix(s, s)
BY DEF IsPrefix

(* The rows written for one day of the range are rows of the CSV type.     *)
LEMMA DayRowsType ==
  ASSUME TypeOK, NEW d \in 0..Today + 1
  PROVE  DayRows(d) \in Seq(RowType)
<1>1. HeartbeatsOn(d) \in 0..MaxPerDay
  BY DEF HeartbeatsOn, TypeOK, Days
<1>2. DayRows(d) \in [1..HeartbeatsOn(d) -> RowType]
  BY <1>1 DEF DayRows, RowType
<1>. QED BY <1>1, <1>2
-----------------------------------------------------------------------------
(* One day of the loop: the date lies in the range or is the day after it, *)
(* and the loop index stays within len(date_range).                        *)
LEMMA FetchDayKeepsIInv ==
  ASSUME IInv, FetchDay
  PROVE  IInv'
<1>1. TypeOK /\ fileExists /\ pc = "fetch" /\ x < NDates
  BY DEF IInv, FetchDay
<1>2. lo \in Days /\ hi \in Days /\ x \in 0..Today + 2 /\ file \in Seq(RowType)
  BY <1>1 DEF TypeOK, RowType
<1>3. DayAt(x) \in 0..Today + 1 /\ x + 1 \in 0..Today + 2
  BY <1>1, <1>2 DEF DayAt, NDates, Days
<1>4. file \o DayRows(DayAt(x)) \in Seq(RowType)
  BY <1>1, <1>2, <1>3, DayRowsType, ConcatProperties
<1>5. UNCHANGED <<server, fromD, toD, fileExists, lo, hi, launches>>
  BY DEF FetchDay
<1>6. CASE file' = file \o DayRows(DayAt(x)) /\ x' = x + 1 /\ UNCHANGED pc
  BY <1>1, <1>3, <1>4, <1>5, <1>6 DEF IInv, TypeOK, RowType
<1>7. CASE pc' = "failed" /\ UNCHANGED <<file, x>>
  BY <1>1, <1>5, <1>7 DEF IInv, TypeOK
<1>. QED BY <1>6, <1>7 DEF FetchDay

(* The invariant is kept by every step of a launch and by relaunching.     *)
THEOREM IInvInductive == IInv /\ [Next]_vars => IInv'
<1> SUFFICES ASSUME IInv, [Next]_vars PROVE IInv'
  OBVIOUS
<1>1. CASE CheckOutput
  BY <1>1 DEF CheckOutput, IInv, TypeOK
<1>2. CASE FetchRange
  <2>1. RangeStart \in Days
    BY RangeStartIsDay DEF IInv, TypeOK
  <2>2. CASE /\ lo' = IF RangeStart > fromD THEN RangeStart ELSE fromD
             /\ hi' = IF Today < toD THEN Today ELSE toD
             /\ fileExists' = TRUE /\ file' = <<>> /\ x' = 0 /\ pc' = "fetch"
    <3>1. lo' \in Days /\ hi' \in Days
      BY <2>1, <2>2 DEF IInv, TypeOK, Days
    <3>. QED BY <1>2, <2>2, <3>1 DEF FetchRange, IInv, TypeOK
  <2>3. CASE pc' = "failed" /\ UNCHANGED <<fileExists, file, lo, hi, x>>
    BY <1>2, <2>3 DEF FetchRange, IInv, TypeOK
  <2>. QED BY <1>2, <2>2, <2>3 DEF FetchRange
<1>3. CASE FetchDay
  BY <1>3, FetchDayKeepsIInv
<1>4. CASE Finish
  BY <1>4 DEF Finish, IInv, TypeOK
<1>5. CASE Relaunch
  BY <1>5 DEF Relaunch, IInv, TypeOK
<1>6. CASE UNCHANGED vars
  <2>1. /\ server' = server /\ fromD' = fromD /\ toD' = toD /\ pc' = pc
        /\ fileExists' = fileExists /\ file' = file /\ lo' = lo /\ hi' = hi
        /\ x' = x /\ launches' = launches
    BY <1>6 DEF vars
  <2>. QED BY <2>1 DEF IInv, TypeOK
<1>7. CASE Stopped
  BY <1>6, <1>7 DEF Stopped
<1>. QED BY <1>1, <1>2, <1>3, <1>4, <1>5, <1>6, <1>7 DEF Next

(* The invariant holds in every state of every sequence of launches.       *)
THEOREM IInvHolds == Spec => []IInv
<1>1. Init => IInv
  <2> SUFFICES ASSUME Init PROVE IInv
    OBVIOUS
  <2>1. lo \in Days /\ hi \in Days /\ x \in 0..Today + 2 /\ launches \in 1..MaxLaunches
    BY DEF Init, Days
  <2>2. file \in Seq(RowType)
    BY DEF Init
  <2>3. TypeOK
    BY <2>1, <2>2 DEF Init, TypeOK, RowType
  <2>. QED BY <2>3 DEF Init, IInv
<1>. QED BY <1>1, IInvInductive, PTL DEF Spec

(* Every state of every sequence of launches is well typed.                *)
THEOREM TypeCorrect == Spec => []TypeOK
<1>1. IInv => TypeOK
  BY DEF IInv
<1>. QED BY <1>1, IInvHolds, PTL

(* No launch of download_heartbeats.py ever removes a row an earlier step  *)
(* or an earlier launch wrote: open(out_file, 'w') is only reached when    *)
(* the __main__ check found no output file.                                *)
THEOREM FileNeverTruncated == Spec => FileOnlyGrows
<1>1. IInv /\ [Next]_vars => IsPrefix(file, file')
  <2> SUFFICES ASSUME IInv, [Next]_vars PROVE IsPrefix(file, file')
    OBVIOUS
  <2>1. file \in Seq(RowType)
    BY DEF IInv, TypeOK, RowType
  <2>2. CASE file' = file
    BY <2>1, <2>2, PrefixOfSelf
  <2>3. CASE FetchRange /\ file' # file
    <3>1. ~fileExists
      BY <2>3 DEF FetchRange, IInv
    <3>2. file = <<>> /\ file' = <<>>
      BY <2>3, <3>1 DEF FetchRange, IInv
    <3>. QED BY <2>3, <3>2
  <2>4. CASE FetchDay /\ file' # file
    <3>1. file' = file \o DayRows(DayAt(x))
      BY <2>4 DEF FetchDay
    <3>2. DayAt(x) \in 0..Today + 1
      BY <2>4 DEF FetchDay, IInv, TypeOK, DayAt, NDates, Days
    <3>3. DayRows(DayAt(x)) \in Seq(RowType)
      BY <3>2, DayRowsType DEF IInv
    <3>. QED BY <2>1, <3>1, <3>3, PrefixOfConcat
  <2>5. CASE ~(FetchRange \/ FetchDay)
    <3>1. file' = file
      BY <2>5 DEF Next, CheckOutput, Finish, Relaunch, Stopped, vars
    <3>. QED BY <2>1, <3>1, PrefixOfSelf
  <2>. QED BY <2>2, <2>3, <2>4, <2>5
<1>. QED BY <1>1, IInvHolds, PTL DEF Spec, FileOnlyGrows

-----------------------------------------------------------------------------
(* Coverage.  While a launch is in its day loop or has finished it, lo and *)
(* hi are the server's range clamped to --from and --to, and the file      *)
(* holds every heartbeat of the days the loop has passed; a finished loop  *)
(* has passed all len(date_range) of them.                                 *)
Clamped ==
  /\ lo = IF RangeStart > fromD THEN RangeStart ELSE fromD
  /\ hi = IF Today < toD THEN Today ELSE toD
Covered ==
  \A i \in 0..x-1 : \A j \in 1..HeartbeatsOn(DayAt(i)) : <<DayAt(i), j>> \in FileRows
CoverInv ==
  /\ pc \in {"fetch", "done"} => Clamped /\ Covered
  /\ pc = "done" => x >= NDates

(* One day of the loop adds that day's heartbeats to the file and keeps    *)
(* every row it held.                                                      *)
LEMMA FetchDayKeepsCover ==
  ASSUME IInv, CoverInv, FetchDay
  PROVE  CoverInv'
<1>1. /\ TypeOK /\ pc = "fetch" /\ x < NDates
      /\ UNCHANGED <<server, fromD, toD, fileExists, lo, hi, launches>>
  BY DEF IInv, FetchDay
<1>2. /\ Clamped' = Clamped
      /\ \A d : HeartbeatsOn(d)' = HeartbeatsOn(d)
      /\ \A i : DayAt(i)' = DayAt(i)
  BY <1>1 DEF Clamped, RangeStart, HeartbeatsOn, DayAt
<1>3. CASE file' = file \o DayRows(DayAt(x)) /\ x' = x + 1 /\ UNCHANGED pc
  <2>1. file \in Seq(RowType) /\ DayRows(DayAt(x)) \in Seq(RowType)
    <3>1. DayAt(x) \in 0..Today + 1
      BY <1>1 DEF TypeOK, DayAt, NDates, Days
    <3>. QED BY <1>1, <3>1, DayRowsType DEF TypeOK, RowType
  <2>2. /\ \A r \in FileRows : r \in FileRows'
        /\ \A j \in 1..HeartbeatsOn(DayAt(x)) : <<DayAt(x), j>> \in FileRows'
    <3>1. Len(DayRows(DayAt(x))) = HeartbeatsOn(DayAt(x))
          /\ \A j \in 1..HeartbeatsOn(DayAt(x)) : DayRows(DayAt(x))[j] = <<DayAt(x), j>>
      BY <1>1 DEF DayRows, HeartbeatsOn, TypeOK, Days
    <3>2. /\ \A i \in 1..Len(file) :
               file[i] \in {(file \o DayRows(DayAt(x)))[k] : k \in 1..Len(file \o DayRows(DayAt(x)))}
          /\ \A i \in 1..Len(DayRows(DayAt(x))) :
               DayRows(DayAt(x))[i] \in {(file \o DayRows(DayAt(x)))[k] : k \in 1..Len(file \o DayRows(DayAt(x)))}
      <4> DEFINE T == DayRows(DayAt(x))
      <4>1. /\ Len(file \o T) = Len(file) + Len(T)
            /\ \A k \in 1..Len(file) + Len(T) :
                 (file \o T)[k] = IF k <= Len(file) THEN file[k] ELSE T[k - Len(file)]
            /\ Len(file) \in Nat /\ Len(T) \in Nat
        BY <2>1, ConcatProperties, LenProperties
      <4>2. ASSUME NEW i \in 1..Len(file)
            PROVE  file[i] \in {(file \o T)[k] : k \in 1..Len(file \o T)}
        <5>1. i \in 1..Len(file \o T) /\ (file \o T)[i] = file[i]
          BY <4>1
        <5>. QED BY <5>1
      <4>3. ASSUME NEW i \in 1..Len(T)
            PROVE  T[i] \in {(file \o T)[k] : k \in 1..Len(file \o T)}
        <5>1. Len(file) + i \in 1..Len(file \o T) /\ (file \o T)[Len(file) + i] = T[i]
          BY <4>1
        <5>. QED BY <5>1
      <4>. QED BY <4>2, <4>3
    <3>3. FileRows' = {(file \o DayRows(DayAt(x)))[k] : k \in 1..Len(file \o DayRows(DayAt(x)))}
      BY <1>3 DEF FileRows
    <3>4. \A r \in FileRows : r \in FileRows'
      BY <3>2, <3>3 DEF FileRows
    <3>5. \A j \in 1..HeartbeatsOn(DayAt(x)) : <<DayAt(x), j>> \in FileRows'
      BY <3>1, <3>2, <3>3
    <3>. QED BY <3>4, <3>5
  <2>3. x \in Nat
    BY <1>1 DEF TypeOK
  <2>4. Covered'
    <3> SUFFICES ASSUME NEW i \in 0..x, NEW j \in 1..HeartbeatsOn(DayAt(i))
                 PROVE  <<DayAt(i), j>> \in FileRows'
      BY <1>2, <1>3, <2>3 DEF Covered
    <3>1. CASE i < x
      <4>1. i \in 0..x-1
        BY <2>3, <3>1
      <4>2. <<DayAt(i), j>> \in FileRows
        BY <1>1, <4>1 DEF CoverInv, Covered
      <4>. QED BY <2>2, <4>2
    <3>2. CASE i = x
      BY <2>2, <3>2
    <3>. QED BY <2>3, <3>1, <3>2
  <2>. QED BY <1>1, <1>2, <1>3, <2>4 DEF CoverInv
<1>4. CASE pc' = "failed" /\ UNCHANGED <<file, x>>
  BY <1>4 DEF CoverInv
<1>. QED BY <1>3, <1>4 DEF FetchDay

(* Coverage is kept by every step of a launch and by relaunching.          *)
THEOREM CoverInvInductive == IInv /\ CoverInv /\ [Next]_vars => CoverInv'
<1> SUFFICES ASSUME IInv, CoverInv, [Next]_vars PROVE CoverInv'
  OBVIOUS
<1>1. CASE CheckOutput
  BY <1>1 DEF CheckOutput, CoverInv
<1>2. CASE FetchRange
  <2>1. CASE /\ lo' = IF RangeStart > fromD THEN RangeStart ELSE fromD
             /\ hi' = IF Today < toD THEN Today ELSE toD
             /\ fileExists' = TRUE /\ file' = <<>> /\ x' = 0 /\ pc' = "fetch"
    <3>1. server' = server /\ fromD' = fromD /\ toD' = toD
      BY <1>2 DEF FetchRange
    <3>2. Clamped'
      BY <2>1, <3>1 DEF Clamped, RangeStart
    <3>. QED BY <2>1, <3>2 DEF CoverInv, Covered
  <2>2. CASE pc' = "failed" /\ UNCHANGED <<fileExists, file, lo, hi, x>>
    BY <2>2 DEF CoverInv
  <2>. QED BY <1>2, <2>1, <2>2 DEF FetchRange
<1>3. CASE FetchDay
  BY <1>3, FetchDayKeepsCover
<1>4. CASE Finish
  <2>1. /\ pc = "fetch" /\ x >= NDates /\ pc' = "done"
        /\ UNCHANGED <<server, fromD, toD, fileExists, file, lo, hi, x, launches>>
    BY <1>4 DEF Finish
  <2>. QED BY <2>1 DEF CoverInv, Clamped, Covered, RangeStart, HeartbeatsOn,
                     DayAt, FileRows, NDates
<1>5. CASE Relaunch
  BY <1>5 DEF Relaunch, CoverInv
<1>6. CASE UNCHANGED vars
  <2>1. /\ server' = server /\ fromD' = fromD /\ toD' = toD /\ pc' = pc
        /\ fileExists' = fileExists /\ file' = file /\ lo' = lo /\ hi' = hi
        /\ x' = x /\ launches' = launches
    BY <1>6 DEF vars
  <2>. QED BY <2>1 DEF CoverInv, Clamped, Covered, RangeStart, HeartbeatsOn,
                     DayAt, FileRows, NDates
<1>7. CASE Stopped
  BY <1>6, <1>7 DEF Stopped
<1>. QED BY <1>1, <1>2, <1>3, <1>4, <1>5, <1>6, <1>7 DEF Next

(* Coverage holds in every state of every sequence of launches.            *)
THEOREM CoverInvHolds == Spec => [](IInv /\ CoverInv)
<1>1. Init => CoverInv
  BY DEF Init, CoverInv
<1>. QED BY <1>1, IInvHolds, CoverInvInductive, PTL DEF Spec

(* A download that ends normally holds every heartbeat the server has for  *)
(* the days from --from to --to: a day with heartbeats is no earlier than  *)
(* all_time_since_today's start, so it lies in the clamped range, and      *)
(* date_range's len, (end - start).days + 2, reaches past its end.  This   *)
(* holds for any number of days, heartbeats and launches.                  *)
THEOREM DownloadCoversRange == Spec => []RowsCoverRange
<1>1. IInv /\ CoverInv => RowsCoverRange
  <2> SUFFICES ASSUME IInv, CoverInv, pc = "done",
                      NEW d \in fromD..toD, NEW j \in 1..HeartbeatsOn(d)
               PROVE  <<d, j>> \in FileRows
    BY DEF RowsCoverRange
  <2>1. TypeOK
    BY DEF IInv
  <2>2. d \in Days /\ server[d] > 0
    BY <2>1 DEF HeartbeatsOn, TypeOK, Days
  <2>3. RangeStart \in Days /\ RangeStart <= d
    BY <2>1, <2>2, RangeStartFirst DEF TypeOK
  <2>4. Clamped /\ Covered /\ x >= NDates
    BY DEF CoverInv
  <2>5. lo <= d /\ d <= hi /\ lo \in Nat /\ hi \in Nat /\ x \in Nat
    BY <2>1, <2>2, <2>3, <2>4 DEF Clamped, TypeOK, Days
  <2>6. d - lo \in 0..x-1 /\ DayAt(d - lo) = d
    BY <2>4, <2>5 DEF NDates, DayAt
  <2>. QED BY <2>4, <2>6 DEF Covered
<1>. QED BY <1>1, CoverInvHolds, PTL
=============================================================================
