------------------------- MODULE PushSampleDataProofs -------------------------
(***************************************************************************)
(* Proofs about PushSampleData, for every set of -n, -p and -o values.     *)
(***************************************************************************)
EXTENDS PushSampleData, SequenceTheorems, TLAPS

USE NsAssumption, ProjectCountsAssumption, OffsetsAssumption, OverflowHoursAssumption
    DEF NsAssumption, ProjectCountsAssumption, OffsetsAssumption, OverflowHoursAssumption

(* The inductive invariant: before generate_data returns nothing is sent;  *)
(* the exit status is 0 until the script exits, and a status 0 exit comes  *)
(* from the end of the loop.                                               *)
IInv ==
  /\ TypeOK
  /\ StoredIsLoopPrefix
  /\ pc = "start" => data = <<>> /\ stored = <<>> /\ i = 1
  /\ pc # "exited" => code = 0
  /\ pc = "exited" /\ code = 0 => Len(stored) = Len(data)

-----------------------------------------------------------------------------
(* generate_data(n) is a list of Heartbeats of length n, or empty.         *)
LEMMA GeneratedType ==
  ASSUME NEW n \in Int
  PROVE  /\ Generated(n) \in Seq(Heartbeats)
         /\ Len(Generated(n)) = IF n > 0 THEN n ELSE 0
<1>1. CASE n > 0
  <2>1. n \in Nat /\ Generated(n) \in [1..n -> Heartbeats]
    BY <1>1 DEF Generated, Heartbeats
  <2>. QED BY <1>1, <2>1
<1>2. CASE ~(n > 0)
  <2>1. 1..n = 1..0
    BY <1>2
  <2>2. Generated(n) = <<>>
    BY <2>1 DEF Generated
  <2>. QED BY <1>2, <2>2
<1>. QED BY <1>1, <1>2

(* Storing the next heartbeat of the list extends the stored prefix by one. *)
LEMMA AppendNextOfPrefix ==
  ASSUME NEW S, NEW s \in Seq(S), NEW k \in 0..Len(s) - 1,
         NEW t \in Seq(S), t = SubSeq(s, 1, k), Len(t) = k
  PROVE  /\ Append(t, s[k + 1]) = SubSeq(s, 1, k + 1)
         /\ Len(Append(t, s[k + 1])) = k + 1
<1>1. Append(t, s[k + 1]) \in Seq(S) /\ Len(Append(t, s[k + 1])) = k + 1
  OBVIOUS
<1>2. SubSeq(s, 1, k + 1) \in Seq(S) /\ Len(SubSeq(s, 1, k + 1)) = k + 1
  BY SubSeqProperties
<1>3. \A j \in 1..k + 1 : Append(t, s[k + 1])[j] = SubSeq(s, 1, k + 1)[j]
  BY SubSeqProperties
<1>. QED BY <1>1, <1>2, <1>3, SeqEqual

(* The whole list is its own prefix.                                       *)
LEMMA FullPrefix ==
  ASSUME NEW S, NEW s \in Seq(S)
  PROVE  SubSeq(s, 1, Len(s)) = s
BY SubSeqFull
-----------------------------------------------------------------------------
(* generate_data either raises, which exits with nothing sent, or returns  *)
(* the list the loop starts on.                                            *)
LEMMA GenerateKeepsIInv ==
  ASSUME IInv, Generate
  PROVE  IInv'
<1>1. pc = "start" /\ data = <<>> /\ stored = <<>> /\ i = 1 /\ code = 0
  BY DEF Generate, IInv
<1>2. i' = 1 /\ stored' = <<>>
  BY <1>1 DEF Generate
<1>3. PICK n \in Ns, p \in ProjectCounts, off \in Offsets :
        \/ GenerationFails(n, p, off) /\ pc' = "exited" /\ code' = 1 /\ data' = data
        \/ GenerationSucceeds(n, p, off) /\ data' = Generated(n) /\ pc' = "post" /\ code' = code
  BY DEF Generate
<1>4. CASE pc' = "exited" /\ code' = 1 /\ data' = data
  BY <1>1, <1>2, <1>4 DEF IInv, TypeOK, StoredIsLoopPrefix
<1>5. CASE data' = Generated(n) /\ pc' = "post" /\ code' = code
  <2>1. data' \in Seq(Heartbeats)
    BY <1>5, GeneratedType
  <2>2. SubSeq(data', 1, 0) = <<>>
    BY <2>1, SubSeqEmpty
  <2>. QED BY <1>1, <1>2, <1>5, <2>1, <2>2 DEF IInv, TypeOK, StoredIsLoopPrefix
<1>. QED BY <1>3, <1>4, <1>5

(* A 201 answer: the server stores the heartbeat the loop is on, the next  *)
(* one of the list.                                                        *)
LEMMA CreatedKeepsIInv ==
  ASSUME IInv, PostCreated
  PROVE  IInv'
<1>1. /\ pc = "post" /\ i <= Len(data) /\ Len(stored) = i - 1 /\ code = 0
      /\ data \in Seq(Heartbeats) /\ stored \in Seq(Heartbeats) /\ i \in 1..Len(data) + 1
      /\ stored = SubSeq(data, 1, Len(stored))
  BY DEF PostCreated, IInv, TypeOK, StoredIsLoopPrefix
<1>2. /\ Append(stored, data[i]) = SubSeq(data, 1, i)
      /\ Len(Append(stored, data[i])) = i
  BY <1>1, AppendNextOfPrefix
<1>3. /\ stored' = Append(stored, data[i]) /\ i' = i + 1
      /\ pc' = pc /\ data' = data /\ code' = code
  BY DEF PostCreated
<1>4. stored' \in Seq(Heartbeats)
  BY <1>1, <1>3
<1>. QED BY <1>1, <1>2, <1>3, <1>4 DEF IInv, TypeOK, StoredIsLoopPrefix

(* An exception of requests: the script exits whether or not the server    *)
(* stored the heartbeat.                                                   *)
LEMMA LostKeepsIInv ==
  ASSUME IInv, PostLost
  PROVE  IInv'
<1>1. /\ pc = "post" /\ i <= Len(data) /\ Len(stored) = i - 1
      /\ data \in Seq(Heartbeats) /\ stored \in Seq(Heartbeats) /\ i \in 1..Len(data) + 1
      /\ stored = SubSeq(data, 1, Len(stored))
  BY DEF PostLost, IInv, TypeOK, StoredIsLoopPrefix
<1>2. /\ pc' = "exited" /\ code' = 1 /\ data' = data /\ i' = i
      /\ stored' \in {stored, Append(stored, data[i])}
  BY DEF PostLost
<1>3. CASE stored' = stored
  BY <1>1, <1>2, <1>3 DEF IInv, TypeOK, StoredIsLoopPrefix
<1>4. CASE stored' = Append(stored, data[i])
  <2>1. /\ Append(stored, data[i]) = SubSeq(data, 1, i)
        /\ Len(Append(stored, data[i])) = i
    BY <1>1, AppendNextOfPrefix
  <2>2. stored' \in Seq(Heartbeats)
    BY <1>1, <1>4
  <2>. QED BY <1>1, <1>2, <1>4, <2>1, <2>2 DEF IInv, TypeOK, StoredIsLoopPrefix
<1>. QED BY <1>2, <1>3, <1>4

(* Every step of the script keeps the invariant.                           *)
THEOREM IInvInductive == IInv /\ [Next]_vars => IInv'
<1> SUFFICES ASSUME IInv, [Next]_vars PROVE IInv'
  OBVIOUS
<1>1. CASE Generate
  BY <1>1, GenerateKeepsIInv
<1>2. CASE PostCreated
  BY <1>2, CreatedKeepsIInv
<1>3. CASE PostRejected
  <2>1. /\ pc' = "exited" /\ code' = 1 /\ data' = data /\ i' = i /\ stored' = stored
    BY <1>3 DEF PostRejected
  <2>2. TypeOK'
    BY <2>1 DEF IInv, TypeOK
  <2>3. StoredIsLoopPrefix'
    BY <2>1 DEF IInv, StoredIsLoopPrefix
  <2>. QED BY <2>1, <2>2, <2>3 DEF IInv
<1>4. CASE PostLost
  BY <1>4, LostKeepsIInv
<1>5. CASE Finish
  <2>1. pc = "post" /\ i > Len(data)
    BY <1>5 DEF Finish
  <2>4. i \in 1..Len(data) + 1 /\ Len(data) \in Nat
    BY DEF IInv, TypeOK
  <2>5. Len(stored) = i - 1
    BY <2>1 DEF IInv, StoredIsLoopPrefix
  <2>2. Len(stored) = Len(data)
    BY <2>1, <2>4, <2>5
  <2>3. /\ pc' = "exited" /\ code' = code /\ data' = data /\ i' = i /\ stored' = stored
    BY <1>5 DEF Finish
  <2>. QED BY <2>2, <2>3 DEF IInv, TypeOK, StoredIsLoopPrefix
<1>6. CASE UNCHANGED vars
  <2>1. pc' = pc /\ data' = data /\ i' = i /\ stored' = stored /\ code' = code
    BY <1>6 DEF vars
  <2>. QED BY <2>1 DEF IInv, TypeOK, StoredIsLoopPrefix
<1>7. CASE Exited
  BY <1>6, <1>7 DEF Exited
<1>. QED BY <1>1, <1>2, <1>3, <1>4, <1>5, <1>6, <1>7 DEF Next

(* The invariant holds in every state of every run of the script.          *)
THEOREM IInvHolds == Spec => []IInv
<1>1. Init => IInv
  <2> SUFFICES ASSUME Init PROVE IInv
    OBVIOUS
  <2>1. SubSeq(data, 1, 0) = <<>>
    BY SubSeqEmpty DEF Init
  <2>. QED BY <2>1 DEF Init, IInv, TypeOK, StoredIsLoopPrefix
<1>. QED BY <1>1, IInvInductive, PTL DEF Spec

(* Every state of every run is well typed.                                 *)
THEOREM TypeCorrect == Spec => []TypeOK
<1>1. IInv => TypeOK
  BY DEF IInv
<1>. QED BY <1>1, IInvHolds, PTL

(* Whenever post_data_sync stops, by sys.exit(1), by an exception or at    *)
(* the end of the list, the server holds a gapless prefix of the generated *)
(* heartbeats ending at the one being posted or just before it.            *)
THEOREM ServerHoldsLoopPrefix == Spec => []StoredIsLoopPrefix
<1>1. IInv => StoredIsLoopPrefix
  BY DEF IInv
<1>. QED BY <1>1, IInvHolds, PTL

(* In a state of the invariant, a status 0 exit has every heartbeat stored. *)
LEMMA ExitZeroIsCompleteStep ==
  ASSUME IInv, pc = "exited", code = 0
  PROVE  stored = data
<1>1. data \in Seq(Heartbeats) /\ Len(stored) = Len(data)
  BY DEF IInv, TypeOK
<1>2. stored = SubSeq(data, 1, Len(data))
  BY <1>1 DEF IInv, StoredIsLoopPrefix
<1>. QED BY <1>1, <1>2, FullPrefix

(* The exit status 0 of push_sample_data.py means every generated          *)
(* heartbeat was stored: no non-201 answer was passed over.                *)
THEOREM ExitZeroIsComplete == Spec => []ExitZeroMeansAllStored
<1>1. IInv => ExitZeroMeansAllStored
  BY ExitZeroIsCompleteStep DEF ExitZeroMeansAllStored
<1>. QED BY <1>1, IInvHolds, PTL
-----------------------------------------------------------------------------
(* The SendLoop outcome the script's state stands for.                     *)
LEMMA OutcomeValues ==
  /\ pc = "start" => Outcome = "idle"
  /\ pc = "post" => Outcome = "running"
  /\ pc = "exited" /\ code = 0 => Outcome = "ok"
  /\ pc = "exited" /\ code = 1 => Outcome = "failed"
<1>1. pc = "start" => Outcome = "idle"
  BY DEF Outcome
<1>2. pc = "post" => Outcome = "running"
  BY DEF Outcome
<1>3. pc = "exited" /\ code = 0 => Outcome = "ok"
  BY DEF Outcome
<1>4. pc = "exited" /\ code = 1 => Outcome = "failed"
  BY DEF Outcome
<1>. QED BY <1>1, <1>2, <1>3, <1>4

(* While post_data_sync loops, the server holds the heartbeats before the  *)
(* loop's position.                                                        *)
LEMMA PostingFacts ==
  ASSUME IInv, pc = "post"
  PROVE  /\ Len(stored) = i - 1 /\ i \in 1..Len(data) + 1
         /\ Len(data) \in Nat /\ data \in Seq(Heartbeats)
<1>1. i \in 1..Len(data) + 1 /\ data \in Seq(Heartbeats)
  BY DEF IInv, TypeOK
<1>2. Len(data) \in Nat
  BY <1>1
<1>3. Len(stored) = i - 1
  BY DEF IInv, StoredIsLoopPrefix
<1>. QED BY <1>1, <1>2, <1>3

(* Each step of the script is a step of SendLoop under the mapping, or     *)
(* leaves the list, the server and the outcome as they were.               *)
LEMMA StepRefines ==
  ASSUME IInv, [Next]_vars
  PROVE  [SL!Next]_SL!vars
<1>1. CASE Generate
  <2>1. pc = "start" /\ data = <<>> /\ stored = <<>> /\ Outcome = "idle"
    BY <1>1, OutcomeValues DEF Generate, IInv
  <2>2. stored' = stored
    BY <1>1 DEF Generate
  <2>3. PICK n \in Ns, p \in ProjectCounts, off \in Offsets :
          \/ pc' = "exited" /\ code' = 1 /\ data' = data
          \/ data' = Generated(n) /\ pc' = "post"
    BY <1>1 DEF Generate
  <2>4. CASE pc' = "exited" /\ code' = 1 /\ data' = data
    <3>1. Outcome' = "failed"
      BY <2>4 DEF Outcome
    <3>. QED BY <2>1, <2>2, <2>4, <3>1 DEF SL!Next, SL!Fail
  <2>5. CASE data' = Generated(n) /\ pc' = "post"
    <3>1. Outcome' = "running"
      BY <2>5 DEF Outcome
    <3>2. data' \in Seq(Heartbeats)
      BY <2>5, GeneratedType
    <3>. QED BY <2>1, <2>2, <3>1, <3>2 DEF SL!Next, SL!Start
  <2>. QED BY <2>3, <2>4, <2>5
<1>2. CASE PostCreated
  <2>0. pc = "post" /\ i <= Len(data)
    BY <1>2 DEF PostCreated
  <2>1. /\ pc = "post" /\ i <= Len(data) /\ Len(stored) = i - 1
        /\ i \in 1..Len(data) + 1 /\ Len(data) \in Nat
    BY <2>0, PostingFacts
  <2>2. Outcome = "running" /\ Outcome' = "running"
    BY <1>2, <2>1 DEF PostCreated, Outcome
  <2>3. /\ stored' = Append(stored, data[Len(stored) + 1]) /\ data' = data
        /\ Len(stored) < Len(data)
    BY <1>2, <2>1 DEF PostCreated
  <2>. QED BY <2>2, <2>3 DEF SL!Next, SL!Deliver, SL!Pending
<1>3. CASE PostRejected
  <2>1. Outcome = "running" /\ Outcome' = "failed"
    BY <1>3 DEF PostRejected, Outcome
  <2>2. stored' = stored /\ data' = data
    BY <1>3 DEF PostRejected
  <2>. QED BY <2>1, <2>2 DEF SL!Next, SL!Fail
<1>4. CASE PostLost
  <2>0. pc = "post" /\ i <= Len(data)
    BY <1>4 DEF PostLost
  <2>1. /\ pc = "post" /\ i <= Len(data) /\ Len(stored) = i - 1
        /\ i \in 1..Len(data) + 1 /\ Len(data) \in Nat
    BY <2>0, PostingFacts
  <2>2. Outcome = "running" /\ Outcome' = "failed"
    BY <1>4 DEF PostLost, Outcome
  <2>3. /\ stored' \in {stored, Append(stored, data[Len(stored) + 1])}
        /\ data' = data /\ Len(stored) < Len(data)
    BY <1>4, <2>1 DEF PostLost
  <2>. QED BY <2>2, <2>3 DEF SL!Next, SL!Fail, SL!Pending
<1>5. CASE Finish
  <2>1. pc = "post" /\ pc' = "exited" /\ code = 0 /\ code' = 0
    BY <1>5 DEF Finish, IInv
  <2>2. Outcome = "running" /\ Outcome' = "ok"
    BY <2>1 DEF Outcome
  <2>3. /\ pc' = "exited" /\ code' = 0 /\ stored' = stored /\ data' = data
    BY <1>5, <2>1 DEF Finish
  <2>4. /\ i > Len(data) /\ Len(stored) = i - 1 /\ i \in 1..Len(data) + 1
        /\ Len(data) \in Nat /\ data \in Seq(Heartbeats)
    BY <1>5, <2>1, PostingFacts DEF Finish
  <2>6. stored = SubSeq(data, 1, Len(data))
    BY <2>4 DEF IInv, StoredIsLoopPrefix
  <2>5. stored = data
    BY <2>4, <2>6, FullPrefix
  <2>. QED BY <2>2, <2>3, <2>5 DEF SL!Next, SL!Complete
<1>6. CASE Exited \/ UNCHANGED vars
  <2>1. pc' = pc /\ data' = data /\ stored' = stored /\ code' = code
    BY <1>6 DEF Exited, vars
  <2>. QED BY <2>1 DEF Outcome, SL!vars
<1>. QED BY <1>1, <1>2, <1>3, <1>4, <1>5, <1>6 DEF Next

(* push_sample_data.py implements SendLoop: its server receives the        *)
(* generated heartbeats in order and without a gap, and it exits with 0    *)
(* only when the server has all of them.                                   *)
THEOREM RefinesSendLoop == Spec => ImplementsSendLoop
<1>1. Init => SL!Init
  BY OutcomeValues DEF Init, SL!Init
<1>2. IInv /\ [Next]_vars => [SL!Next]_SL!vars
  BY StepRefines
<1>. QED BY <1>1, <1>2, IInvHolds, PTL DEF Spec, SL!Spec, ImplementsSendLoop
=============================================================================
