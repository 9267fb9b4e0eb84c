------------------------- MODULE SampleDataGuiProofs -------------------------
(***************************************************************************)
(* Proofs about SampleDataGui, for every value of its constants.           *)
(***************************************************************************)
EXTENDS SampleDataGui, TLAPS

(* The inductive invariant.  While run() posts, the bar, the loop and the  *)
(* server agree on how many heartbeats went through, and the loop has      *)
(* something left to post; the Done box is only ever shown with all of    *)
(* them stored.  Before the headless run nothing has happened yet.         *)
IInv ==
  /\ TypeOK
  /\ pc = "launch" => barValue = 0 /\ sent = 0 /\ stored = 0 /\ dialog = "none" /\ ~gui
  /\ barValue <= stored
  /\ dialog = "Done" => stored = n /\ barValue = 0
  /\ pc = "posting" =>
       /\ barValue = sent /\ sent = stored /\ dialog = "none"
       /\ IF batch THEN sent = 0 ELSE sent < n

-----------------------------------------------------------------------------
(* The heartbeat counts are naturals bounded by MaxN, a natural itself.    *)
USE MaxNAssumption, NsAssumption DEF MaxNAssumption, NsAssumption

(* A click: call_back resets the bar, and run() either aborts in           *)
(* generate_data, returns at once, or starts posting.                      *)
LEMMA ClickKeepsIInv ==
  ASSUME IInv, Click
  PROVE  IInv'
<1>1. PICK k \in 0..MaxN, p \in {c \in ProjectCounts : c >= 1}, b \in BOOLEAN,
           off \in Offsets :
        /\ n' = k
        /\ batch' = b
        /\ \E e \in GenerateOutcomes(k, p, Hours(off)) :
             \/ e # "none" /\ pc' = "crashed" /\ err' = e
             \/ e = "none" /\ ~b /\ k = 0 /\ pc' = "idle" /\ UNCHANGED err
             \/ e = "none" /\ (b \/ k > 0) /\ pc' = "posting" /\ UNCHANGED err
  BY DEF Click
<1>2. PICK e \in GenerateOutcomes(k, p, Hours(off)) :
             \/ e # "none" /\ pc' = "crashed" /\ err' = e
             \/ e = "none" /\ ~b /\ k = 0 /\ pc' = "idle" /\ UNCHANGED err
             \/ e = "none" /\ (b \/ k > 0) /\ pc' = "posting" /\ UNCHANGED err
  BY <1>1
<1>3. e \in Errors
  BY DEF GenerateOutcomes, Errors
<1>4. /\ barValue' = 0 /\ enabled' = FALSE /\ sent' = 0 /\ stored' = 0
      /\ dialog' = "none" /\ gui' = gui
  BY DEF Click
<1>5. pc' \in {"idle", "posting", "crashed"} /\ err' \in Errors
  BY <1>2, <1>3 DEF IInv, TypeOK
<1>6. pc' = "posting" => IF batch' THEN sent' = 0 ELSE sent' < n'
  BY <1>1, <1>2, <1>4
<1>7. TypeOK'
  <2>1. /\ enabled' \in BOOLEAN /\ batch' \in BOOLEAN /\ dialog' \in {"none", "Done", "Error"}
        /\ gui' \in BOOLEAN
    BY <1>1, <1>4 DEF IInv, TypeOK
  <2>2. barValue' \in 0..MaxN /\ n' \in 0..MaxN /\ sent' \in 0..n' /\ stored' \in 0..n'
    BY <1>1, <1>4, MaxNAssumption DEF MaxNAssumption
  <2>. QED BY <1>5, <2>1, <2>2 DEF TypeOK
<1>8. pc' # "launch"
  BY <1>2
<1>. QED BY <1>4, <1>6, <1>7, <1>8 DEF IInv

(* The headless start: args_to_params and run() up to the first request.  *)
LEMMA HeadlessKeepsIInv ==
  ASSUME IInv, HeadlessRun
  PROVE  IInv'
<1>1. PICK k \in Ns, p \in ProjectCounts, b \in BOOLEAN, off \in Offsets :
        /\ n' = IF k < 0 THEN 0 ELSE k
        /\ batch' = b
        /\ \E e \in GenerateOutcomes(k, p, Hours(off)) :
             \/ e # "none" /\ pc' = "crashed" /\ err' = e
             \/ e = "none" /\ ~b /\ k <= 0 /\ pc' = "exited" /\ UNCHANGED err
             \/ e = "none" /\ (b \/ k > 0) /\ pc' = "posting" /\ UNCHANGED err
  BY DEF HeadlessRun
<1>2. PICK e \in GenerateOutcomes(k, p, Hours(off)) :
             \/ e # "none" /\ pc' = "crashed" /\ err' = e
             \/ e = "none" /\ ~b /\ k <= 0 /\ pc' = "exited" /\ UNCHANGED err
             \/ e = "none" /\ (b \/ k > 0) /\ pc' = "posting" /\ UNCHANGED err
  BY <1>1
<1>3. e \in Errors
  BY DEF GenerateOutcomes, Errors
<1>4. /\ barValue = 0 /\ sent = 0 /\ stored = 0 /\ dialog = "none" /\ ~gui
      /\ enabled \in BOOLEAN /\ err \in Errors
  BY DEF HeadlessRun, IInv, TypeOK
<1>5. /\ barValue' = 0 /\ sent' = 0 /\ stored' = 0 /\ dialog' = "none" /\ gui' = gui
      /\ enabled' = enabled
  BY <1>4 DEF HeadlessRun
<1>6. k \in Int /\ k <= MaxN /\ n' \in 0..MaxN
  BY <1>1
<1>7. pc' = "posting" => IF batch' THEN sent' = 0 ELSE sent' < n'
  BY <1>1, <1>2, <1>5, <1>6
<1>8. pc' \in {"crashed", "exited", "posting"} /\ err' \in Errors
  BY <1>2, <1>3, <1>4
<1>9. TypeOK'
  <2>1. /\ enabled' \in BOOLEAN /\ batch' \in BOOLEAN /\ dialog' \in {"none", "Done", "Error"}
        /\ gui' \in BOOLEAN
    BY <1>1, <1>4, <1>5 DEF IInv, TypeOK
  <2>2. barValue' \in 0..MaxN /\ n' \in 0..MaxN /\ sent' \in 0..n' /\ stored' \in 0..n'
    BY <1>5, <1>6
  <2>. QED BY <1>8, <2>1, <2>2 DEF TypeOK
<1>. QED BY <1>5, <1>7, <1>8, <1>9 DEF IInv

(* A successful post: the server, the loop and the bar all advance by the  *)
(* same count, and the bar's reaching n is the loop's end.                 *)
LEMMA AcceptedKeepsIInv ==
  ASSUME IInv, PostAccepted
  PROVE  IInv'
<1>1. /\ pc = "posting" /\ barValue = sent /\ sent = stored /\ dialog = "none"
      /\ TypeOK
  BY DEF PostAccepted, IInv
<1>0. IF batch THEN sent = 0 ELSE sent < n
  BY DEF PostAccepted, IInv
<1>2. PostSize \in Nat /\ sent + PostSize <= n
  BY <1>0, <1>1 DEF PostSize, TypeOK
<1>3. /\ stored' = stored + PostSize /\ sent' = sent + PostSize
      /\ n' = n /\ batch' = batch /\ err' = err /\ gui' = gui
      /\ pc' = IF LoopDone(sent + PostSize) THEN RunReturned ELSE "posting"
  BY DEF PostAccepted
<1>9. n \in 0..MaxN /\ sent \in 0..n /\ barValue \in 0..MaxN /\ gui \in BOOLEAN
  BY <1>1 DEF TypeOK
<1>4. CASE gui /\ barValue + PostSize = n
  <2>1. barValue' = 0 /\ enabled' = TRUE /\ dialog' = "Done"
    BY <1>4 DEF PostAccepted, UpdateProgress
  <2>2. pc' = "idle"
    BY <1>1, <1>3, <1>4 DEF LoopDone, RunReturned
  <2>3. barValue' \in 0..MaxN /\ sent' \in 0..n' /\ stored' \in 0..n'
    BY <1>1, <1>2, <1>3, <2>1, <1>9
  <2>4. TypeOK'
    BY <1>1, <1>3, <2>1, <2>2, <2>3 DEF TypeOK
  <2>5. stored' = n' /\ barValue' = 0
    BY <1>1, <1>2, <1>3, <1>4, <2>1 DEF TypeOK
  <2>6. barValue' <= stored'
    BY <2>3, <2>5
  <2>. QED BY <2>1, <2>2, <2>4, <2>5, <2>6, Zenon DEF IInv
<1>5. CASE gui /\ barValue + PostSize # n
  <2>1. barValue' = barValue + PostSize /\ UNCHANGED <<enabled, dialog>>
    BY <1>1, <1>2, <1>5 DEF PostAccepted, UpdateProgress, SetValue, TypeOK
  <2>2. pc' = "posting" => ~batch /\ sent' < n'
    BY <1>0, <1>1, <1>2, <1>3, <1>5 DEF LoopDone, PostSize, TypeOK, RunReturned
  <2>3. barValue' \in 0..MaxN /\ sent' \in 0..n' /\ stored' \in 0..n'
    BY <1>1, <1>2, <1>3, <2>1, <1>9
  <2>4. pc' \in {"idle", "posting"}
    BY <1>3, <1>5 DEF RunReturned
  <2>5. TypeOK'
    BY <1>1, <1>3, <2>1, <2>3, <2>4 DEF TypeOK
  <2>6. /\ barValue' <= stored' /\ dialog' # "Done"
        /\ barValue' = sent' /\ sent' = stored' /\ dialog' = "none"
    BY <1>1, <1>2, <1>3, <2>1 DEF TypeOK
  <2>. QED BY <1>3, <2>2, <2>4, <2>5, <2>6 DEF IInv
<1>6. CASE ~gui
  <2>1. barValue' = barValue + PostSize /\ UNCHANGED <<enabled, dialog>>
    BY <1>6 DEF PostAccepted, PbarUpdate
  <2>2. pc' = "posting" => ~batch /\ sent' < n'
    BY <1>0, <1>1, <1>2, <1>3 DEF LoopDone, PostSize, TypeOK, RunReturned
  <2>3. barValue' \in 0..MaxN /\ sent' \in 0..n' /\ stored' \in 0..n'
    BY <1>1, <1>2, <1>3, <2>1, <1>9
  <2>4. pc' \in {"exited", "posting"}
    BY <1>3, <1>6 DEF RunReturned
  <2>5. TypeOK'
    BY <1>1, <1>3, <2>1, <2>3, <2>4 DEF TypeOK
  <2>6. /\ barValue' <= stored' /\ dialog' # "Done"
        /\ barValue' = sent' /\ sent' = stored' /\ dialog' = "none"
    BY <1>1, <1>2, <1>3, <2>1 DEF TypeOK
  <2>. QED BY <1>3, <2>2, <2>4, <2>5, <2>6 DEF IInv
<1>. QED BY <1>4, <1>5, <1>6

(* A RequestError: on_error, or print headless, and run() returns.         *)
LEMMA FailedKeepsIInv ==
  ASSUME IInv, PostFailed
  PROVE  IInv'
<1>1. pc = "posting" /\ TypeOK /\ barValue <= stored
  BY DEF PostFailed, IInv
<1>2. PostSize \in Nat
  BY <1>1 DEF PostSize, TypeOK
<1>3. stored' \in Nat /\ stored <= stored' /\ stored' <= n
  BY <1>1, <1>2 DEF PostFailed, PostSize, IInv, TypeOK
<1>4. /\ pc' = RunReturned /\ gui' = gui /\ n' = n /\ batch' = batch
      /\ sent' = sent /\ err' = err
  BY DEF PostFailed
<1>5. /\ barValue' = barValue /\ dialog' \in {"Error", dialog}
      /\ enabled' \in BOOLEAN
  BY <1>1 DEF PostFailed, OnError, TypeOK
<1>6. pc' \in {"idle", "exited"}
  BY <1>4 DEF RunReturned
<1>7. dialog = "none"
  BY <1>1 DEF IInv
<1>8. TypeOK'
  <2>1. stored' \in 0..n' /\ barValue' \in 0..MaxN /\ sent' \in 0..n' /\ n' \in 0..MaxN
    BY <1>1, <1>3, <1>4, <1>5 DEF TypeOK
  <2>2. dialog' \in {"none", "Done", "Error"} /\ gui' \in BOOLEAN /\ batch' \in BOOLEAN
    BY <1>1, <1>4, <1>5, <1>7 DEF TypeOK
  <2>3. err' \in Errors
    BY <1>1, <1>4 DEF TypeOK
  <2>. QED BY <1>5, <1>6, <2>1, <2>2, <2>3 DEF TypeOK
<1>9. barValue' <= stored'
  BY <1>1, <1>3, <1>5 DEF TypeOK, IInv
<1>10. dialog' # "Done"
  BY <1>5, <1>7
<1>. QED BY <1>6, <1>8, <1>9, <1>10 DEF IInv

(* Keeping the invariant, step by step.                                    *)
THEOREM IInvInductive == IInv /\ [Next]_vars => IInv'
<1> SUFFICES ASSUME IInv, [Next]_vars PROVE IInv'
  OBVIOUS
<1>1. CASE Click
  BY <1>1, ClickKeepsIInv
<1>6. CASE HeadlessRun
  BY <1>6, HeadlessKeepsIInv
<1>2. CASE PostAccepted
  BY <1>2, AcceptedKeepsIInv
<1>3. CASE PostFailed
  BY <1>3, FailedKeepsIInv
<1>4. CASE PostRejected
  BY <1>4 DEF PostRejected, IInv, TypeOK, Errors
<1>5. CASE Quit \/ Terminated \/ UNCHANGED vars
  BY <1>5 DEF Quit, Terminated, vars, IInv, TypeOK
<1>. QED BY <1>1, <1>2, <1>3, <1>4, <1>5, <1>6 DEF Next, RunStep

(* The invariant holds in every reachable state of the window.             *)
THEOREM IInvHolds == Spec => []IInv
<1>1. Init => IInv
  <2> SUFFICES ASSUME Init PROVE IInv
    OBVIOUS
  <2>1. 0 \in 0..MaxN
    BY MaxNAssumption DEF MaxNAssumption
  <2>2. TypeOK
    <3>1. /\ pc \in {"idle", "posting", "crashed", "closed", "launch", "exited"}
          /\ dialog \in {"none", "Done", "Error"}
      BY DEF Init
    <3>2. enabled \in BOOLEAN /\ batch \in BOOLEAN /\ gui \in BOOLEAN
      BY DEF Init
    <3>3. barValue \in 0..MaxN /\ n \in 0..MaxN /\ sent \in 0..n /\ stored \in 0..n
      BY <2>1 DEF Init
    <3>4. err \in Errors
      BY DEF Init, Errors
    <3>. QED BY <3>1, <3>2, <3>3, <3>4 DEF TypeOK
  <2>. QED BY <2>2 DEF Init, IInv
<1>. QED BY <1>1, IInvInductive, PTL DEF Spec

(* Every state the window reaches is well typed.                           *)
THEOREM TypeCorrect == Spec => []TypeOK
<1>1. IInv => TypeOK
  BY DEF IInv
<1>. QED BY <1>1, IInvHolds, PTL

(* The "Done" box update_progress shows always means the server stored     *)
(* every heartbeat run() generated, whatever failed in earlier runs.       *)
THEOREM DoneOnlyWhenAllStored == Spec => []DoneMeansAllStored
<1>1. IInv => DoneMeansAllStored
  BY DEF IInv, DoneMeansAllStored
<1>. QED BY <1>1, IInvHolds, PTL

(* The progress bar never counts a heartbeat the server did not store,     *)
(* although update_progress and on_error both write to it.                 *)
THEOREM ProgressBehindServer == Spec => []ProgressNeverAhead
<1>1. IInv => ProgressNeverAhead
  BY DEF IInv, ProgressNeverAhead
<1>. QED BY <1>1, IInvHolds, PTL
=============================================================================
