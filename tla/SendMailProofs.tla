---------------------------- MODULE SendMailProofs ----------------------------
(***************************************************************************)
(* Proofs about SendMail, for every set of addresses, file length and      *)
(* number of launches.                                                     *)
(***************************************************************************)
EXTENDS SendMail, FiniteSetTheorems, TLAPS

USE MaxLinesAssumption, MaxLaunchesAssumption
    DEF MaxLinesAssumption, MaxLaunchesAssumption

(* How many lines the current launch has sent, counting the one a failed   *)
(* send may have delivered.                                                *)
Progress ==
  IF pc = "send" THEN i - 1 ELSE IF pc = "done" THEN Len(recipients) ELSE i

(* The inductive invariant.  Every earlier launch sent at most one copy    *)
(* per line and this one at most Progress copies; the lines above the      *)
(* loop's position have been mailed, by this launch or an earlier one.     *)
IInv ==
  /\ recipients \in RecipientFiles
  /\ i \in 1..Len(recipients) + 1
  /\ pc \in {"send", "done", "failed"}
  /\ launches \in 1..MaxLaunches
  /\ inbox \in [Addrs -> Nat]
  /\ pc = "failed" => i <= Len(recipients)
  /\ pc = "done" => i = Len(recipients) + 1
  /\ \A a \in Addrs : inbox[a] <= (launches - 1) * Len(recipients) + Progress
  /\ \A j \in 1..i - 1 : inbox[recipients[j]] > 0

-----------------------------------------------------------------------------
(* A recipient file is a sequence of at most MaxLines addresses.           *)
LEMMA RecipientFileFacts ==
  ASSUME NEW r \in RecipientFiles
  PROVE  /\ r \in Seq(Addrs)
         /\ Len(r) \in 0..MaxLines
         /\ \A j \in 1..Len(r) : r[j] \in Addrs
<1>1. PICK k \in 0..MaxLines : r \in [1..k -> Addrs]
  BY DEF RecipientFiles
<1>. QED BY <1>1

(* The copies of one launch add up: at most Len(recipients) per launch.    *)
LEMMA LaunchesBound ==
  ASSUME NEW l \in 1..MaxLaunches, NEW len \in 0..MaxLines, NEW c \in Nat,
         c <= (l - 1) * len + len
  PROVE  c <= MaxLines * MaxLaunches
<1>1. (l - 1) * len + len = l * len
  OBVIOUS
<1>2. l * len <= MaxLaunches * len
  OBVIOUS
<1>3. MaxLaunches * len <= MaxLaunches * MaxLines
  OBVIOUS
<1>. QED BY <1>1, <1>2, <1>3

(* The current launch never counts more than the file's lines.             *)
LEMMA ProgressBound ==
  ASSUME IInv
  PROVE  Progress \in 0..Len(recipients)
<1>1. Len(recipients) \in Nat /\ i \in 1..Len(recipients) + 1
  BY RecipientFileFacts DEF IInv
<1>. QED BY <1>1 DEF IInv, Progress

-----------------------------------------------------------------------------
(* MailWhale accepts the mail of line i: that line's address has a copy.   *)
LEMMA AcceptedKeepsIInv ==
  ASSUME IInv, SendAccepted
  PROVE  IInv'
<1> DEFINE L == Len(recipients)
<1>1. /\ pc = "send" /\ i <= L /\ L \in Nat /\ i \in 1..L + 1
      /\ recipients[i] \in Addrs /\ inbox \in [Addrs -> Nat]
  BY RecipientFileFacts DEF SendAccepted, IInv
<1>2. /\ inbox' = [inbox EXCEPT ![recipients[i]] = @ + 1] /\ i' = i + 1
      /\ recipients' = recipients /\ pc' = pc /\ launches' = launches
  BY DEF SendAccepted, Delivered
<1>3. Progress = i - 1 /\ Progress' = i
  BY <1>1, <1>2 DEF Progress
<1>4. \A a \in Addrs : inbox'[a] <= inbox[a] + 1 /\ inbox'[a] >= inbox[a]
  BY <1>1, <1>2
<1>5. \A a \in Addrs : inbox'[a] <= (launches' - 1) * Len(recipients') + Progress'
  <2>1. \A a \in Addrs : inbox[a] <= (launches - 1) * L + Progress
    BY DEF IInv
  <2>2. launches \in Nat
    BY DEF IInv
  <2>. QED BY <1>1, <1>2, <1>3, <1>4, <2>1, <2>2
<1>6. \A j \in 1..i' - 1 : inbox'[recipients'[j]] > 0
  <2>1. \A j \in 1..i - 1 : inbox[recipients[j]] > 0
    BY DEF IInv
  <2>2. \A j \in 1..i - 1 : recipients[j] \in Addrs
    BY <1>1, RecipientFileFacts DEF IInv
  <2>3. inbox'[recipients[i]] > 0
    BY <1>1, <1>2
  <2>. QED BY <1>1, <1>2, <1>4, <2>1, <2>2, <2>3
<1>7. inbox' \in [Addrs -> Nat]
  BY <1>1, <1>2
<1>. QED BY <1>1, <1>2, <1>5, <1>6, <1>7 DEF IInv

(* A failing send, by an error status or a broken connection.              *)
LEMMA FailedKeepsIInv ==
  ASSUME IInv, SendRejected \/ SendLost
  PROVE  IInv'
<1> DEFINE L == Len(recipients)
<1>1. /\ pc = "send" /\ i <= L /\ L \in Nat /\ i \in 1..L + 1
      /\ recipients[i] \in Addrs /\ inbox \in [Addrs -> Nat]
  BY RecipientFileFacts DEF SendRejected, SendLost, IInv
<1>2. /\ inbox' \in {inbox, [inbox EXCEPT ![recipients[i]] = @ + 1]}
      /\ pc' = "failed" /\ i' = i /\ recipients' = recipients /\ launches' = launches
  BY DEF SendRejected, SendLost, Delivered
<1>3. Progress = i - 1 /\ Progress' = i
  BY <1>1, <1>2 DEF Progress
<1>4. \A a \in Addrs : inbox'[a] <= inbox[a] + 1 /\ inbox'[a] >= inbox[a]
  BY <1>1, <1>2
<1>5. \A a \in Addrs : inbox'[a] <= (launches' - 1) * Len(recipients') + Progress'
  <2>1. \A a \in Addrs : inbox[a] <= (launches - 1) * L + Progress
    BY DEF IInv
  <2>2. launches \in Nat
    BY DEF IInv
  <2>. QED BY <1>1, <1>2, <1>3, <1>4, <2>1, <2>2
<1>6. ASSUME NEW j \in 1..i' - 1 PROVE inbox'[recipients'[j]] > 0
  <2>1. j \in 1..i - 1 /\ recipients'[j] = recipients[j]
    BY <1>2
  <2>2. inbox[recipients[j]] > 0
    BY <2>1 DEF IInv
  <2>3. recipients[j] \in Addrs
    BY <1>1, <2>1, RecipientFileFacts DEF IInv
  <2>4. inbox'[recipients[j]] >= inbox[recipients[j]]
    BY <1>4, <2>3
  <2>5. inbox'[recipients[j]] \in Nat /\ inbox[recipients[j]] \in Nat
    BY <1>1, <1>2, <2>3
  <2>. QED BY <2>1, <2>2, <2>4, <2>5
<1>7. inbox' \in [Addrs -> Nat]
  BY <1>1, <1>2
<1>. QED BY <1>1, <1>2, <1>5, <1>6, <1>7 DEF IInv

(* The user starts the script again: a new launch, nothing sent by it yet. *)
LEMMA RelaunchKeepsIInv ==
  ASSUME IInv, Relaunch
  PROVE  IInv'
<1> DEFINE L == Len(recipients)
<1>1. /\ pc \in {"done", "failed"} /\ launches < MaxLaunches /\ L \in Nat
      /\ launches \in 1..MaxLaunches
  BY RecipientFileFacts DEF Relaunch, IInv
<1>2. /\ i' = 1 /\ pc' = "send" /\ launches' = launches + 1
      /\ recipients' = recipients /\ inbox' = inbox
  BY DEF Relaunch, FirstLine
<1>3. Progress \in 0..L /\ Progress' = 0
  BY <1>2, ProgressBound DEF Progress
<1>4. ASSUME NEW a \in Addrs
      PROVE  inbox'[a] <= (launches' - 1) * Len(recipients') + Progress'
  <2>1. inbox[a] <= (launches - 1) * L + Progress
    BY DEF IInv
  <2>2. (launches - 1) * L + L = launches * L
    BY <1>1
  <2>3. (launches - 1) * L + Progress <= launches * L
    BY <1>1, <1>3, <2>2
  <2>4. (launches' - 1) * Len(recipients') + Progress' = launches * L
    BY <1>1, <1>2, <1>3
  <2>5. inbox[a] \in Nat /\ inbox'[a] = inbox[a] /\ Progress \in Nat
    BY <1>2, <1>3 DEF IInv
  <2>. QED BY <1>1, <2>1, <2>3, <2>4, <2>5
<1>. QED BY <1>1, <1>2, <1>4 DEF IInv

(* Every step of every launch keeps the invariant.                         *)
THEOREM IInvInductive == IInv /\ [Next]_vars => IInv'
<1> SUFFICES ASSUME IInv, [Next]_vars PROVE IInv'
  OBVIOUS
<1>1. CASE SendAccepted
  BY <1>1, AcceptedKeepsIInv
<1>2. CASE SendRejected \/ SendLost
  BY <1>2, FailedKeepsIInv
<1>3. CASE Finish
  <2>1. pc = "send" /\ i > Len(recipients) /\ i \in 1..Len(recipients) + 1
    BY <1>3 DEF Finish, IInv
  <2>2. /\ pc' = "done" /\ i' = i /\ recipients' = recipients
        /\ inbox' = inbox /\ launches' = launches
    BY <1>3 DEF Finish
  <2>3. Len(recipients) \in Nat
    BY RecipientFileFacts DEF IInv
  <2>4. Progress' = Progress
    BY <2>1, <2>2, <2>3 DEF Progress
  <2>. QED BY <2>1, <2>2, <2>3, <2>4 DEF IInv
<1>4. CASE Relaunch
  BY <1>4, RelaunchKeepsIInv
<1>5. CASE UNCHANGED vars
  <2>1. /\ pc' = pc /\ i' = i /\ recipients' = recipients
        /\ inbox' = inbox /\ launches' = launches
    BY <1>5 DEF vars
  <2>. QED BY <2>1 DEF IInv, Progress
<1>6. CASE Stopped
  BY <1>5, <1>6 DEF Stopped
<1>. QED BY <1>1, <1>2, <1>3, <1>4, <1>5, <1>6 DEF Next

(* The invariant holds in every state of every sequence of launches.       *)
THEOREM IInvHolds == Spec => []IInv
<1>1. Init => IInv
  <2> SUFFICES ASSUME Init PROVE IInv
    OBVIOUS
  <2>1. Len(recipients) \in Nat /\ pc = "send" /\ i = 1 /\ launches = 1
    BY RecipientFileFacts DEF Init, FirstLine
  <2>2. Progress = 0 /\ inbox \in [Addrs -> Nat] /\ \A a \in Addrs : inbox[a] = 0
    BY <2>1 DEF Init, Progress
  <2>. QED BY <2>1, <2>2 DEF Init, IInv
<1>. QED BY <1>1, IInvInductive, PTL DEF Spec

(* Every state of every sequence of launches is well typed: no address     *)
(* ever holds more than MaxLines copies per launch.                        *)
THEOREM TypeCorrect == Spec => []TypeOK
<1>1. IInv => TypeOK
  <2> SUFFICES ASSUME IInv PROVE TypeOK
    OBVIOUS
  <2>1. Len(recipients) \in 0..MaxLines /\ launches \in 1..MaxLaunches
    BY RecipientFileFacts DEF IInv
  <2>2. ASSUME NEW a \in Addrs PROVE inbox[a] \in 0..MaxLines * MaxLaunches
    <3>1. inbox[a] \in Nat
      BY DEF IInv
    <3>2. inbox[a] <= (launches - 1) * Len(recipients) + Progress
      BY DEF IInv
    <3>3. Progress \in 0..Len(recipients)
      BY ProgressBound
    <3>4. inbox[a] <= (launches - 1) * Len(recipients) + Len(recipients)
      BY <2>1, <3>1, <3>2, <3>3
    <3>. QED BY <2>1, <3>1, <3>4, LaunchesBound
  <2>3. inbox \in [Addrs -> 0..MaxLines * MaxLaunches]
    BY <2>2 DEF IInv
  <2>. QED BY <2>3 DEF IInv, TypeOK
<1>. QED BY <1>1, IInvHolds, PTL

(* A launch of send_mail.py that ends normally has mailed every address of *)
(* the recipient file, whatever earlier launches did.                      *)
THEOREM AllMailedWhenDone == Spec => []DoneMeansAllMailed
<1>1. IInv => DoneMeansAllMailed
  <2> SUFFICES ASSUME IInv, pc = "done", NEW a \in Listed(Len(recipients))
               PROVE  inbox[a] > 0
    BY DEF DoneMeansAllMailed
  <2>1. PICK j \in 1..Len(recipients) : a = recipients[j]
    BY DEF Listed
  <2>2. i = Len(recipients) + 1 /\ Len(recipients) \in Nat
    BY RecipientFileFacts DEF IInv
  <2>. QED BY <2>1, <2>2 DEF IInv
<1>. QED BY <1>1, IInvHolds, PTL

-----------------------------------------------------------------------------
(* Copies per address.  The lines of address a among the first k lines of  *)
(* the file; Lines(a) counts them over the whole file.                     *)
SentIn(a, k) == {j \in 1..k : recipients[j] = a}

(* Every earlier launch sent a at most once per line of a, and the current *)
(* launch at most once per line of a it has passed (Progress).             *)
CopyInv ==
  \A a \in Addrs :
    inbox[a] <= (launches - 1) * Lines(a) + Cardinality(SentIn(a, Progress))

(* The lines of a among the first k are finitely many, and no more than    *)
(* its lines in the whole file.                                            *)
LEMMA SentInFacts ==
  ASSUME NEW a, NEW k \in 0..Len(recipients), Len(recipients) \in Nat
  PROVE  /\ IsFiniteSet(SentIn(a, k))
         /\ Cardinality(SentIn(a, k)) \in Nat
         /\ Cardinality(SentIn(a, k)) <= Lines(a)
         /\ Lines(a) \in Nat
<1>1. IsFiniteSet(1..Len(recipients)) /\ IsFiniteSet(1..k)
  BY FS_Interval
<1>2. SentIn(a, Len(recipients)) \subseteq 1..Len(recipients)
      /\ SentIn(a, k) \subseteq SentIn(a, Len(recipients))
  BY DEF SentIn
<1>3. IsFiniteSet(SentIn(a, Len(recipients)))
  BY <1>1, <1>2, FS_Subset
<1>4. IsFiniteSet(SentIn(a, k))
      /\ Cardinality(SentIn(a, k)) <= Cardinality(SentIn(a, Len(recipients)))
  BY <1>2, <1>3, FS_Subset
<1>5. Cardinality(SentIn(a, k)) \in Nat
  BY <1>4, FS_CardinalityType
<1>6. Lines(a) \in Nat
  BY <1>3, FS_CardinalityType DEF Lines, SentIn
<1>. QED BY <1>4, <1>5, <1>6 DEF Lines, SentIn

(* Passing line k + 1 adds one line of its address and none of the others. *)
LEMMA SentInStep ==
  ASSUME NEW a, Len(recipients) \in Nat, NEW k \in 0..Len(recipients) - 1
  PROVE  Cardinality(SentIn(a, k + 1)) =
           Cardinality(SentIn(a, k)) + (IF recipients[k + 1] = a THEN 1 ELSE 0)
<1>1. IsFiniteSet(SentIn(a, k)) /\ Cardinality(SentIn(a, k)) \in Nat
  BY SentInFacts
<1>2. CASE recipients[k + 1] = a
  <2>1. SentIn(a, k + 1) = SentIn(a, k) \cup {k + 1} /\ k + 1 \notin SentIn(a, k)
    BY <1>2 DEF SentIn
  <2>2. Cardinality(SentIn(a, k) \cup {k + 1}) = Cardinality(SentIn(a, k)) + 1
    BY <1>1, <2>1, FS_AddElement
  <2>. QED BY <1>2, <2>1, <2>2
<1>3. CASE recipients[k + 1] # a
  <2>1. SentIn(a, k + 1) = SentIn(a, k)
    BY <1>3 DEF SentIn
  <2>. QED BY <1>1, <1>3, <2>1
<1>. QED BY <1>2, <1>3

(* No step changes the recipient file, so the line counts only move with   *)
(* the loop's position.                                                    *)
LEMMA LinesStatic ==
  ASSUME recipients' = recipients, NEW a
  PROVE  /\ Lines(a)' = Lines(a)
         /\ SentIn(a, Progress)' = SentIn(a, Progress')
BY DEF Lines, SentIn

(* A send passes line i: the copies of its address and its count of lines *)
(* passed grow together, by at most and by exactly one.                   *)
LEMMA SendKeepsCopyInv ==
  ASSUME IInv, CopyInv, SendAccepted \/ SendRejected \/ SendLost
  PROVE  CopyInv'
<1> DEFINE L == Len(recipients)
<1>1. /\ pc = "send" /\ i <= L /\ L \in Nat /\ i \in 1..L + 1
      /\ inbox \in [Addrs -> Nat] /\ launches \in Nat
  BY RecipientFileFacts DEF SendAccepted, SendRejected, SendLost, IInv
<1>2. /\ inbox' \in {inbox, [inbox EXCEPT ![recipients[i]] = @ + 1]}
      /\ recipients' = recipients /\ launches' = launches
      /\ Progress' = i
  <2>1. /\ inbox' \in {inbox, [inbox EXCEPT ![recipients[i]] = @ + 1]}
        /\ recipients' = recipients /\ launches' = launches
        /\ \/ pc' = "send" /\ i' = i + 1
           \/ pc' = "failed" /\ i' = i
    BY DEF SendAccepted, SendRejected, SendLost, Delivered
  <2>. QED BY <1>1, <2>1 DEF Progress
<1>3. Progress = i - 1
  BY <1>1 DEF Progress
<1> SUFFICES ASSUME NEW a \in Addrs
             PROVE  inbox'[a] <= (launches' - 1) * Lines(a)'
                                 + Cardinality(SentIn(a, Progress)')
  BY DEF CopyInv
<1>4. Lines(a)' = Lines(a) /\ SentIn(a, Progress)' = SentIn(a, i)
  BY <1>2, LinesStatic
<1>5. /\ Cardinality(SentIn(a, i)) =
           Cardinality(SentIn(a, i - 1)) + (IF recipients[i] = a THEN 1 ELSE 0)
      /\ Cardinality(SentIn(a, i - 1)) \in Nat
  BY <1>1, SentInStep, SentInFacts
<1>6. inbox'[a] <= inbox[a] + (IF recipients[i] = a THEN 1 ELSE 0)
  BY <1>1, <1>2
<1>7. inbox[a] <= (launches - 1) * Lines(a) + Cardinality(SentIn(a, i - 1))
  BY <1>3 DEF CopyInv
<1>8. Lines(a) \in Nat /\ inbox[a] \in Nat
  BY <1>1, SentInFacts
<1>. QED BY <1>1, <1>2, <1>4, <1>5, <1>6, <1>7, <1>8

(* A relaunch starts counting the new launch's lines from zero; the ended  *)
(* launch passed at most every line once.                                  *)
LEMMA RelaunchKeepsCopyInv ==
  ASSUME IInv, CopyInv, Relaunch
  PROVE  CopyInv'
<1>1. /\ recipients' = recipients /\ inbox' = inbox /\ launches' = launches + 1
      /\ pc' = "send" /\ i' = 1 /\ launches \in Nat
  BY DEF Relaunch, FirstLine, IInv
<1>2. Progress' = 0 /\ Progress \in 0..Len(recipients) /\ Len(recipients) \in Nat
  BY <1>1, ProgressBound, RecipientFileFacts DEF Progress, IInv
<1> SUFFICES ASSUME NEW a \in Addrs
             PROVE  inbox'[a] <= (launches' - 1) * Lines(a)'
                                 + Cardinality(SentIn(a, Progress)')
  BY DEF CopyInv
<1>3. Lines(a)' = Lines(a) /\ SentIn(a, Progress)' = SentIn(a, 0)
  BY <1>1, <1>2, LinesStatic
<1>4. Cardinality(SentIn(a, 0)) = 0
  <2>1. SentIn(a, 0) = {}
    BY DEF SentIn
  <2>. QED BY <2>1, FS_EmptySet
<1>5. /\ Cardinality(SentIn(a, Progress)) <= Lines(a)
      /\ Cardinality(SentIn(a, Progress)) \in Nat
  BY <1>2, SentInFacts
<1>6. inbox[a] <= (launches - 1) * Lines(a) + Cardinality(SentIn(a, Progress))
  BY DEF CopyInv
<1>7. Lines(a) \in Nat /\ inbox[a] \in Nat
  BY <1>2, SentInFacts DEF IInv
<1>. QED BY <1>1, <1>3, <1>4, <1>5, <1>6, <1>7

(* Every step of every launch keeps the copy bound.                        *)
THEOREM CopyInvInductive == IInv /\ CopyInv /\ [Next]_vars => CopyInv'
<1> SUFFICES ASSUME IInv, CopyInv, [Next]_vars PROVE CopyInv'
  OBVIOUS
<1>1. CASE SendAccepted \/ SendRejected \/ SendLost
  BY <1>1, SendKeepsCopyInv
<1>2. CASE Relaunch
  BY <1>2, RelaunchKeepsCopyInv
<1>3. CASE Finish \/ Stopped \/ UNCHANGED vars
  <2>1. /\ recipients' = recipients /\ inbox' = inbox /\ launches' = launches
        /\ Progress' = Progress
    <3>1. pc = "send" /\ i > Len(recipients) => Progress = Len(recipients)
      BY RecipientFileFacts DEF IInv, Progress
    <3>. QED BY <1>3, <3>1 DEF Finish, Stopped, vars, Progress
  <2>2. \A a : Lines(a)' = Lines(a) /\ SentIn(a, Progress)' = SentIn(a, Progress)
    BY <2>1, LinesStatic
  <2>. QED BY <2>1, <2>2 DEF CopyInv
<1>. QED BY <1>1, <1>2, <1>3 DEF Next

(* The copy bound holds in every state of every sequence of launches.      *)
THEOREM CopyInvHolds == Spec => [](IInv /\ CopyInv)
<1>1. Init => CopyInv
  <2> SUFFICES ASSUME Init, NEW a \in Addrs
               PROVE  inbox[a] <= (launches - 1) * Lines(a) + Cardinality(SentIn(a, Progress))
    BY DEF CopyInv
  <2>1. Len(recipients) \in Nat /\ Progress = 0 /\ launches = 1 /\ inbox[a] = 0
    BY RecipientFileFacts DEF Init, Progress, FirstLine
  <2>2. Lines(a) \in Nat /\ Cardinality(SentIn(a, 0)) \in Nat
    BY <2>1, SentInFacts
  <2>. QED BY <2>1, <2>2
<1>. QED BY <1>1, IInvHolds, CopyInvInductive, PTL DEF Spec

(* However its launches fail, send_mail.py never mails an address more     *)
(* often than its lines in the recipient file times the launches: nothing  *)
(* records progress, so each launch resends from line 1, but no launch     *)
(* sends a line twice.                                                     *)
THEOREM CopiesWithinLaunches == Spec => []CopiesBoundedByLaunches
<1>1. IInv /\ CopyInv => CopiesBoundedByLaunches
  <2> SUFFICES ASSUME IInv, CopyInv, NEW a \in Addrs
               PROVE  inbox[a] <= launches * Lines(a)
    BY DEF CopiesBoundedByLaunches
  <2>1. Progress \in 0..Len(recipients) /\ Len(recipients) \in Nat
    BY ProgressBound, RecipientFileFacts DEF IInv
  <2>2. /\ Cardinality(SentIn(a, Progress)) <= Lines(a)
        /\ Cardinality(SentIn(a, Progress)) \in Nat
    BY <2>1, SentInFacts
  <2>3. Lines(a) \in Nat /\ launches \in Nat /\ inbox[a] \in Nat
    BY <2>1, SentInFacts DEF IInv
  <2>4. (launches - 1) * Lines(a) + Lines(a) = launches * Lines(a)
    BY <2>3
  <2>. QED BY <2>2, <2>3, <2>4 DEF CopyInv
<1>. QED BY <1>1, CopyInvHolds, PTL
=============================================================================
