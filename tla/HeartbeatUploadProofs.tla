------------------------ MODULE HeartbeatUploadProofs ------------------------
(***************************************************************************)
(* Proofs about HeartbeatUpload, for every value of its constants.         *)
(*                                                                         *)
(* The model picks a group key with Least (the sorted order of groupby's   *)
(* keys) and the first row of a chunk with FirstRow (data[0]).  Both are   *)
(* CHOOSEs, so everything that reads a header or advances the cursor rests *)
(* on the two lemmas below: a least element exists.  They follow from the  *)
(* well-foundedness of < on Nat and of its lexicographic extension to      *)
(* Nat \X Nat.                                                             *)
(***************************************************************************)
EXTENDS HeartbeatUpload, WellFoundedInduction, TLAPS

(* FirstRow(S), the row send_batch reads its headers from, is a row of the *)
(* chunk and comes first in it.                                            *)
LEMMA FirstRowIsFirst ==
  ASSUME NEW S \in SUBSET Nat, S # {}
  PROVE  /\ FirstRow(S) \in S
         /\ \A j \in S : FirstRow(S) <= j
<1>1. \A a, b \in Nat : <<a, b>> \in OpToRel(<, Nat) <=> a < b
  BY DEF OpToRel
<1>2. PICK x \in S : \A y \in S : ~(<<y, x>> \in OpToRel(<, Nat))
  BY NatLessThanWellFounded, WFMin, Zenon
<1>3. \A y \in S : ~(y < x)
  BY <1>1, <1>2, Zenon
<1>4. \A y \in S : x <= y
  BY <1>3
<1>. QED BY <1>4, Zenon DEF FirstRow

(* Least(S), the next key in groupby's sorted order, is a key of S and no  *)
(* key of S sorts before it.                                               *)
LEMMA LeastIsLeast ==
  ASSUME NEW S \in SUBSET (Nat \X Nat), S # {}
  PROVE  /\ Least(S) \in S
         /\ \A k2 \in S : ~LexLt(k2, Least(S))
<1> DEFINE Lex == LexPairOrdering(OpToRel(<, Nat), OpToRel(<, Nat), Nat, Nat)
<1>1. IsWellFoundedOn(Lex, Nat \X Nat)
  BY NatLessThanWellFounded, WFLexPairOrdering, Zenon
<1>2. PICK x \in S : \A y \in S : ~(<<y, x>> \in Lex)
  BY <1>1, WFMin, Zenon
<1>3. \A y \in S : LexLt(y, x) => <<y, x>> \in Lex
  <2>1. \A a, b \in Nat : a < b => <<a, b>> \in OpToRel(<, Nat)
    BY DEF OpToRel
  <2>. QED BY <2>1, Zenon DEF LexLt, LexPairOrdering
<1>4. \E k \in S : \A k2 \in S : ~LexLt(k2, k)
  BY <1>2, <1>3, Zenon
<1>. QED BY <1>4 DEF Least
-----------------------------------------------------------------------------
(* Facts about the CSV and the chunks that every step below relies on.     *)
LEMMA CsvFacts ==
  ASSUME TypeOK
  PROVE  /\ DOMAIN csv \subseteq Row
         /\ \A i \in DOMAIN csv : csv[i] \in Key
         /\ GroupKeys \subseteq Key
         /\ Key \subseteq Nat \X Nat
<1>1. PICK n \in 0..MaxRows : csv \in [1..n -> Key]
  BY DEF TypeOK
<1>2. DOMAIN csv \subseteq Row
  BY <1>1, MaxRowsAssumption DEF Row, MaxRowsAssumption
<1>3. Key \subseteq Nat \X Nat
  BY IdsAssumption DEF Key, IdsAssumption
<1>. QED BY <1>1, <1>2, <1>3 DEF GroupKeys

(* The chunk being sent holds rows of the CSV whose key is the cursor.     *)
LEMMA BatchInGroup ==
  ASSUME TypeOK
  PROVE  /\ Batch \subseteq DOMAIN csv
         /\ \A i \in Batch : csv[i] = cur
BY DEF Batch, Chunk, GetGroup

(* send_batch's request: a record of the stored-batch type whose headers   *)
(* are the key of its first row.                                           *)
LEMMA PostFacts ==
  ASSUME TypeOK, Batch # {}
  PROVE  /\ Post \in PostRec
         /\ <<Post.ua, Post.machine>> = cur
<1>1. Batch \subseteq Nat /\ Batch \subseteq Row
  BY CsvFacts, BatchInGroup, MaxRowsAssumption DEF Row, MaxRowsAssumption
<1>2. FirstRow(Batch) \in Batch
  BY <1>1, FirstRowIsFirst
<1>3. csv[FirstRow(Batch)] \in Key /\ csv[FirstRow(Batch)] = cur
  BY <1>2, CsvFacts, BatchInGroup
<1>4. Post \in PostRec
  BY <1>1, <1>3 DEF Post, PostRec, Key
<1>5. <<Post.ua, Post.machine>> = cur
  BY <1>3 DEF Post, Key
<1>. QED BY <1>4, <1>5

(* The loop's next position is a group key, or the end of the list.        *)
LEMMA NextCursorType ==
  ASSUME TypeOK
  PROVE  /\ NextCursor[1] \in GroupKeys \cup {NoKey}
         /\ NextCursor[2] \in Nat
<1>1. CASE chunk < NChunks(cur)
  BY <1>1 DEF NextCursor, TypeOK
<1>2. CASE ~(chunk < NChunks(cur)) /\ KeysAfter(cur) # {}
  <2>1. KeysAfter(cur) \subseteq Nat \X Nat
    BY CsvFacts DEF KeysAfter
  <2>2. Least(KeysAfter(cur)) \in GroupKeys
    BY <1>2, <2>1, LeastIsLeast DEF KeysAfter
  <2>. QED BY <1>2, <2>2 DEF NextCursor
<1>3. CASE ~(chunk < NChunks(cur)) /\ KeysAfter(cur) = {}
  BY <1>3 DEF NextCursor
<1>. QED BY <1>1, <1>2, <1>3

(* Type correctness of every reachable state of the upload script.         *)
THEOREM TypeCorrect == Spec => []TypeOK
<1>1. Init => TypeOK
  <2> SUFFICES ASSUME Init PROVE TypeOK
    OBVIOUS
  <2>1. batchSize \in BatchSizes \cup {StrArg}
    BY DEF Init
  <2>2. posts \in Seq(PostRec)
    BY DEF Init
  <2>. QED BY <2>1, <2>2 DEF Init, TypeOK, Errors
<1>2. TypeOK /\ [Next]_vars => TypeOK'
  <2> SUFFICES ASSUME TypeOK, [Next]_vars PROVE TypeOK'
    OBVIOUS
  <2>1. CASE Split
    <3>1. SplitError \in Errors
      BY Zenon DEF SplitError, Errors
    <3>2. GroupKeys # {} => Least(GroupKeys) \in GroupKeys
      BY CsvFacts, LeastIsLeast
    <3>. QED BY <2>1, <3>1, <3>2 DEF Split, TypeOK, GroupKeys
  <2>4. CASE SendEmpty
    BY <2>4 DEF SendEmpty, TypeOK, Errors, GroupKeys
  <2>5. CASE SendAccepted
    <3>1. Post \in PostRec
      BY <2>5, PostFacts DEF SendAccepted
    <3>. QED BY <2>5, <3>1, NextCursorType DEF SendAccepted, Advance, TypeOK, GroupKeys
  <2>7. CASE SendRejected
    BY <2>7 DEF SendRejected, TypeOK, Errors, GroupKeys
  <2>8. CASE SendLost
    <3>1. Post \in PostRec
      BY <2>8, PostFacts DEF SendLost
    <3>. QED BY <2>8, <3>1 DEF SendLost, TypeOK, Errors, GroupKeys
  <2>10. CASE Terminated \/ UNCHANGED vars
    BY <2>10 DEF Terminated, vars, TypeOK, GroupKeys
  <2>. QED BY <2>1, <2>4, <2>5, <2>7, <2>8, <2>10 DEF Next
<1>. QED BY <1>1, <1>2, PTL DEF Spec
-----------------------------------------------------------------------------
(* Appending send_batch's request keeps every stored batch homogeneous.    *)
LEMMA AppendPostHomogeneous ==
  ASSUME TypeOK, PostHomogeneous, Batch # {},
         csv' = csv, posts' = Append(posts, Post)
  PROVE  PostHomogeneous'
<1> SUFFICES ASSUME NEW p \in 1..Len(posts'), NEW i \in posts'[p].recs
             PROVE  csv'[i] = <<posts'[p].ua, posts'[p].machine>>
  BY DEF PostHomogeneous
<1>1. posts \in Seq(PostRec) /\ Post \in PostRec
  BY PostFacts DEF TypeOK
<1>2. CASE p <= Len(posts)
  <2>1. posts'[p] = posts[p]
    BY <1>1, <1>2
  <2>. QED BY <1>2, <2>1, <1>1 DEF PostHomogeneous
<1>3. CASE p = Len(posts) + 1
  <2>1. posts'[p] = Post
    BY <1>1, <1>3
  <2>2. i \in Batch
    BY <2>1 DEF Post
  <2>. QED BY <2>1, <2>2, BatchInGroup, PostFacts
<1>. QED BY <1>1, <1>2, <1>3

(* Every batch the server stores was sent with the User-Agent and          *)
(* X-Machine-Name of each of its rows, although send_batch reads them from *)
(* data[0] alone: the grouping puts only rows of one key in a chunk.       *)
THEOREM BatchesHomogeneous == Spec => []PostHomogeneous
<1>1. Init => PostHomogeneous
  BY DEF Init, PostHomogeneous
<1>2. TypeOK /\ PostHomogeneous /\ [Next]_vars => PostHomogeneous'
  <2> SUFFICES ASSUME TypeOK, PostHomogeneous, [Next]_vars
               PROVE  PostHomogeneous'
    OBVIOUS
  <2>1. CASE posts' = posts /\ csv' = csv
    BY <2>1 DEF PostHomogeneous
  <2>2. CASE SendAccepted
    BY <2>2, AppendPostHomogeneous DEF SendAccepted
  <2>3. CASE SendLost
    <3>1. CASE posts' = posts
      BY <2>3, <3>1, <2>1 DEF SendLost
    <3>2. CASE posts' = Append(posts, Post)
      BY <2>3, <3>2, AppendPostHomogeneous DEF SendLost
    <3>. QED BY <2>3, <3>1, <3>2 DEF SendLost
  <2>4. CASE Split \/ SendEmpty \/ SendRejected \/ Terminated \/ UNCHANGED vars
    BY <2>4, <2>1 DEF Split, SendEmpty, SendRejected, Terminated, vars
  <2>. QED BY <2>2, <2>3, <2>4 DEF Next
<1>. QED BY <1>1, <1>2, TypeCorrect, PTL DEF Spec
=============================================================================
