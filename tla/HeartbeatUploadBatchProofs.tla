--------------------- MODULE HeartbeatUploadBatchProofs ---------------------
(***************************************************************************)
(* Proofs about the batches upload_heartbeats.py stores: none is larger    *)
(* than max_n, and no CSV row is in two of them.                           *)
(*                                                                         *)
(* split_chunks cuts a group into sections by rank: chunk c of group k     *)
(* holds the rows whose rank in the group lies in                          *)
(* ChunkStart(k, c) + 1 .. ChunkStart(k, c) + ChunkSize(k, c).  Rank is    *)
(* injective on the group, so a chunk has at most ChunkSize rows, and      *)
(* array_split's sizes never exceed max_n.  Chunks of one group occupy     *)
(* consecutive, disjoint rank intervals, and chunks of different groups    *)
(* hold rows of different keys, so two chunks at different positions of   *)
(* the list share no row; run() visits each position once, in order.       *)
(***************************************************************************)
EXTENDS HeartbeatUploadProofs, FiniteSetTheorems

(* The order in which run()'s for loop visits the list of chunks: groups   *)
(* in groupby's sorted order, the chunks of a group in array_split order.  *)
PosLt(a, b) == LexLt(a[1], b[1]) \/ (a[1] = b[1] /\ a[2] < b[2])

(* While the loop sends, max_n passed split_chunks and the cursor is at a  *)
(* chunk of a group.                                                       *)
SendReady ==
  pc = "send" => /\ batchSize \in Nat \ {0}
                 /\ cur \in GroupKeys
                 /\ chunk \in 1..NChunks(cur)

(* Before split_batches nothing was sent.                                  *)
NotSentYet == pc = "split" => posts = <<>>

(* Every stored batch is a chunk of the list, and while the loop runs it   *)
(* lies before the cursor.                                                 *)
ChunksBeforeCursor ==
  \A p \in 1..Len(posts) :
    \E k \in GroupKeys : \E c \in 1..NChunks(k) :
      /\ posts[p].recs = Chunk(k, c)
      /\ pc = "send" => PosLt(<<k, c>>, <<cur, chunk>>)

BatchInv ==
  /\ SendReady
  /\ NotSentYet
  /\ ChunksBeforeCursor
  /\ PostBounded
  /\ NoRowUploadedTwice

(* The inductive invariant: PostBounded and NoRowUploadedTwice with what   *)
(* they need about the cursor and the chunks already stored.               *)
IInv == TypeOK /\ BatchInv
(* The rows of group k the server has stored.                             *)
UploadedOf(k) == {i \in GetGroup(k) : i \in Uploaded}

(* The rows of group k whose rank is at most m: an initial part of the     *)
(* group in CSV order.                                                     *)
RankPrefix(k, m) == {i \in GetGroup(k) : Rank(k, i) <= m}

(* While the loop sends, the groups before the cursor are stored whole,    *)
(* the cursor's group up to the start of its chunk, and later groups not   *)
(* at all.                                                                 *)
CursorProgress ==
  pc = "send" =>
    \A k \in GroupKeys :
      /\ LexLt(k, cur) => UploadedOf(k) = GetGroup(k)
      /\ k = cur => UploadedOf(k) = RankPrefix(k, ChunkStart(k, chunk))
      /\ LexLt(cur, k) => UploadedOf(k) = {}

(* A normal end has stored every group whole.                              *)
DoneComplete == pc = "done" => \A k \in GroupKeys : UploadedOf(k) = GetGroup(k)

(* Whatever happens, each group is stored up to some rank.                 *)
StoredByRank == \A k \in GroupKeys : \E m \in Nat : UploadedOf(k) = RankPrefix(k, m)

(* Only rows of present keys are ever stored.                              *)
StoredInGroups == Uploaded \subseteq UNION {GetGroup(k) : k \in GroupKeys}

PrefixInv ==
  /\ CursorProgress
  /\ DoneComplete
  /\ StoredByRank
  /\ StoredInGroups

-----------------------------------------------------------------------------
USE MaxRowsAssumption, IdsAssumption DEF MaxRowsAssumption, IdsAssumption

(* A group is a finite set of row positions.                               *)
LEMMA GroupFinite ==
  ASSUME TypeOK, NEW k
  PROVE  /\ GetGroup(k) \subseteq 1..MaxRows
         /\ IsFiniteSet(GetGroup(k))
         /\ Cardinality(GetGroup(k)) \in Nat
<1>1. GetGroup(k) \subseteq 1..MaxRows
  BY CsvFacts DEF GetGroup, Row
<1>2. IsFiniteSet(1..MaxRows)
  BY FS_Interval
<1>3. IsFiniteSet(GetGroup(k))
  BY <1>1, <1>2, FS_Subset
<1>. QED BY <1>1, <1>3, FS_CardinalityType

(* A group key of the CSV has at least one row.                            *)
LEMMA GroupNonEmpty ==
  ASSUME TypeOK, NEW k \in GroupKeys
  PROVE  Cardinality(GetGroup(k)) >= 1
<1>1. PICK i \in DOMAIN csv : csv[i] = k
  BY DEF GroupKeys
<1>2. GetGroup(k) # {}
  BY <1>1 DEF GetGroup
<1>3. Cardinality(GetGroup(k)) # 0
  BY <1>2, GroupFinite, FS_EmptySet
<1>. QED BY <1>3, GroupFinite

(* A row's rank in its group is a natural number.                          *)
LEMMA RankType ==
  ASSUME TypeOK, NEW k, NEW i
  PROVE  Rank(k, i) \in Nat
<1>1. {j \in GetGroup(k) : j <= i} \subseteq GetGroup(k)
  OBVIOUS
<1>2. IsFiniteSet({j \in GetGroup(k) : j <= i})
  BY <1>1, GroupFinite, FS_Subset
<1>. QED BY <1>2, FS_CardinalityType DEF Rank

(* Rows of a group that come later in the CSV have a larger rank: rank is  *)
(* injective on the group.                                                 *)
LEMMA RankStrict ==
  ASSUME TypeOK, NEW k, NEW i \in GetGroup(k), NEW j \in GetGroup(k), i < j
  PROVE  Rank(k, i) < Rank(k, j)
<1> DEFINE A == {x \in GetGroup(k) : x <= i}
           B == {x \in GetGroup(k) : x <= j}
<1>1. GetGroup(k) \subseteq Nat
  BY GroupFinite
<1>2. A \subseteq B /\ j \in B /\ j \notin A
  BY <1>1
<1>3. IsFiniteSet(B)
  BY GroupFinite, FS_Subset
<1>4. Cardinality(A) <= Cardinality(B) /\ (Cardinality(B) = Cardinality(A) => B = A)
  BY <1>2, <1>3, FS_Subset
<1>5. Cardinality(A) # Cardinality(B)
  BY <1>2, <1>4
<1>6. Cardinality(A) \in Nat /\ Cardinality(B) \in Nat
  BY RankType DEF Rank
<1>. QED BY <1>4, <1>5, <1>6 DEF Rank

(* split_batches returns a list of chunks only for a positive max_n:       *)
(* a str raises TypeError, 0 ZeroDivisionError, and a negative one makes   *)
(* n_chunks <= 0 for every group, which array_split rejects.               *)
LEMMA SplitNeedsPositive ==
  ASSUME TypeOK, GroupKeys # {}, SplitError = "none"
  PROVE  batchSize \in Nat \ {0}
<1>1. batchSize \in Int /\ batchSize # 0 /\ \A k \in GroupKeys : NChunks(k) > 0
  <2>1. SplitError \in {"TypeError", "ZeroDivisionError", "ValueError"}
          \/ (batchSize \in Int /\ batchSize # 0 /\ \A k \in GroupKeys : ~(NChunks(k) <= 0))
    BY Zenon DEF SplitError
  <2>2. batchSize \in Int /\ batchSize # 0 => \A k \in GroupKeys : NChunks(k) \in Int
    <3> SUFFICES ASSUME batchSize \in Int, batchSize # 0, NEW k \in GroupKeys PROVE NChunks(k) \in Int
      OBVIOUS
    <3>1. Cardinality(GetGroup(k)) \in Nat
      BY GroupFinite
    <3>. QED BY <3>1 DEF NChunks, FloorDiv
  <2>. QED BY <2>1, <2>2
<1>2. PICK k \in GroupKeys : TRUE
  OBVIOUS
<1>3. Cardinality(GetGroup(k)) >= 1 /\ Cardinality(GetGroup(k)) \in Nat
  BY GroupNonEmpty, GroupFinite
<1>4. ~(batchSize < 0)
  <2> SUFFICES ASSUME batchSize < 0 PROVE FALSE
    OBVIOUS
  <2>1. NChunks(k) = (-Cardinality(GetGroup(k))) \div (-batchSize) + 1
    BY <1>1 DEF NChunks, FloorDiv
  <2>2. (-Cardinality(GetGroup(k))) \div (-batchSize) <= -1
    BY <1>1, <1>3
  <2>3. NChunks(k) > 0
    BY <1>1
  <2>. QED BY <1>1, <1>3, <2>1, <2>2, <2>3
<1>. QED BY <1>1, <1>4

(* The arithmetic of split_chunks and array_split: with n_chunks =         *)
(* len // max_n + 1 sections, each gets len // n_chunks rows and the first *)
(* len % n_chunks one more, which is still at most max_n.                  *)
LEMMA ArraySplitArith ==
  ASSUME NEW len \in Nat, NEW b \in Nat \ {0}
  PROVE  LET N == len \div b + 1
             ne == len \div N
         IN  /\ N \in Nat \ {0}
             /\ ne \in Nat
             /\ len % N \in 0..N - 1
             /\ ne + 1 <= b
<1> DEFINE q == len \div b
           N == q + 1
           ne == len \div N
<1>1. q \in Nat /\ len = b * q + (len % b) /\ len % b \in 0..b - 1
  BY SMT
<1>2. N \in Nat \ {0} /\ len < b * N
  BY <1>1, SMT
<1>3. ne \in Nat /\ len = N * ne + (len % N) /\ len % N \in 0..N - 1
  BY <1>2, SMT
<1>4. N * ne <= len
  BY <1>3, SMT
<1>5. N * ne < N * b
  BY <1>2, <1>4, SMT
<1>6. ne < b
  BY <1>2, <1>3, <1>5, SMT
<1>. QED BY <1>2, <1>3, <1>6

(* The sections array_split cuts a group into, for a positive max_n.       *)
LEMMA SplitSizes ==
  ASSUME TypeOK, batchSize \in Nat \ {0}, NEW k
  PROVE  /\ NChunks(k) \in Nat \ {0}
         /\ Neach(k) \in Nat
         /\ Extras(k) \in 0..NChunks(k) - 1
         /\ Neach(k) + 1 <= batchSize
<1>1. Cardinality(GetGroup(k)) \in Nat
  BY GroupFinite
<1>2. NChunks(k) = Cardinality(GetGroup(k)) \div batchSize + 1
  BY DEF NChunks, FloorDiv
<1>. QED BY <1>1, <1>2, ArraySplitArith DEF Neach, Extras

(* A chunk holds at most ChunkSize rows, hence at most max_n: the rank of  *)
(* its rows maps it one-to-one into its rank interval.                     *)
LEMMA ChunkBounded ==
  ASSUME TypeOK, batchSize \in Nat \ {0}, NEW k, NEW c \in Int
  PROVE  /\ IsFiniteSet(Chunk(k, c))
         /\ Cardinality(Chunk(k, c)) <= batchSize
<1> DEFINE st == ChunkStart(k, c)
           z == ChunkSize(k, c)
           I == st + 1 .. st + z
           C == Chunk(k, c)
           f == [i \in C |-> Rank(k, i)]
<1>1. st \in Int /\ z \in Nat /\ z <= batchSize
  BY SplitSizes DEF ChunkStart, ChunkSize
<1>2. C \subseteq GetGroup(k) /\ GetGroup(k) \subseteq Nat
  BY GroupFinite DEF Chunk
<1>3. \A i \in C : Rank(k, i) \in I
  <2> TAKE i \in C
  <2>1. Rank(k, i) \in Nat /\ st < Rank(k, i) /\ Rank(k, i) <= st + z
    BY RankType DEF Chunk
  <2>. QED BY <1>1, <2>1
<1>4. \A i, j \in C : i # j => f[i] # f[j]
  <2> SUFFICES ASSUME NEW i \in C, NEW j \in C, i # j PROVE Rank(k, i) # Rank(k, j)
    OBVIOUS
  <2>1. i \in GetGroup(k) /\ j \in GetGroup(k) /\ i \in Nat /\ j \in Nat
    BY <1>2
  <2>4. Rank(k, i) \in Nat /\ Rank(k, j) \in Nat
    BY RankType
  <2>2. CASE i < j
    <3>1. Rank(k, i) < Rank(k, j)
      BY <2>1, <2>2, RankStrict
    <3>. QED BY <3>1, <2>4
  <2>3. CASE j < i
    <3>1. Rank(k, j) < Rank(k, i)
      BY <2>1, <2>3, RankStrict
    <3>. QED BY <3>1, <2>4
  <2>. QED BY <2>1, <2>2, <2>3
<1>5. f \in Injection(C, I)
  BY <1>3, <1>4 DEF Injection, IsInjective
<1>6. IsFiniteSet(I) /\ Cardinality(I) <= z
  <2>1. st + 1 \in Int /\ st + z \in Int
    BY <1>1
  <2>2. IsFiniteSet(st + 1 .. st + z)
        /\ Cardinality(st + 1 .. st + z) = IF st + 1 > st + z THEN 0 ELSE (st + z) - (st + 1) + 1
    BY <2>1, FS_Interval
  <2>. QED BY <1>1, <2>2
<1>7. IsFiniteSet(C) /\ Cardinality(C) <= Cardinality(I)
  BY <1>5, <1>6, FS_Injection
<1>8. Cardinality(I) \in Nat /\ Cardinality(C) \in Nat
  BY <1>6, <1>7, FS_CardinalityType
<1>. QED BY <1>1, <1>6, <1>7, <1>8

(* array_split's sections follow one another: section c ends at or before  *)
(* the start of any later section.                                         *)
LEMMA SectionsInOrderArith ==
  ASSUME NEW ne \in Nat, NEW ex \in Nat, NEW c1 \in Int, NEW c2 \in Int, c1 < c2
  PROVE  (c1 - 1) * ne + (IF c1 - 1 < ex THEN c1 - 1 ELSE ex)
           + (IF c1 <= ex THEN ne + 1 ELSE ne)
         <= (c2 - 1) * ne + (IF c2 - 1 < ex THEN c2 - 1 ELSE ex)
<1>1. c1 * ne <= (c2 - 1) * ne
  <2>1. (c2 - 1 - c1) * ne >= 0
    BY SMT
  <2>. QED BY <2>1, SMT
<1>2. (c1 - 1) * ne + ne = c1 * ne
  BY SMT
<1>. QED BY <1>1, <1>2, SMT

LEMMA ChunksInOrder ==
  ASSUME TypeOK, batchSize \in Nat \ {0}, NEW k,
         NEW c1 \in Int, NEW c2 \in Int, c1 < c2
  PROVE  ChunkStart(k, c1) + ChunkSize(k, c1) <= ChunkStart(k, c2)
<1>1. Neach(k) \in Nat /\ Extras(k) \in Nat
  BY SplitSizes
<1>. QED BY <1>1, SectionsInOrderArith DEF ChunkStart, ChunkSize

(* Chunks at two different positions of run()'s list share no row: those  *)
(* of different groups hold rows of different keys, and those of one group *)
(* occupy disjoint rank intervals.                                         *)
LEMMA ChunksDisjoint ==
  ASSUME TypeOK, batchSize \in Nat \ {0},
         NEW k1 \in GroupKeys, NEW c1 \in Int, NEW k2 \in GroupKeys, NEW c2 \in Int,
         PosLt(<<k1, c1>>, <<k2, c2>>)
  PROVE  Chunk(k1, c1) \cap Chunk(k2, c2) = {}
<1> SUFFICES ASSUME NEW i \in Chunk(k1, c1), i \in Chunk(k2, c2) PROVE FALSE
  OBVIOUS
<1>1. CASE LexLt(k1, k2)
  <2>1. k1 # k2
    BY <1>1, CsvFacts DEF LexLt
  <2>. QED BY <2>1 DEF Chunk, GetGroup
<1>2. CASE k1 = k2 /\ c1 < c2
  <2>1. Rank(k1, i) \in Nat
    BY RankType
  <2>2. ChunkStart(k1, c1) + ChunkSize(k1, c1) <= ChunkStart(k1, c2)
    BY <1>2, ChunksInOrder
  <2>3. Rank(k1, i) <= ChunkStart(k1, c1) + ChunkSize(k1, c1)
    BY DEF Chunk
  <2>4. ChunkStart(k1, c2) < Rank(k1, i)
    BY <1>2 DEF Chunk
  <2>5. ChunkStart(k1, c1) \in Int /\ ChunkSize(k1, c1) \in Int /\ ChunkStart(k1, c2) \in Int
    BY SplitSizes DEF ChunkStart, ChunkSize
  <2>. QED BY <2>1, <2>2, <2>3, <2>4, <2>5
<1>. QED BY <1>1, <1>2 DEF PosLt

-----------------------------------------------------------------------------
(* The loop's order is transitive.                                         *)
LEMMA PosLtTrans ==
  ASSUME TypeOK, NEW a \in GroupKeys \X Int, NEW b \in GroupKeys \X Int,
         NEW d \in GroupKeys \X Int, PosLt(a, b), PosLt(b, d)
  PROVE  PosLt(a, d)
<1>1. a[1] \in Nat \X Nat /\ b[1] \in Nat \X Nat /\ d[1] \in Nat \X Nat
  BY CsvFacts
<1>. QED BY <1>1 DEF PosLt, LexLt

(* What the chunk list's order and content depend on is csv and max_n.     *)
LEMMA ChunksStatic ==
  ASSUME csv' = csv, batchSize' = batchSize
  PROVE  /\ GroupKeys' = GroupKeys
         /\ \A k : NChunks(k)' = NChunks(k)
         /\ \A k, c : Chunk(k, c)' = Chunk(k, c)
BY DEF GroupKeys, NChunks, FloorDiv, GetGroup, Chunk, Rank, ChunkStart, ChunkSize,
       Neach, Extras

(* The loop's next position comes after the current one and, unless the    *)
(* list is over, is a chunk of a group.                                    *)
LEMMA NextCursorAfter ==
  ASSUME TypeOK, SendReady, pc = "send", NextCursor[1] # NoKey
  PROVE  /\ NextCursor[1] \in GroupKeys
         /\ NextCursor[2] \in 1..NChunks(NextCursor[1])
         /\ PosLt(<<cur, chunk>>, NextCursor)
<1>1. batchSize \in Nat \ {0} /\ cur \in GroupKeys /\ chunk \in 1..NChunks(cur)
  BY DEF SendReady
<1>2. CASE chunk < NChunks(cur)
  <2>1. NextCursor = <<cur, chunk + 1>>
    BY <1>2 DEF NextCursor
  <2>2. NChunks(cur) \in Nat
    BY <1>1, SplitSizes
  <2>. QED BY <1>1, <1>2, <2>1, <2>2 DEF PosLt
<1>3. CASE ~(chunk < NChunks(cur)) /\ KeysAfter(cur) # {}
  <2>1. NextCursor = <<Least(KeysAfter(cur)), 1>>
    BY <1>3 DEF NextCursor
  <2>2. KeysAfter(cur) \subseteq Nat \X Nat
    BY CsvFacts DEF KeysAfter
  <2>3. Least(KeysAfter(cur)) \in KeysAfter(cur)
    BY <1>3, <2>2, LeastIsLeast
  <2>4. Least(KeysAfter(cur)) \in GroupKeys /\ LexLt(cur, Least(KeysAfter(cur)))
    BY <2>3 DEF KeysAfter
  <2>5. NChunks(Least(KeysAfter(cur))) \in Nat \ {0}
    BY <1>1, SplitSizes
  <2>. QED BY <2>1, <2>4, <2>5 DEF PosLt
<1>4. CASE ~(chunk < NChunks(cur)) /\ KeysAfter(cur) = {}
  BY <1>4 DEF NextCursor
<1>. QED BY <1>2, <1>3, <1>4

(* Storing send_batch's request for the chunk at the cursor keeps every    *)
(* batch within max_n and the batches pairwise disjoint.                   *)
LEMMA AppendChunk ==
  ASSUME TypeOK, BatchInv, pc = "send", Batch # {},
         csv' = csv, batchSize' = batchSize, posts' = Append(posts, Post)
  PROVE  /\ PostBounded'
         /\ NoRowUploadedTwice'
<1>1. batchSize \in Nat \ {0} /\ cur \in GroupKeys /\ chunk \in 1..NChunks(cur)
  BY DEF BatchInv, SendReady
<1>2. posts \in Seq(PostRec) /\ Post \in PostRec
  BY PostFacts DEF TypeOK
<1>3. Post.recs = Chunk(cur, chunk)
  BY DEF Post, Batch
<1>4. \A p \in 1..Len(posts) : posts'[p] = posts[p]
  BY <1>2
<1>5. posts'[Len(posts) + 1] = Post /\ Len(posts') = Len(posts) + 1
  BY <1>2
<1>6. PostBounded'
  <2> SUFFICES ASSUME NEW p \in 1..Len(posts')
               PROVE  Cardinality(posts'[p].recs) <= batchSize
    BY DEF PostBounded
  <2>1. CASE p \in 1..Len(posts)
    BY <1>4, <2>1 DEF BatchInv, PostBounded
  <2>2. CASE p = Len(posts) + 1
    BY <1>1, <1>3, <1>5, <2>2, ChunkBounded
  <2>. QED BY <1>2, <1>5, <2>1, <2>2
<1>7. \A p \in 1..Len(posts) : posts[p].recs \cap Post.recs = {}
  <2> TAKE p \in 1..Len(posts)
  <2>1. PICK k \in GroupKeys : \E c \in 1..NChunks(k) :
          /\ posts[p].recs = Chunk(k, c)
          /\ PosLt(<<k, c>>, <<cur, chunk>>)
    BY DEF BatchInv, ChunksBeforeCursor
  <2>2. PICK c \in 1..NChunks(k) :
          /\ posts[p].recs = Chunk(k, c)
          /\ PosLt(<<k, c>>, <<cur, chunk>>)
    BY <2>1
  <2>3. c \in Int /\ chunk \in Int
    BY <1>1, <2>2, SplitSizes
  <2>. QED BY <1>1, <1>3, <2>2, <2>3, ChunksDisjoint
<1>8. NoRowUploadedTwice'
  <2> SUFFICES ASSUME NEW p \in 1..Len(posts'), NEW q \in 1..Len(posts'), p # q
               PROVE  posts'[p].recs \cap posts'[q].recs = {}
    BY DEF NoRowUploadedTwice
  <2>1. CASE p \in 1..Len(posts) /\ q \in 1..Len(posts)
    BY <1>4, <2>1 DEF BatchInv, NoRowUploadedTwice
  <2>2. CASE p \in 1..Len(posts) /\ q = Len(posts) + 1
    BY <1>4, <1>5, <1>7, <2>2
  <2>3. CASE p = Len(posts) + 1 /\ q \in 1..Len(posts)
    BY <1>4, <1>5, <1>7, <2>3
  <2>. QED BY <1>2, <1>5, <2>1, <2>2, <2>3
<1>. QED BY <1>6, <1>8

(* A step that stores nothing, changes neither the CSV nor max_n and ends  *)
(* the loop keeps the stored chunks as they are.                           *)
LEMMA KeepChunks ==
  ASSUME BatchInv, csv' = csv, batchSize' = batchSize, posts' = posts,
         pc' # "send"
  PROVE  /\ ChunksBeforeCursor'
         /\ PostBounded'
         /\ NoRowUploadedTwice'
<1>1. ChunksBeforeCursor'
  <2> SUFFICES ASSUME NEW p \in 1..Len(posts')
               PROVE  \E k \in GroupKeys' : \E c \in 1..NChunks(k)' :
                        posts'[p].recs = Chunk(k, c)'
    BY DEF ChunksBeforeCursor
  <2>1. PICK k \in GroupKeys : \E c \in 1..NChunks(k) : posts[p].recs = Chunk(k, c)
    BY DEF BatchInv, ChunksBeforeCursor
  <2>. QED BY <2>1, ChunksStatic
<1>2. PostBounded' /\ NoRowUploadedTwice'
  BY DEF BatchInv, PostBounded, NoRowUploadedTwice
<1>. QED BY <1>1, <1>2

(* split_batches: nothing stored yet, and a list of chunks only for a      *)
(* positive max_n, its first chunk being the first of the least group.     *)
LEMMA SplitKeepsBatchInv ==
  ASSUME TypeOK, BatchInv, Split
  PROVE  BatchInv'
<1>1. posts = <<>> /\ posts' = posts /\ csv' = csv /\ batchSize' = batchSize
  BY DEF Split, BatchInv, NotSentYet
<1>2. SendReady'
  <2> SUFFICES ASSUME pc' = "send"
               PROVE  (/\ batchSize \in Nat \ {0}
                       /\ cur \in GroupKeys
                       /\ chunk \in 1..NChunks(cur))'
    BY DEF SendReady
  <2>1. SplitError = "none" /\ GroupKeys # {} /\ cur' = Least(GroupKeys) /\ chunk' = 1
    BY DEF Split
  <2>2. batchSize \in Nat \ {0}
    BY <2>1, SplitNeedsPositive
  <2>3. Least(GroupKeys) \in GroupKeys
    BY <2>1, CsvFacts, LeastIsLeast
  <2>4. NChunks(cur') \in Nat \ {0}
    BY <2>2, SplitSizes
  <2>5. (NChunks(cur))' = NChunks(cur')
    BY <1>1, ChunksStatic
  <2>6. GroupKeys' = GroupKeys
    BY <1>1, ChunksStatic
  <2>. QED BY <1>1, <2>1, <2>2, <2>3, <2>4, <2>5, <2>6
<1>3. pc' # "split"
  BY DEF Split
<1>4. Len(posts') = 0
  BY <1>1
<1>. QED BY <1>2, <1>3, <1>4 DEF BatchInv, NotSentYet, ChunksBeforeCursor,
                                  PostBounded, NoRowUploadedTwice

(* A post that ends the script: the request was rejected, the chunk was    *)
(* empty, or the connection broke with the batch stored or not.            *)
LEMMA FailKeepsBatchInv ==
  ASSUME TypeOK, BatchInv, SendEmpty \/ SendRejected \/ SendLost
  PROVE  BatchInv'
<1>1. pc = "send" /\ pc' = "failed" /\ csv' = csv /\ batchSize' = batchSize
  BY DEF SendEmpty, SendRejected, SendLost
<1>2. SendReady' /\ NotSentYet'
  BY <1>1 DEF SendReady, NotSentYet
<1>3. CASE posts' = posts
  BY <1>1, <1>2, <1>3, KeepChunks DEF BatchInv
<1>4. CASE posts' = Append(posts, Post) /\ Batch # {}
  <2>1. PostBounded' /\ NoRowUploadedTwice'
    BY <1>1, <1>4, AppendChunk
  <2>2. ChunksBeforeCursor'
    <3>1. cur \in GroupKeys /\ chunk \in 1..NChunks(cur) /\ posts \in Seq(PostRec)
      BY <1>1 DEF BatchInv, SendReady, TypeOK
    <3>2. Post \in PostRec /\ Post.recs = Chunk(cur, chunk)
      BY <1>4, PostFacts DEF Post, Batch
    <3> SUFFICES ASSUME NEW p \in 1..Len(posts')
                 PROVE  \E k \in GroupKeys' : \E c \in 1..NChunks(k)' :
                          posts'[p].recs = Chunk(k, c)'
      BY <1>1 DEF ChunksBeforeCursor
    <3>3. CASE p \in 1..Len(posts)
      <4>1. posts'[p] = posts[p]
        BY <1>4, <3>1, <3>2, <3>3
      <4>2. PICK k \in GroupKeys : \E c \in 1..NChunks(k) : posts[p].recs = Chunk(k, c)
        BY <3>3 DEF BatchInv, ChunksBeforeCursor
      <4>. QED BY <1>1, <4>1, <4>2, ChunksStatic
    <3>4. CASE p = Len(posts) + 1
      <4>1. posts'[p] = Post
        BY <1>4, <3>1, <3>2, <3>4
      <4>. QED BY <1>1, <3>1, <3>2, <4>1, ChunksStatic
    <3>. QED BY <1>4, <3>1, <3>2, <3>3, <3>4
  <2>. QED BY <1>2, <2>1, <2>2 DEF BatchInv
<1>. QED BY <1>3, <1>4 DEF SendEmpty, SendRejected, SendLost

(* A post the server accepted: the batch is stored and the loop moves to   *)
(* the next position, which comes after every stored chunk.                *)
LEMMA AcceptedKeepsBatchInv ==
  ASSUME TypeOK, BatchInv, SendAccepted
  PROVE  BatchInv'
<1>1. /\ pc = "send" /\ Batch # {} /\ posts' = Append(posts, Post)
      /\ csv' = csv /\ batchSize' = batchSize
      /\ cur' = NextCursor[1] /\ chunk' = NextCursor[2]
      /\ pc' = IF NextCursor[1] = NoKey THEN "done" ELSE "send"
  BY DEF SendAccepted, Advance
<1>2. /\ batchSize \in Nat \ {0} /\ cur \in GroupKeys /\ chunk \in 1..NChunks(cur)
      /\ posts \in Seq(PostRec) /\ Post \in PostRec /\ Post.recs = Chunk(cur, chunk)
  BY <1>1, PostFacts DEF BatchInv, SendReady, TypeOK, Post, Batch
<1>3. /\ GroupKeys' = GroupKeys
      /\ \A k : NChunks(k)' = NChunks(k)
      /\ \A k, c : Chunk(k, c)' = Chunk(k, c)
  BY <1>1, ChunksStatic
<1>4. pc' = "send" =>
        /\ cur' \in GroupKeys /\ chunk' \in 1..NChunks(cur')
        /\ PosLt(<<cur, chunk>>, <<cur', chunk'>>)
  BY <1>1, NextCursorAfter DEF BatchInv, PosLt
<1>5. SendReady'
  <2>1. (NChunks(cur))' = NChunks(cur')
    BY <1>3
  <2>. QED BY <1>1, <1>2, <1>3, <1>4, <2>1 DEF SendReady
<1>6. NotSentYet'
  BY <1>1 DEF NotSentYet
<1>7. PostBounded' /\ NoRowUploadedTwice'
  BY <1>1, AppendChunk
<1>8. ChunksBeforeCursor'
  <2> SUFFICES ASSUME NEW p \in 1..Len(posts')
               PROVE  \E k \in GroupKeys' : \E c \in 1..NChunks(k)' :
                        /\ posts'[p].recs = Chunk(k, c)'
                        /\ pc' = "send" => PosLt(<<k, c>>, <<cur', chunk'>>)
    BY DEF ChunksBeforeCursor
  <2>1. chunk \in Int
    BY <1>2, SplitSizes
  <2>2. CASE p \in 1..Len(posts)
    <3>1. posts'[p] = posts[p]
      BY <1>1, <1>2, <2>2
    <3>2. PICK k \in GroupKeys : \E c \in 1..NChunks(k) :
            /\ posts[p].recs = Chunk(k, c)
            /\ PosLt(<<k, c>>, <<cur, chunk>>)
      BY <1>1, <1>2, <2>2 DEF BatchInv, ChunksBeforeCursor
    <3>3. PICK c \in 1..NChunks(k) :
            /\ posts[p].recs = Chunk(k, c)
            /\ PosLt(<<k, c>>, <<cur, chunk>>)
      BY <3>2
    <3>4. NChunks(k) \in Nat
      BY <1>2, SplitSizes
    <3>5. pc' = "send" => PosLt(<<k, c>>, <<cur', chunk'>>)
      <4> SUFFICES ASSUME pc' = "send" PROVE PosLt(<<k, c>>, <<cur', chunk'>>)
        OBVIOUS
      <4>1. cur' \in GroupKeys /\ chunk' \in Int /\ PosLt(<<cur, chunk>>, <<cur', chunk'>>)
        BY <1>2, <1>4, SplitSizes
      <4>. QED BY <2>1, <3>3, <3>4, <4>1, PosLtTrans, <1>2
    <3>. QED BY <1>3, <3>1, <3>3, <3>5
  <2>3. CASE p = Len(posts) + 1
    <3>1. posts'[p] = Post
      BY <1>1, <1>2, <2>3
    <3>2. PICK kk \in GroupKeys : kk = cur
      BY <1>2
    <3>3. PICK cc \in 1..NChunks(kk) : cc = chunk
      BY <1>2, <3>2
    <3>4. kk \in GroupKeys' /\ cc \in 1..NChunks(kk)' /\ Post.recs = Chunk(kk, cc)'
      BY <1>2, <1>3, <3>2, <3>3
    <3>5. pc' = "send" => PosLt(<<kk, cc>>, <<cur', chunk'>>)
      BY <1>4, <3>2, <3>3
    <3>. QED BY <3>1, <3>4, <3>5
  <2>4. Len(posts') = Len(posts) + 1 /\ Len(posts) \in Nat
    BY <1>1, <1>2
  <2>. QED BY <2>2, <2>3, <2>4
<1>. QED BY <1>5, <1>6, <1>7, <1>8 DEF BatchInv

-----------------------------------------------------------------------------
(* Every step of the script keeps BatchInv.                                *)
THEOREM BatchInvInductive == TypeOK /\ BatchInv /\ [Next]_vars => BatchInv'
<1> SUFFICES ASSUME TypeOK, BatchInv, [Next]_vars PROVE BatchInv'
  OBVIOUS
<1>1. CASE Split
  BY <1>1, SplitKeepsBatchInv
<1>2. CASE SendAccepted
  BY <1>2, AcceptedKeepsBatchInv
<1>3. CASE SendEmpty \/ SendRejected \/ SendLost
  BY <1>3, FailKeepsBatchInv
<1>4. CASE Terminated
  <2>1. pc' = pc /\ pc \in {"done", "failed"} /\ csv' = csv /\ batchSize' = batchSize
        /\ posts' = posts
    BY <1>4 DEF Terminated, vars
  <2>2. SendReady' /\ NotSentYet'
    BY <2>1 DEF SendReady, NotSentYet
  <2>. QED BY <2>1, <2>2, KeepChunks DEF BatchInv
<1>5. CASE UNCHANGED vars
  <2>1. /\ pc' = pc /\ csv' = csv /\ batchSize' = batchSize /\ posts' = posts
        /\ cur' = cur /\ chunk' = chunk
    BY <1>5 DEF vars
  <2>2. /\ GroupKeys' = GroupKeys
        /\ \A k : NChunks(k)' = NChunks(k)
        /\ \A k, c : Chunk(k, c)' = Chunk(k, c)
    BY <2>1, ChunksStatic
  <2>3. SendReady'
    BY <2>1, <2>2 DEF BatchInv, SendReady
  <2>4. ChunksBeforeCursor'
    BY <2>1, <2>2 DEF BatchInv, ChunksBeforeCursor
  <2>. QED BY <2>1, <2>3, <2>4 DEF BatchInv, NotSentYet, PostBounded, NoRowUploadedTwice
<1>. QED BY <1>1, <1>2, <1>3, <1>4, <1>5 DEF Next

(* The inductive invariant holds in every reachable state.                 *)
THEOREM IInvHolds == Spec => []IInv
<1>1. Init => BatchInv
  BY DEF Init, BatchInv, SendReady, NotSentYet, ChunksBeforeCursor, PostBounded,
         NoRowUploadedTwice
<1>. QED BY <1>1, TypeCorrect, BatchInvInductive, PTL DEF Spec, IInv

(* No batch the server stores holds more than max_n rows (spec section 8): *)
(* split_chunks's n_chunks = len // max_n + 1 sections are never larger    *)
(* than max_n, for every CSV and every max_n run() gets past the split.    *)
THEOREM BatchesWithinMaxN == Spec => []PostBounded
BY IInvHolds, PTL DEF IInv, BatchInv

(* No CSV row is stored twice in one run of upload_heartbeats.py: the      *)
(* list's chunks are pairwise disjoint and run() posts each at most once,  *)
(* even when a connection error leaves a batch stored.                     *)
THEOREM NoRowStoredTwice == Spec => []NoRowUploadedTwice
BY IInvHolds, PTL DEF IInv, BatchInv

-----------------------------------------------------------------------------
(* Facts for the prefix property.                                          *)

(* What the groups and the stored rows depend on is csv and posts.         *)
LEMMA GroupsStatic ==
  ASSUME csv' = csv
  PROVE  /\ GroupKeys' = GroupKeys
         /\ \A k : GetGroup(k)' = GetGroup(k)
         /\ \A k, m : RankPrefix(k, m)' = RankPrefix(k, m)
         /\ posts' = posts => \A k : UploadedOf(k)' = UploadedOf(k)
         /\ posts' = posts => StoredInGroups' = StoredInGroups
BY DEF GroupKeys, GetGroup, RankPrefix, Rank, UploadedOf, Uploaded, StoredInGroups

(* Storing one more batch adds its rows to the stored rows.                *)
LEMMA UploadedAppend ==
  ASSUME NEW P, posts \in Seq(PostRec), posts' = Append(posts, P)
  PROVE  Uploaded' = Uploaded \cup P.recs
<1>1. Len(posts') = Len(posts) + 1 /\ posts'[Len(posts) + 1] = P
      /\ \A q \in 1..Len(posts) : posts'[q] = posts[q]
  OBVIOUS
<1>2. \A x : x \in Uploaded' <=> (x \in Uploaded \/ x \in P.recs)
  <2> TAKE x
  <2>1. x \in Uploaded' <=> \E q \in 1..Len(posts') : x \in posts'[q].recs
    BY DEF Uploaded
  <2>2. x \in Uploaded <=> \E q \in 1..Len(posts) : x \in posts[q].recs
    BY DEF Uploaded
  <2>3. (\E q \in 1..Len(posts') : x \in posts'[q].recs)
          <=> (\E q \in 1..Len(posts) : x \in posts[q].recs) \/ x \in P.recs
    BY <1>1
  <2>. QED BY <2>1, <2>2, <2>3
<1>. QED BY <1>2

(* A row's rank lies between 1 and the size of its group.                  *)
LEMMA RankBounds ==
  ASSUME TypeOK, NEW k, NEW i \in GetGroup(k)
  PROVE  Rank(k, i) \in 1..Cardinality(GetGroup(k))
<1> DEFINE A == {j \in GetGroup(k) : j <= i}
<1>1. GetGroup(k) \subseteq Nat /\ IsFiniteSet(GetGroup(k))
  BY GroupFinite
<1>2. A \subseteq GetGroup(k) /\ i \in A
  BY <1>1
<1>3. IsFiniteSet(A) /\ Cardinality(A) <= Cardinality(GetGroup(k))
  BY <1>1, <1>2, FS_Subset
<1>4. Cardinality(A) # 0 /\ Cardinality(A) \in Nat
  BY <1>2, <1>3, FS_EmptySet, FS_CardinalityType
<1>. QED BY <1>3, <1>4 DEF Rank

(* Sections c and c + 1 of array_split are adjacent, the first one starts  *)
(* at rank 0 and the last one ends at the group's size.                    *)
LEMMA SectionsAdjacentArith ==
  ASSUME NEW ne \in Nat, NEW ex \in Nat, NEW c \in Int
  PROVE  (c - 1) * ne + (IF c - 1 < ex THEN c - 1 ELSE ex)
           + (IF c <= ex THEN ne + 1 ELSE ne)
         = c * ne + (IF c < ex THEN c ELSE ex)
<1>1. (c - 1) * ne + ne = c * ne
  BY SMT
<1>. QED BY <1>1, SMT

LEMMA SectionBounds ==
  ASSUME TypeOK, batchSize \in Nat \ {0}, NEW k
  PROVE  /\ ChunkStart(k, 1) = 0
         /\ \A c \in Int : ChunkStart(k, c) + ChunkSize(k, c) = ChunkStart(k, c + 1)
         /\ \A c \in 1..NChunks(k) : ChunkStart(k, c) \in Nat /\ ChunkSize(k, c) \in Nat
         /\ ChunkStart(k, NChunks(k)) + ChunkSize(k, NChunks(k))
              = Cardinality(GetGroup(k))
<1>1. /\ NChunks(k) \in Nat \ {0} /\ Neach(k) \in Nat
      /\ Extras(k) \in 0..NChunks(k) - 1
  BY SplitSizes
<1>2. Cardinality(GetGroup(k)) = NChunks(k) * Neach(k) + Extras(k)
  <2>1. Cardinality(GetGroup(k)) \in Nat
    BY GroupFinite
  <2>2. \A a \in Nat, n \in Nat \ {0} : a = n * (a \div n) + (a % n)
    BY SMT
  <2>. QED BY <1>1, <2>1, <2>2 DEF Neach, Extras
<1>3. ChunkStart(k, 1) = 0
  BY <1>1 DEF ChunkStart
<1>4. \A c \in Int : ChunkStart(k, c) + ChunkSize(k, c) = ChunkStart(k, c + 1)
  <2> TAKE c \in Int
  <2> DEFINE ne == Neach(k)
             ex == Extras(k)
  <2>1. ne \in Nat /\ ex \in Nat
    BY <1>1
  <2>2. (c - 1) * ne + (IF c - 1 < ex THEN c - 1 ELSE ex)
          + (IF c <= ex THEN ne + 1 ELSE ne)
        = c * ne + (IF c < ex THEN c ELSE ex)
    BY <2>1, SectionsAdjacentArith
  <2>3. ChunkStart(k, c + 1) = c * ne + (IF c < ex THEN c ELSE ex)
    BY DEF ChunkStart
  <2>. QED BY <2>2, <2>3 DEF ChunkStart, ChunkSize
<1>5. \A c \in 1..NChunks(k) : ChunkStart(k, c) \in Nat /\ ChunkSize(k, c) \in Nat
  <2> TAKE c \in 1..NChunks(k)
  <2>1. (c - 1) * Neach(k) \in Nat
    BY <1>1
  <2>. QED BY <1>1, <2>1 DEF ChunkStart, ChunkSize
<1>6. ChunkStart(k, NChunks(k)) + ChunkSize(k, NChunks(k)) = Cardinality(GetGroup(k))
  <2>1. (NChunks(k) - 1) * Neach(k) + Neach(k) = NChunks(k) * Neach(k)
    BY <1>1
  <2>. QED BY <1>1, <1>2, <2>1 DEF ChunkStart, ChunkSize
<1>. QED BY <1>3, <1>4, <1>5, <1>6

(* Storing the chunk at the cursor extends its group's stored prefix to    *)
(* the start of the next chunk and leaves the other groups alone.          *)
LEMMA AppendAtCursor ==
  ASSUME TypeOK, BatchInv, PrefixInv, pc = "send", Batch # {},
         csv' = csv, batchSize' = batchSize, posts' = Append(posts, Post)
  PROVE  /\ \A k \in GroupKeys :
              k = cur => UploadedOf(k)' = RankPrefix(k, ChunkStart(k, chunk + 1))
         /\ \A k \in GroupKeys : k # cur => UploadedOf(k)' = UploadedOf(k)
         /\ StoredByRank'
         /\ StoredInGroups'
<1>1. /\ batchSize \in Nat \ {0} /\ cur \in GroupKeys /\ chunk \in 1..NChunks(cur)
      /\ posts \in Seq(PostRec) /\ Post \in PostRec /\ Post.recs = Chunk(cur, chunk)
  BY PostFacts DEF BatchInv, SendReady, TypeOK, Post, Batch
<1>2. Uploaded' = Uploaded \cup Chunk(cur, chunk)
  BY <1>1, UploadedAppend
<1>3. \A k : UploadedOf(k)' = UploadedOf(k) \cup (Chunk(cur, chunk) \cap GetGroup(k))
  BY <1>2, GroupsStatic DEF UploadedOf
<1>4. ASSUME NEW k \in GroupKeys, k = cur
      PROVE  UploadedOf(k)' = RankPrefix(k, ChunkStart(k, chunk + 1))
  <2>1. UploadedOf(k) = RankPrefix(k, ChunkStart(k, chunk))
    BY <1>4 DEF PrefixInv, CursorProgress
  <2>2. /\ ChunkStart(k, chunk) \in Nat /\ ChunkSize(k, chunk) \in Nat
        /\ ChunkStart(k, chunk) + ChunkSize(k, chunk) = ChunkStart(k, chunk + 1)
    BY <1>1, <1>4, SectionBounds
  <2>3. \A i \in GetGroup(k) : Rank(k, i) \in Nat
    BY RankType
  <2>4. Chunk(cur, chunk) \cap GetGroup(k)
          = {i \in GetGroup(k) : /\ ChunkStart(k, chunk) < Rank(k, i)
                                 /\ Rank(k, i) <= ChunkStart(k, chunk) + ChunkSize(k, chunk)}
    BY <1>4 DEF Chunk
  <2>. QED BY <1>3, <2>1, <2>2, <2>3, <2>4 DEF RankPrefix
<1>5. ASSUME NEW k \in GroupKeys, k # cur
      PROVE  UploadedOf(k)' = UploadedOf(k)
  <2>1. Chunk(cur, chunk) \cap GetGroup(k) = {}
    BY <1>5 DEF Chunk, GetGroup
  <2>. QED BY <1>3, <2>1
<1>6. StoredByRank'
  <2> SUFFICES ASSUME NEW k \in GroupKeys
               PROVE  \E m \in Nat : UploadedOf(k)' = RankPrefix(k, m)'
    BY GroupsStatic DEF StoredByRank
  <2>1. CASE k = cur
    <3>1. ChunkStart(k, chunk + 1) \in Nat
      <4>1. ChunkStart(k, chunk) \in Nat /\ ChunkSize(k, chunk) \in Nat
            /\ ChunkStart(k, chunk) + ChunkSize(k, chunk) = ChunkStart(k, chunk + 1)
        BY <1>1, <2>1, SectionBounds
      <4>. QED BY <4>1
    <3>. QED BY <1>4, <2>1, <3>1, GroupsStatic
  <2>2. CASE k # cur
    <3>1. PICK m \in Nat : UploadedOf(k) = RankPrefix(k, m)
      BY DEF PrefixInv, StoredByRank
    <3>. QED BY <1>5, <2>2, <3>1, GroupsStatic
  <2>. QED BY <2>1, <2>2
<1>7. StoredInGroups'
  <2>1. Chunk(cur, chunk) \subseteq GetGroup(cur)
    BY DEF Chunk
  <2>. QED BY <1>1, <1>2, <2>1, GroupsStatic DEF PrefixInv, StoredInGroups
<1>. QED BY <1>4, <1>5, <1>6, <1>7

(* groupby's order on keys is a strict total order.                        *)
LEMMA LexTotal ==
  ASSUME NEW k1 \in Nat \X Nat, NEW k2 \in Nat \X Nat
  PROVE  /\ LexLt(k1, k2) \/ k1 = k2 \/ LexLt(k2, k1)
         /\ ~(LexLt(k1, k2) /\ LexLt(k2, k1))
         /\ ~LexLt(k1, k1)
BY DEF LexLt

(* A prefix up to rank 0 is empty, and up to the group's size is the      *)
(* whole group.                                                            *)
LEMMA RankPrefixEnds ==
  ASSUME TypeOK, NEW k
  PROVE  /\ RankPrefix(k, 0) = {}
         /\ RankPrefix(k, Cardinality(GetGroup(k))) = GetGroup(k)
BY RankBounds DEF RankPrefix

(* CursorProgress in the next state, for a cursor named by constants.      *)
LEMMA CursorProgressNext ==
  ASSUME csv' = csv, batchSize' = batchSize, NEW kc, NEW cc,
         cur' = kc, chunk' = cc,
         \A k \in GroupKeys :
           /\ LexLt(k, kc) => UploadedOf(k)' = GetGroup(k)
           /\ k = kc => UploadedOf(k)' = RankPrefix(k, ChunkStart(k, cc))
           /\ LexLt(kc, k) => UploadedOf(k)' = {}
  PROVE  CursorProgress'
<1>1. \A k, c : ChunkStart(k, c)' = ChunkStart(k, c)
  BY DEF ChunkStart, Neach, Extras, NChunks, FloorDiv, GetGroup
<1>. QED BY <1>1, GroupsStatic DEF CursorProgress

(* split_batches: nothing is stored, and the cursor starts at the first    *)
(* chunk of the least group.                                               *)
LEMMA SplitKeepsPrefix ==
  ASSUME TypeOK, BatchInv, PrefixInv, Split
  PROVE  PrefixInv'
<1>1. posts = <<>> /\ posts' = posts /\ csv' = csv /\ batchSize' = batchSize
  BY DEF Split, BatchInv, NotSentYet
<1>2. Uploaded' = {}
  BY <1>1 DEF Uploaded
<1>3. \A k : UploadedOf(k)' = {}
  BY <1>2 DEF UploadedOf
<1>4. CursorProgress'
  <2> SUFFICES ASSUME pc' = "send" PROVE CursorProgress'
    BY DEF CursorProgress
  <2>1. SplitError = "none" /\ GroupKeys # {} /\ cur' = Least(GroupKeys) /\ chunk' = 1
    BY DEF Split
  <2>2. batchSize \in Nat \ {0}
    BY <2>1, SplitNeedsPositive
  <2>3. \A k \in GroupKeys : ~LexLt(k, Least(GroupKeys))
    BY <2>1, CsvFacts, LeastIsLeast
  <2>4. \A k \in GroupKeys : RankPrefix(k, ChunkStart(k, 1)) = {}
    BY <2>2, SectionBounds, RankPrefixEnds
  <2>. QED BY <1>1, <1>3, <2>1, <2>3, <2>4, CursorProgressNext
<1>5. DoneComplete'
  <2>1. pc' = "done" => GroupKeys = {}
    BY DEF Split
  <2>. QED BY <1>1, <2>1, GroupsStatic DEF DoneComplete
<1>6. StoredByRank'
  <2>1. \A k : RankPrefix(k, 0) = {}
    BY RankPrefixEnds
  <2>. QED BY <1>1, <1>3, <2>1, GroupsStatic DEF StoredByRank
<1>7. StoredInGroups'
  BY <1>2 DEF StoredInGroups
<1>. QED BY <1>4, <1>5, <1>6, <1>7 DEF PrefixInv

(* A post that ends the script with a failure: the stored prefix of each   *)
(* group stays one, whether or not the lost batch was stored.              *)
LEMMA FailKeepsPrefix ==
  ASSUME TypeOK, BatchInv, PrefixInv, SendEmpty \/ SendRejected \/ SendLost
  PROVE  PrefixInv'
<1>1. pc = "send" /\ pc' = "failed" /\ csv' = csv /\ batchSize' = batchSize
  BY DEF SendEmpty, SendRejected, SendLost
<1>2. CursorProgress' /\ DoneComplete'
  BY <1>1 DEF CursorProgress, DoneComplete
<1>3. CASE posts' = posts
  BY <1>1, <1>2, <1>3, GroupsStatic DEF PrefixInv, StoredByRank
<1>4. CASE posts' = Append(posts, Post) /\ Batch # {}
  BY <1>1, <1>2, <1>4, AppendAtCursor DEF PrefixInv
<1>. QED BY <1>3, <1>4 DEF SendEmpty, SendRejected, SendLost

(* A post the server accepted: the cursor's group grows by the chunk; when *)
(* it was the group's last chunk the group is whole and the next group's   *)
(* first chunk, or the end of the list, follows.                           *)
LEMMA AcceptedKeepsPrefix ==
  ASSUME TypeOK, BatchInv, PrefixInv, SendAccepted
  PROVE  PrefixInv'
<1>1. /\ pc = "send" /\ Batch # {} /\ posts' = Append(posts, Post)
      /\ csv' = csv /\ batchSize' = batchSize
      /\ cur' = NextCursor[1] /\ chunk' = NextCursor[2]
      /\ pc' = IF NextCursor[1] = NoKey THEN "done" ELSE "send"
  BY DEF SendAccepted, Advance
<1>0. batchSize \in Nat \ {0} /\ cur \in GroupKeys /\ chunk \in 1..NChunks(cur)
  BY <1>1 DEF BatchInv, SendReady
<1>2. /\ batchSize \in Nat \ {0} /\ cur \in GroupKeys /\ chunk \in 1..NChunks(cur)
      /\ NChunks(cur) \in Nat \ {0}
  BY <1>0, SplitSizes
<1>3. /\ \A k \in GroupKeys :
           k = cur => UploadedOf(k)' = RankPrefix(k, ChunkStart(k, chunk + 1))
      /\ \A k \in GroupKeys : k # cur => UploadedOf(k)' = UploadedOf(k)
      /\ StoredByRank'
      /\ StoredInGroups'
  BY <1>1, AppendAtCursor
<1>4. \A k \in GroupKeys :
        /\ LexLt(k, cur) => UploadedOf(k) = GetGroup(k)
        /\ k = cur => UploadedOf(k) = RankPrefix(k, ChunkStart(k, chunk))
        /\ LexLt(cur, k) => UploadedOf(k) = {}
  BY <1>1 DEF PrefixInv, CursorProgress
<1>5. GroupKeys \subseteq Nat \X Nat
  BY CsvFacts
<1>6. CASE chunk < NChunks(cur)
  <2>0. NextCursor = <<cur, chunk + 1>>
    BY <1>6 DEF NextCursor
  <2>a. cur \in Nat \X Nat /\ cur # NoKey
    BY <1>2, <1>5 DEF NoKey
  <2>b. NextCursor[1] # NoKey
    BY <2>0, <2>a
  <2>1. NextCursor = <<cur, chunk + 1>> /\ pc' = "send"
    BY <1>1, <2>0, <2>b
  <2>2. CursorProgress'
    <3>1. PICK kc \in GroupKeys : kc = cur
      BY <1>2
    <3>2. \A k \in GroupKeys :
            /\ LexLt(k, kc) => UploadedOf(k)' = GetGroup(k)
            /\ k = kc => UploadedOf(k)' = RankPrefix(k, ChunkStart(k, chunk + 1))
            /\ LexLt(kc, k) => UploadedOf(k)' = {}
      BY <1>3, <1>4, <1>5, <3>1, LexTotal
    <3>. QED BY <1>1, <2>1, <3>1, <3>2, CursorProgressNext
  <2>3. DoneComplete'
    BY <2>1 DEF DoneComplete
  <2>. QED BY <1>3, <2>2, <2>3 DEF PrefixInv
<1>7. CASE ~(chunk < NChunks(cur))
  <2>1. chunk = NChunks(cur)
    BY <1>2, <1>7
  <2>2. \A k \in GroupKeys : k = cur => UploadedOf(k)' = GetGroup(k)
    <3> TAKE k \in GroupKeys
    <3>1. ChunkStart(cur, chunk + 1) = Cardinality(GetGroup(cur))
      <4>1. ChunkStart(cur, chunk) + ChunkSize(cur, chunk) = ChunkStart(cur, chunk + 1)
        BY <1>2, SectionBounds
      <4>2. ChunkStart(cur, NChunks(cur)) + ChunkSize(cur, NChunks(cur))
              = Cardinality(GetGroup(cur))
        BY <1>2, SectionBounds
      <4>. QED BY <2>1, <4>1, <4>2
    <3>. QED BY <1>3, <3>1, RankPrefixEnds
  <2>3. \A k \in GroupKeys : LexLt(k, cur) \/ k = cur => UploadedOf(k)' = GetGroup(k)
    BY <1>3, <1>4, <2>2
  <2>4. CASE KeysAfter(cur) # {}
    <3>1. NextCursor = <<Least(KeysAfter(cur)), 1>>
      BY <1>7, <2>4 DEF NextCursor
    <3>2. PICK nc \in KeysAfter(cur) : nc = Least(KeysAfter(cur))
      BY <2>4, <1>5, LeastIsLeast DEF KeysAfter
    <3>3. /\ nc \in GroupKeys /\ LexLt(cur, nc)
          /\ \A k \in KeysAfter(cur) : ~LexLt(k, nc)
      BY <2>4, <3>2, <1>5, LeastIsLeast DEF KeysAfter
    <3>4. nc # NoKey /\ pc' = "send" /\ cur' = nc /\ chunk' = 1
      BY <1>1, <1>5, <3>1, <3>2, <3>3 DEF NoKey
    <3>5. \A k \in GroupKeys :
            /\ LexLt(k, nc) => UploadedOf(k)' = GetGroup(k)
            /\ k = nc => UploadedOf(k)' = RankPrefix(k, ChunkStart(k, 1))
            /\ LexLt(nc, k) => UploadedOf(k)' = {}
      <4> TAKE k \in GroupKeys
      <4>1. LexLt(k, nc) => LexLt(k, cur) \/ k = cur
        <5>1. LexLt(cur, k) => k \in KeysAfter(cur)
          BY DEF KeysAfter
        <5>. QED BY <1>2, <1>5, <3>3, <5>1, LexTotal
      <4>2. k = nc => UploadedOf(k)' = RankPrefix(k, ChunkStart(k, 1))
        <5>1. k = nc => k # cur /\ LexLt(cur, k)
          BY <1>2, <1>5, <3>3, LexTotal
        <5>2. RankPrefix(k, ChunkStart(k, 1)) = {}
          BY <1>2, SectionBounds, RankPrefixEnds
        <5>. QED BY <1>3, <1>4, <5>1, <5>2
      <4>3. LexLt(nc, k) => UploadedOf(k)' = {}
        <5>1. LexLt(nc, k) => LexLt(cur, k) /\ k # cur
          BY <1>2, <1>5, <3>3 DEF LexLt
        <5>. QED BY <1>3, <1>4, <5>1
      <4>. QED BY <2>3, <4>1, <4>2, <4>3
    <3>6. CursorProgress'
      BY <1>1, <3>4, <3>5, CursorProgressNext
    <3>7. DoneComplete'
      BY <3>4 DEF DoneComplete
    <3>. QED BY <1>3, <3>6, <3>7 DEF PrefixInv
  <2>5. CASE KeysAfter(cur) = {}
    <3>1. NextCursor = <<NoKey, 0>> /\ pc' = "done"
      BY <1>1, <1>7, <2>5 DEF NextCursor
    <3>2. \A k \in GroupKeys : LexLt(k, cur) \/ k = cur
      <4> TAKE k \in GroupKeys
      <4>1. ~LexLt(cur, k)
        BY <2>5 DEF KeysAfter
      <4>. QED BY <1>2, <1>5, <4>1, LexTotal
    <3>3. DoneComplete'
      BY <1>1, <2>3, <3>2, GroupsStatic DEF DoneComplete
    <3>4. CursorProgress'
      BY <3>1 DEF CursorProgress
    <3>. QED BY <1>3, <3>3, <3>4 DEF PrefixInv
  <2>. QED BY <2>4, <2>5
<1>. QED BY <1>6, <1>7

(* The prefix invariant is kept by every step of the script.               *)
THEOREM PrefixInvInductive ==
  TypeOK /\ BatchInv /\ PrefixInv /\ [Next]_vars => PrefixInv'
<1> SUFFICES ASSUME TypeOK, BatchInv, PrefixInv, [Next]_vars PROVE PrefixInv'
  OBVIOUS
<1>1. CASE Split
  BY <1>1, SplitKeepsPrefix
<1>2. CASE SendAccepted
  BY <1>2, AcceptedKeepsPrefix
<1>3. CASE SendEmpty \/ SendRejected \/ SendLost
  BY <1>3, FailKeepsPrefix
<1>4. CASE Terminated \/ UNCHANGED vars
  <2>1. /\ pc' = pc /\ csv' = csv /\ batchSize' = batchSize /\ posts' = posts
        /\ cur' = cur /\ chunk' = chunk
    BY <1>4 DEF Terminated, vars
  <2>2. \A k, c : ChunkStart(k, c)' = ChunkStart(k, c)
    BY <2>1 DEF ChunkStart, Neach, Extras, NChunks, FloorDiv, GetGroup
  <2>3. /\ GroupKeys' = GroupKeys
        /\ \A k : GetGroup(k)' = GetGroup(k)
        /\ \A k, m : RankPrefix(k, m)' = RankPrefix(k, m)
        /\ \A k : UploadedOf(k)' = UploadedOf(k)
        /\ StoredInGroups' = StoredInGroups
    BY <2>1, GroupsStatic
  <2>. QED BY <2>1, <2>2, <2>3
           DEF PrefixInv, CursorProgress, DoneComplete, StoredByRank
<1>. QED BY <1>1, <1>2, <1>3, <1>4 DEF Next

(* The inductive invariant and the prefix invariant hold in every          *)
(* reachable state.                                                        *)
THEOREM PrefixInvHolds == Spec => [](IInv /\ PrefixInv)
<1>1. Init /\ TypeOK => PrefixInv
  <2> SUFFICES ASSUME Init, TypeOK PROVE PrefixInv
    OBVIOUS
  <2>1. TypeOK
    OBVIOUS
  <2>2. Uploaded = {}
    BY DEF Init, Uploaded
  <2>3. \A k \in GroupKeys : UploadedOf(k) = RankPrefix(k, 0)
    BY <2>1, <2>2, RankPrefixEnds DEF UploadedOf
  <2>. QED BY <2>2, <2>3
           DEF Init, PrefixInv, CursorProgress, DoneComplete, StoredByRank,
               StoredInGroups
<1>. QED BY <1>1, TypeCorrect, IInvHolds, PrefixInvInductive, PTL DEF Spec, IInv

(* Whenever the script stops, even on an HTTP or connection error, the     *)
(* stored rows of each group are an initial part of the group in CSV       *)
(* order: run() posts the chunks in order and array_split skips no row,    *)
(* for every CSV, every max_n and every pattern of server answers.         *)
THEOREM UploadsArePrefixes == Spec => []UploadedIsGroupPrefix
<1>1. TypeOK /\ PrefixInv => UploadedIsGroupPrefix
  <2> SUFFICES ASSUME TypeOK, PrefixInv,
                      NEW k \in GroupKeys, NEW i \in GetGroup(k), NEW j \in GetGroup(k),
                      i < j, j \in Uploaded
               PROVE  i \in Uploaded
    BY DEF UploadedIsGroupPrefix
  <2>1. PICK m \in Nat : UploadedOf(k) = RankPrefix(k, m)
    BY DEF PrefixInv, StoredByRank
  <2>2. Rank(k, j) <= m
    BY <2>1 DEF UploadedOf, RankPrefix
  <2>3. Rank(k, i) < Rank(k, j) /\ Rank(k, i) \in Nat /\ Rank(k, j) \in Nat
    BY RankStrict, RankType
  <2>4. Rank(k, i) <= m
    BY <2>2, <2>3
  <2>. QED BY <2>1, <2>4 DEF UploadedOf, RankPrefix
<1>. QED BY <1>1, PrefixInvHolds, PTL DEF IInv

(* A run that ends without an exception has stored every row of the CSV    *)
(* (spec section 8), provided no user_agent or machine cell is empty: the  *)
(* for loop of run() reaches its end only after the last chunk of the last *)
(* group was accepted.  With an empty cell the row is dropped by groupby   *)
(* and never sent (run upload_nan_rows).                                   *)
THEOREM CompleteWithoutNaN ==
  ASSUME NaN \notin Ids
  PROVE  Spec => []UploadComplete
<1>1. TypeOK /\ PrefixInv => UploadComplete
  <2> SUFFICES ASSUME TypeOK, PrefixInv, pc = "done", NEW i \in DOMAIN csv
               PROVE  i \in Uploaded
    BY DEF UploadComplete
  <2>1. csv[i] \in Key
    BY CsvFacts
  <2>2. csv[i] \in GroupKeys
    BY <2>1 DEF GroupKeys, Present, Key
  <2>3. i \in GetGroup(csv[i])
    BY DEF GetGroup
  <2>. QED BY <2>2, <2>3 DEF PrefixInv, DoneComplete, UploadedOf
<1>. QED BY <1>1, PrefixInvHolds, PTL DEF IInv
=============================================================================
