--------------------------- MODULE HeartbeatUpload ---------------------------
(***************************************************************************)
(* scripts/upload_heartbeats.py: run(file, batch_size).                    *)
(*                                                                         *)
(* The CSV is read into a DataFrame; split_batches groups its rows by      *)
(* (user_agent, machine) and cuts every group into                         *)
(* len(group) // max_n + 1 near-equal chunks with numpy's array_split;     *)
(* run() collects all chunks into a list and POSTs them one at a time with *)
(* send_batch, which takes the User-Agent and X-Machine-Name headers from  *)
(* the chunk's first record and aborts the script on any HTTP error.       *)
(*                                                                         *)
(* Data abstraction: a row is reduced to its (user_agent, machine) key;    *)
(* its other columns travel with it untouched and are left out.  A row is  *)
(* named by its position in the CSV, so a chunk is the SET of positions it *)
(* holds: both get_group and array_split keep the CSV order, so the chunk  *)
(* as a DataFrame is that set in ascending order.  Key values are          *)
(* naturals ordered like the strings they stand for; NaN (0) is an empty   *)
(* CSV cell, which pandas reads as NaN.                                    *)
(***************************************************************************)
EXTENDS Integers, Sequences, FiniteSets

CONSTANTS
  MaxRows,     \* bound on the number of rows of the CSV file
  Ids,         \* values of the user_agent and machine columns
  BatchSizes,  \* int values batch_size can have (250 by default)
  CliBatch,    \* TRUE: --batch may be given, making batch_size a str
  StrArg       \* the str that argparse returns for --batch

MaxRowsAssumption == MaxRows \in Nat
ASSUME MaxRowsAssumption
IdsAssumption == Ids \subseteq Nat
ASSUME IdsAssumption
BatchSizesAssumption == BatchSizes \subseteq Int
ASSUME BatchSizesAssumption
CliBatchAssumption == CliBatch \in BOOLEAN
ASSUME CliBatchAssumption
StrArgAssumption == StrArg \notin Int
ASSUME StrArgAssumption

NaN == 0                 \* an empty user_agent or machine cell
Key == Ids \X Ids        \* <<user_agent, machine>>
NoKey == <<>>            \* the cursor before the first and after the last group
Row == 1..MaxRows
Errors == {"none", "TypeError", "ZeroDivisionError", "ValueError",
           "IndexError", "HTTPError", "ConnectionError"}

VARIABLES
  csv,        \* the DataFrame after rename/drop: row position -> key
  batchSize,  \* run()'s batch_size argument, passed on as max_n
  pc,         \* "split" | "send" | "done" | "failed"
  err,        \* the exception that ended the script, or "none"
  cur,        \* the key of the group whose chunks are being sent
  chunk,      \* the index of the chunk of that group being sent
  posts       \* the batches the server has stored, in the order received

vars == <<csv, batchSize, pc, err, cur, chunk, posts>>

-----------------------------------------------------------------------------
(* df.groupby(['user_agent', 'machine']): dropna drops rows with a NaN     *)
(* key, and sort orders the group keys.                                    *)
Present(k) == k[1] # NaN /\ k[2] # NaN
GroupKeys == {csv[i] : i \in DOMAIN csv} \cap {k \in Key : Present(k)}
LexLt(k1, k2) == \/ k1[1] < k2[1]
                 \/ k1[1] = k2[1] /\ k1[2] < k2[2]
Least(S) == CHOOSE k \in S : \A k2 \in S : ~LexLt(k2, k)

(* Plausible faults, each defined before the definition it replaces in a   *)
(* mutant of PROJECT.json, to show that a property can catch it.           *)
KeysAfterAllLevels(k) == {k2 \in Key : LexLt(k, k2)}
GetGroupByAgent(k) == {i \in DOMAIN csv : csv[i][1] = k[1]}

KeysAfter(k) == {k2 \in GroupKeys : LexLt(k, k2)}

(* df_grouped.get_group(k): the rows of key k, in CSV order.               *)
GetGroup(k) == {i \in DOMAIN csv : csv[i] = k}
Rank(k, i) == Cardinality({j \in GetGroup(k) : j <= i})

(* Python's a // b for b # 0: the floor of a / b, for either sign of b.   *)
FloorDiv(a, b) == IF b > 0 THEN a \div b ELSE (-a) \div (-b)

(* Plausible faults (see above).                                           *)
NChunksNoExtra(k) == FloorDiv(Cardinality(GetGroup(k)), batchSize)
NChunksTwoExtra(k) == FloorDiv(Cardinality(GetGroup(k)), batchSize) + 2

(* split_chunks: n_chunks = (len(df) // max_n) + 1.                        *)
NChunks(k) == FloorDiv(Cardinality(GetGroup(k)), batchSize) + 1

(* np.array_split(df, n): divmod(len, n) = (Neach, Extras); the first      *)
(* Extras sections get Neach + 1 rows, the others Neach.                   *)
Neach(k) == Cardinality(GetGroup(k)) \div NChunks(k)
Extras(k) == Cardinality(GetGroup(k)) % NChunks(k)

(* Plausible faults (see above).                                           *)
ChunkSizeLongTail(k, c) == IF c <= Extras(k) + 1 THEN Neach(k) + 1 ELSE Neach(k)
ChunkStartSkip(k, c) == (c - 1) * Neach(k) + IF c - 1 < Extras(k) THEN c ELSE Extras(k)

ChunkSize(k, c) == IF c <= Extras(k) THEN Neach(k) + 1 ELSE Neach(k)
ChunkStart(k, c) == (c - 1) * Neach(k) + IF c - 1 < Extras(k) THEN c - 1 ELSE Extras(k)
Chunk(k, c) == {i \in GetGroup(k) : /\ ChunkStart(k, c) < Rank(k, i)
                                    /\ Rank(k, i) <= ChunkStart(k, c) + ChunkSize(k, c)}

(* The exception list(split_batches(df, batch_size)) raises, or "none".    *)
(* split_chunks runs once per group, so an empty DataFrame raises nothing. *)
SplitError ==
  CASE GroupKeys = {}                       -> "none"
    [] batchSize \notin Int                 -> "TypeError"   \* int // str
    [] batchSize = 0                        -> "ZeroDivisionError"
    [] \E k \in GroupKeys : NChunks(k) <= 0 -> "ValueError"  \* array_split
    [] OTHER                                -> "none"

(* Plausible fault (see above).                                            *)
CursorLastChunkSkipped ==
  IF chunk < NChunks(cur) - 1 THEN <<cur, chunk + 1>>
  ELSE IF KeysAfter(cur) # {} THEN <<Least(KeysAfter(cur)), 1>>
  ELSE <<NoKey, 0>>

(* The position of the list's next element after chunk `chunk` of `cur`.   *)
NextCursor ==
  IF chunk < NChunks(cur) THEN <<cur, chunk + 1>>
  ELSE IF KeysAfter(cur) # {} THEN <<Least(KeysAfter(cur)), 1>>
  ELSE <<NoKey, 0>>

(* send_batch(data): the headers come from data[0], the first row.         *)
FirstRow(S) == CHOOSE i \in S : \A j \in S : i <= j
Batch == Chunk(cur, chunk)
Post == [ua |-> csv[FirstRow(Batch)][1], machine |-> csv[FirstRow(Batch)][2],
         recs |-> Batch]

-----------------------------------------------------------------------------
Init ==
  /\ csv \in UNION {[1..n -> Key] : n \in 0..MaxRows}
  /\ batchSize \in BatchSizes \cup (IF CliBatch THEN {StrArg} ELSE {})
  /\ pc = "split"
  /\ err = "none"
  /\ cur = NoKey
  /\ chunk = 0
  /\ posts = <<>>

(* run(), line 58: list(split_batches(df, batch_size)) either raises or    *)
(* yields the chunks; the for loop then starts at the first one, or ends   *)
(* at once when there is none.                                             *)
Split ==
  /\ pc = "split"
  /\ \/ /\ SplitError # "none"
        /\ pc' = "failed"
        /\ err' = SplitError
        /\ UNCHANGED <<cur, chunk>>
     \/ /\ SplitError = "none"
        /\ GroupKeys = {}
        /\ pc' = "done"
        /\ UNCHANGED <<err, cur, chunk>>
     \/ /\ SplitError = "none"
        /\ GroupKeys # {}
        /\ pc' = "send"
        /\ cur' = Least(GroupKeys)
        /\ chunk' = 1
        /\ UNCHANGED err
  /\ UNCHANGED <<csv, batchSize, posts>>

(* One iteration of the for loop, advancing to the next chunk.             *)
Advance ==
  /\ cur' = NextCursor[1]
  /\ chunk' = NextCursor[2]
  /\ pc' = IF NextCursor[1] = NoKey THEN "done" ELSE "send"

(* send_batch on an empty chunk: data[0] raises IndexError.                *)
SendEmpty ==
  /\ pc = "send"
  /\ Batch = {}
  /\ pc' = "failed"
  /\ err' = "IndexError"
  /\ UNCHANGED <<csv, batchSize, cur, chunk, posts>>

(* http.post succeeds and raise_for_status passes.                         *)
SendAccepted ==
  /\ pc = "send"
  /\ Batch # {}
  /\ posts' = Append(posts, Post)
  /\ Advance
  /\ UNCHANGED <<csv, batchSize, err>>

(* raise_for_status raises on a 4xx/5xx answer; nothing was stored.        *)
SendRejected ==
  /\ pc = "send"
  /\ Batch # {}
  /\ pc' = "failed"
  /\ err' = "HTTPError"
  /\ UNCHANGED <<csv, batchSize, cur, chunk, posts>>

(* http.post raises ConnectionError: the connection broke before or after  *)
(* the server stored the batch.                                            *)
SendLost ==
  /\ pc = "send"
  /\ Batch # {}
  /\ pc' = "failed"
  /\ err' = "ConnectionError"
  /\ posts' \in {posts, Append(posts, Post)}
  /\ UNCHANGED <<csv, batchSize, cur, chunk>>

(* The script has exited.                                                  *)
Terminated ==
  /\ pc \in {"done", "failed"}
  /\ UNCHANGED vars

Next == Split \/ SendEmpty \/ SendAccepted \/ SendRejected \/ SendLost
          \/ Terminated

Spec == Init /\ [][Next]_vars

-----------------------------------------------------------------------------
PostRec == [ua : Ids, machine : Ids, recs : SUBSET Row]

TypeOK ==
  /\ csv \in UNION {[1..n -> Key] : n \in 0..MaxRows}
  /\ batchSize \in BatchSizes \cup {StrArg}
  /\ pc \in {"split", "send", "done", "failed"}
  /\ err \in Errors
  /\ cur \in GroupKeys \cup {NoKey}
  /\ chunk \in Nat
  /\ posts \in Seq(PostRec)

Uploaded == UNION {posts[p].recs : p \in 1..Len(posts)}

(* Every stored batch was sent with the User-Agent and X-Machine-Name of   *)
(* each of its rows: send_batch reads them from data[0] only, which is     *)
(* right only if grouping put nothing else in the chunk.                   *)
PostHomogeneous ==
  \A p \in 1..Len(posts) :
    \A i \in posts[p].recs : csv[i] = <<posts[p].ua, posts[p].machine>>

(* No stored batch holds more than max_n rows (spec section 8).            *)
PostBounded ==
  \A p \in 1..Len(posts) : Cardinality(posts[p].recs) <= batchSize

(* No CSV row is stored twice by one run of the script.                    *)
NoRowUploadedTwice ==
  \A p, q \in 1..Len(posts) : p # q => posts[p].recs \cap posts[q].recs = {}

(* Whenever the script stops, even on an error, the stored rows of each    *)
(* group are an initial part of the group in CSV order: chunks go out in   *)
(* order and none skips a row.                                             *)
UploadedIsGroupPrefix ==
  \A k \in GroupKeys : \A i, j \in GetGroup(k) :
    i < j /\ j \in Uploaded => i \in Uploaded

(* A run that ends without an exception has stored every row of the CSV   *)
(* (spec section 8: the batches reproduce the whole input).                *)
UploadComplete ==
  pc = "done" => DOMAIN csv \subseteq Uploaded

(* The script fails only on an HTTP or connection error, or on a batch     *)
(* size that is not positive (spec section 7: InvalidConfiguration).       *)
FailsOnlyOnRequestOrConfig ==
  pc = "failed" =>
    err \in {"HTTPError", "ConnectionError", "ZeroDivisionError", "ValueError"}

(* Batches go out group by group in the order the groups first appear in   *)
(* the CSV (spec section 4.1, steps 1 and 3).                              *)
FirstSeen(k) == FirstRow(GetGroup(k))
GroupsInDiscoveryOrder ==
  \A p, q \in 1..Len(posts) :
    p < q => FirstSeen(<<posts[p].ua, posts[p].machine>>)
               <= FirstSeen(<<posts[q].ua, posts[q].machine>>)
=============================================================================
