----------------------------- MODULE SendQueue -----------------------------
(***************************************************************************)
(* The operations on a send queue (worker_queue.go): sequences of job ids, *)
(* each standing for the tracked job the program's slice points at.  An    *)
(* entry is live when the job it points at still has a job id: getJobs     *)
(* zeroes the job of everything the server stops listing.                  *)
(***************************************************************************)
EXTENDS Integers, Sequences, FiniteSets

CONSTANTS
  BatchFactor,   \* 4: results sent per worker thread in one POST
  MinBatch,      \* 32
  MaxBatch       \* 200

ASSUME SendQueueAssumption ==
  /\ BatchFactor \in Nat /\ MinBatch \in Nat \ {0} /\ MaxBatch \in Nat
  /\ MinBatch <= MaxBatch

Elements(s) == {s[i] : i \in DOMAIN s}

\* The subsequence of s at the positions of I: the n-th entry is the one with
\* n - 1 positions of I before it.
Pick(s, I) ==
  [n \in 1 .. Cardinality(I) |->
     s[CHOOSE i \in I : Cardinality({h \in I : h < i}) = n - 1]]

\* The entries of s that are in L, in their order.
Compact(s, L) == Pick(s, {i \in DOMAIN s : s[i] \in L})

\* The entries of s that are in L, the first of each id only.
CompactUnique(s, L) ==
  Pick(s, {i \in DOMAIN s : s[i] \in L /\ \A h \in 1 .. i - 1 : s[h] # s[i]})

BatchSize(threads) ==
  LET n == BatchFactor * threads
  IN  CASE n < MinBatch -> MinBatch
        [] n > MaxBatch -> MaxBatch
        [] OTHER        -> n

\* takeSendQueueFront splits q into a batch of at most `max` entries and the rest.
TakesAll(q, max) == max <= 0 \/ Len(q) <= max
TakeFront(q, max) == IF TakesAll(q, max) THEN q ELSE SubSeq(q, 1, max)
TakeRest_SkipsOne(q, max) == IF TakesAll(q, max) THEN <<>> ELSE SubSeq(q, max + 2, Len(q))
TakeRest(q, max)  == IF TakesAll(q, max) THEN <<>> ELSE SubSeq(q, max + 1, Len(q))

\* upsertSendQueueByJobID: a live job has one pending entry and keeps its place.
Upsert_AlwaysAppend(q, id) == Append(q, id)
Upsert(q, id) == IF id \in Elements(q) THEN q ELSE Append(q, id)

\* prependSendQueueFront: a batch that could not be posted goes back to the
\* head, without dead entries, and wins over entries with the same id in q.
Prepend_ToBack(q, batch, live) == Compact(q, live) \o CompactUnique(batch, live)
Prepend_KeepsBoth(q, batch, live) == Compact(batch, live) \o Compact(q, live)
Prepend_Forgets(q, batch, live) == Compact(q, live)
Prepend(q, batch, live) ==
  IF batch = <<>> THEN q
  ELSE CompactUnique(batch, live) \o Compact(q, live \ Elements(batch))
=============================================================================
