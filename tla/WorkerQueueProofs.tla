-------------------------- MODULE WorkerQueueProofs --------------------------
(***************************************************************************)
(* A job never has two entries waiting to be sent.  The queues alone are   *)
(* not enough for an induction: a batch that is being posted has left its  *)
(* queue, and the same job may enter the queue again before the batch is   *)
(* put back, so batch and queue are free of repetitions together.          *)
(*                                                                         *)
(* From that, that each queue with its batch implements Outbox: what       *)
(* waits is queue and batch without orphans, and every step of the worker  *)
(* is a step of the outbox or leaves it as it is.                          *)
(***************************************************************************)
EXTENDS WorkerProofs

QueuesDistinct ==
  /\ \A kind \in Kinds : Distinct(queue[kind], Keys)
  /\ Posting => Distinct(batch \o queue[Draining], Keys)

LEMMA OrphanIsNoKey == Orphan \notin Keys
BY WorkerAssumption DEF Keys, Orphan

\* The end of a sequence without repetitions has none.
LEMMA SuffixDistinct ==
  ASSUME NEW S, NEW s \in Seq(S), NEW t \in Seq(S), NEW D, Distinct(s \o t, D)
  PROVE  Distinct(t, D)
<1>1. /\ Len(s) \in Nat /\ DOMAIN t = 1 .. Len(t) /\ Len(t) \in Nat
      /\ s \o t \in Seq(S) /\ Len(s \o t) = Len(s) + Len(t)
      /\ \A i \in 1 .. Len(s) + Len(t) :
           (s \o t)[i] = IF i <= Len(s) THEN s[i] ELSE t[i - Len(s)]
  BY LenProperties, ConcatProperties
<1>2. DOMAIN (s \o t) = 1 .. Len(s) + Len(t)
  BY <1>1, LenProperties
<1>. SUFFICES ASSUME NEW i \in DOMAIN t, NEW j \in DOMAIN t, t[i] = t[j], t[i] \in D
              PROVE  i = j
  BY DEF Distinct
<1>3. /\ i + Len(s) \in DOMAIN (s \o t) /\ (s \o t)[i + Len(s)] = t[i]
      /\ j + Len(s) \in DOMAIN (s \o t) /\ (s \o t)[j + Len(s)] = t[j]
  <2>1. \A n \in DOMAIN t : n + Len(s) \in 1 .. Len(s) + Len(t) /\ ~(n + Len(s) <= Len(s))
                            /\ n + Len(s) - Len(s) = n
    BY <1>1
  <2>. QED  BY <1>1, <1>2, <2>1
<1>4. i + Len(s) = j + Len(s)
  BY <1>3 DEF Distinct
<1>. QED  BY <1>1, <1>4

\* A queue whose job k is forgotten.
LEMMA ForgottenDistinct ==
  ASSUME NEW k \in Keys, NEW q \in Seq(Entries), Distinct(q, Keys)
  PROVE  Distinct(Forgotten(q, k), Keys)
BY OrphanIsNoKey DEF Forgotten, Distinct

\* The steps that touch neither queues nor batch, and do not begin a POST.
LEMMA DistinctSame ==
  ASSUME QueuesDistinct, queue' = queue,
         ~Posting' \/ (Posting /\ UNCHANGED <<batch, due>>)
  PROVE  QueuesDistinct'
BY DEF QueuesDistinct, Draining

\* The steps that change one queue while nothing is being posted.
LEMMA DistinctOne ==
  ASSUME TypeOK, QueuesDistinct, ~Posting', NEW kind \in Kinds, NEW q,
         Distinct(q, Keys), queue' = [queue EXCEPT ![kind] = q]
  PROVE  QueuesDistinct'
BY DEF TypeOK, QueuesDistinct

LEMMA DistinctStep == TypeOK /\ QueuesDistinct /\ [Next]_vars => QueuesDistinct'
<1>. SUFFICES ASSUME TypeOK, QueuesDistinct, [Next]_vars PROVE QueuesDistinct'
  OBVIOUS
<1>0. /\ Draining \in Kinds /\ Live \subseteq Keys /\ batch \in Seq(Entries)
      /\ queue \in [Kinds -> Seq(Entries)] /\ queue[Draining] \in Seq(Entries)
  BY KindTypes DEF TypeOK, Entries
<1>1. CASE BeginUpdate \/ UpdateInstalled \/ UpdateFailed \/ Leave \/ TurnToGet \/ TurnToTick
           \/ GetFail
  BY <1>1, DistinctSame
     DEF BeginUpdate, UpdateInstalled, UpdateFailed, Leave, TurnToGet, TurnToTick, GetFail, EnterMap,
         Posting
<1>2. CASE ServerAnswers
  BY <1>2, DistinctSame DEF ServerAnswers, GetOK, EnterMap, Posting
<1>3. ASSUME NEW k \in Keys, TickCancel(k) \/ TickSkip(k) \/ TickUnsupported(k) \/ TickStart(k)
      PROVE  QueuesDistinct'
  BY <1>3, DistinctSame DEF TickCancel, TickSkip, TickUnsupported, TickStart, IsNext, Posting
<1>4. ASSUME NEW k \in Keys, TickTimeout(k) \/ TickFinish(k) PROVE QueuesDistinct'
  <2>1. Enqueue(k) /\ ~Posting' /\ KindOf(k) \in Kinds
    BY <1>4, KindTypes DEF TickTimeout, TickFinish, IsNext, Posting
  <2>. DEFINE q == IF k \in Live THEN Upsert(queue[KindOf(k)], k) ELSE queue[KindOf(k)]
  <2>2. queue[KindOf(k)] \in Seq(Entries) /\ k \in Entries /\ Distinct(queue[KindOf(k)], Keys)
    BY <1>0, <2>1 DEF Entries, QueuesDistinct
  <2>3. Distinct(q, Keys)
    BY <2>2, UpsertFacts
  <2>4. queue' = [queue EXCEPT ![KindOf(k)] = q]
    BY <1>0, <2>1 DEF Enqueue
  <2>. HIDE DEF q
  <2>. QED  BY <2>1, <2>3, <2>4, DistinctOne
<1>5. ASSUME NEW k \in Keys, TickRemove(k) PROVE QueuesDistinct'
  <2>. DEFINE q == Forgotten(queue[KindOf(k)], k)
  <2>1. KindOf(k) \in Kinds /\ ~Posting'
    BY <1>5, KindTypes DEF TickRemove, IsNext, Posting
  <2>2. queue' = [queue EXCEPT ![KindOf(k)] = q]
    BY <1>0, <1>5, <2>1 DEF TickRemove, Forgotten
  <2>3. Distinct(q, Keys)
    BY <1>0, <2>1, ForgottenDistinct DEF QueuesDistinct
  <2>. HIDE DEF q
  <2>. QED  BY <2>1, <2>2, <2>3, DistinctOne
<1>6. CASE TickDockers \/ DrainBegin \/ DrainEnd \/ Wake
  BY <1>6, DistinctSame DEF TickDockers, DrainBegin, DrainEnd, Wake, EnterMap, Posting
<1>7. CASE SendNothing \/ SendBatch
  <2>. DEFINE f == Taken
              r == Rest
  <2>1. f \in Seq(Entries) /\ r \in Seq(Entries) /\ f \o r = queue[Draining]
    BY QueueTypes DEF Taken, Rest
  <2>2. Distinct(f \o r, Keys)
    BY <1>0, <2>1 DEF QueuesDistinct
  <2>. HIDE DEF f, r
  <2>3. Distinct(r, Keys)
    BY <2>1, <2>2, SuffixDistinct
  <2>4. queue' = [queue EXCEPT ![Draining] = r]
    BY <1>7 DEF SendNothing, SendBatch, r
  <2>5. CASE SendNothing
    BY <1>0, <2>3, <2>4, <2>5, DistinctOne DEF SendNothing, Posting
  <2>6. CASE SendBatch
    <3>1. batch' = f /\ Draining' = Draining /\ queue'[Draining] = r
      BY <1>0, <2>4, <2>6 DEF SendBatch, Draining, f
    <3>2. \A kind \in Kinds : Distinct(queue'[kind], Keys)
      BY <1>0, <2>3, <2>4 DEF QueuesDistinct
    <3>. QED  BY <2>2, <3>1, <3>2 DEF QueuesDistinct
  <2>. QED  BY <1>7, <2>5, <2>6
<1>8. CASE PostReturns \/ PostOK
  BY <1>8, DistinctSame DEF PostReturns, PostOK, Posting
<1>9. CASE PostFail
  <2>. DEFINE q == Prepend(queue[Draining], batch, Live)
  <2>1. Distinct(q, Keys)
    BY <1>0, PrependFacts DEF QueuesDistinct
  <2>2. queue' = [queue EXCEPT ![Draining] = q] /\ ~Posting'
    BY <1>0, <1>9 DEF PostFail, Posting
  <2>. HIDE DEF q
  <2>. QED  BY <1>0, <2>1, <2>2, DistinctOne
<1>10. ASSUME NEW k \in Keys, Finish(k) \/ FinishLate(k) \/ FinishLost(k) PROVE QueuesDistinct'
  BY <1>10, DistinctSame DEF Finish, FinishLate, FinishLost, loopVars, Posting
<1>11. CASE TimePasses \/ UNCHANGED vars
  BY <1>11, DistinctSame DEF TimePasses, vars, loopVars, Posting
<1>12. CASE Reboot
  BY <1>12 DEF Reboot, QueuesDistinct, Distinct, Posting
<1>. QED  BY <1>1, <1>2, <1>3, <1>4, <1>5, <1>6, <1>7, <1>8, <1>9, <1>10, <1>11, <1>12
          DEF Next, LoopStep, Turn, Tick, Drain

\* What is proved of batch and queue is the property the runs check.
LEMMA DistinctIsOnePending == TypeOK /\ QueuesDistinct => OnePendingPerJob
<1>. SUFFICES ASSUME TypeOK, QueuesDistinct, NEW kind \in Kinds
              PROVE  LET all == Offered(kind) \o queue[kind]
                     IN  \A i, j \in DOMAIN all : all[i] = all[j] /\ all[i] # Orphan => i = j
  BY DEF OnePendingPerJob
<1>. DEFINE all == Offered(kind) \o queue[kind]
<1>1. batch \in Seq(Entries) /\ queue[kind] \in Seq(Entries)
  BY DEF TypeOK, Entries
<1>2. Distinct(all, Keys) /\ all \in Seq(Entries)
  <2>1. CASE Posting /\ kind = Draining
    BY <1>1, <2>1, ConcatProperties DEF QueuesDistinct, Offered
  <2>2. CASE ~(Posting /\ kind = Draining)
    BY <1>1, <2>2, ConcatEmptySeq DEF QueuesDistinct, Offered
  <2>. QED  BY <2>1, <2>2
<1>. HIDE DEF all
<1>3. \A i \in DOMAIN all : all[i] \in Keys \/ all[i] = Orphan
  BY <1>2, LenProperties DEF Entries
<1>4. \A i, j \in DOMAIN all : all[i] = all[j] /\ all[i] # Orphan => i = j
  BY <1>2, <1>3 DEF Distinct
<1>. QED  BY <1>4 DEF all

LEMMA QueuesStart == Init => QueuesDistinct
BY DEF Init, QueuesDistinct, Distinct, Posting

\* A job is in its queue and in the batch being posted at most once together,
\* however POSTs fail, checks end and the server changes its lists.
THEOREM QueuesHoldOnePerJob == Spec => []OnePendingPerJob
<1>1. Init => QueuesDistinct
  BY QueuesStart
<1>2. TypeOK /\ QueuesDistinct /\ [Next]_vars => QueuesDistinct'
  BY DistinctStep
<1>3. TypeOK /\ QueuesDistinct => OnePendingPerJob
  BY DistinctIsOnePending
<1>. QED  BY <1>1, <1>2, <1>3, TypeCorrect, PTL DEF Spec

-----------------------------------------------------------------------------
(* Each queue, with its batch, is an Outbox.  Besides what is above, this     *)
(* needs that a queue holds entries of its own kind only, and that no batch   *)
(* is posted without an entry of a job.                                       *)

OfKind(s, kind) == Elements(s) \subseteq KeysOf(kind) \cup {Orphan}

EntriesOfKind ==
  /\ \A kind \in Kinds : OfKind(queue[kind], kind)
  /\ Posting => OfKind(batch, Draining) /\ Elements(batch) \cap Keys # {}

LEMMA OfKindSame ==
  ASSUME EntriesOfKind, queue' = queue, ~Posting' \/ (Posting /\ UNCHANGED <<batch, due>>)
  PROVE  EntriesOfKind'
BY DEF EntriesOfKind, Draining

LEMMA OfKindOne ==
  ASSUME TypeOK, EntriesOfKind, ~Posting', NEW kind \in Kinds, NEW q,
         OfKind(q, kind), queue' = [queue EXCEPT ![kind] = q]
  PROVE  EntriesOfKind'
BY DEF TypeOK, EntriesOfKind

LEMMA ForgottenElements ==
  ASSUME NEW k, NEW q
  PROVE  Elements(Forgotten(q, k)) \subseteq (Elements(q) \ {k}) \cup {Orphan}
BY DEF Elements, Forgotten

LEMMA OfKindStep == TypeOK /\ QueuesDistinct /\ EntriesOfKind /\ [Next]_vars => EntriesOfKind'
<1>. SUFFICES ASSUME TypeOK, QueuesDistinct, EntriesOfKind, [Next]_vars PROVE EntriesOfKind'
  OBVIOUS
<1>0. /\ Draining \in Kinds /\ Live \subseteq Keys /\ batch \in Seq(Entries)
      /\ queue \in [Kinds -> Seq(Entries)] /\ queue[Draining] \in Seq(Entries)
      /\ \A kind \in Kinds : OfKind(queue[kind], kind)
  BY KindTypes DEF TypeOK, Entries, EntriesOfKind
<1>1. CASE BeginUpdate \/ UpdateInstalled \/ UpdateFailed \/ Leave \/ TurnToGet \/ TurnToTick
           \/ GetFail
  BY <1>1, OfKindSame
     DEF BeginUpdate, UpdateInstalled, UpdateFailed, Leave, TurnToGet, TurnToTick, GetFail, EnterMap,
         Posting
<1>2. CASE ServerAnswers
  BY <1>2, OfKindSame DEF ServerAnswers, GetOK, EnterMap, Posting
<1>3. ASSUME NEW k \in Keys, TickCancel(k) \/ TickSkip(k) \/ TickUnsupported(k) \/ TickStart(k)
      PROVE  EntriesOfKind'
  BY <1>3, OfKindSame DEF TickCancel, TickSkip, TickUnsupported, TickStart, IsNext, Posting
<1>4. ASSUME NEW k \in Keys, TickTimeout(k) \/ TickFinish(k) PROVE EntriesOfKind'
  <2>1. Enqueue(k) /\ ~Posting' /\ KindOf(k) \in Kinds /\ k \in KeysOf(KindOf(k))
    BY <1>4, KindTypes DEF TickTimeout, TickFinish, IsNext, Posting
  <2>. DEFINE q == IF k \in Live THEN Upsert(queue[KindOf(k)], k) ELSE queue[KindOf(k)]
  <2>2. queue[KindOf(k)] \in Seq(Entries) /\ k \in Entries /\ OfKind(queue[KindOf(k)], KindOf(k))
    BY <1>0, <2>1 DEF Entries
  <2>3. Elements(Upsert(queue[KindOf(k)], k)) = Elements(queue[KindOf(k)]) \cup {k}
    BY <2>2, UpsertElements
  <2>4. OfKind(q, KindOf(k))
    BY <2>1, <2>2, <2>3 DEF OfKind
  <2>5. queue' = [queue EXCEPT ![KindOf(k)] = q]
    BY <1>0, <2>1 DEF Enqueue
  <2>. HIDE DEF q
  <2>. QED  BY <2>1, <2>4, <2>5, OfKindOne
<1>5. ASSUME NEW k \in Keys, TickRemove(k) PROVE EntriesOfKind'
  <2>. DEFINE q == Forgotten(queue[KindOf(k)], k)
  <2>1. KindOf(k) \in Kinds /\ ~Posting'
    BY <1>5, KindTypes DEF TickRemove, IsNext, Posting
  <2>2. queue' = [queue EXCEPT ![KindOf(k)] = q]
    BY <1>0, <1>5, <2>1 DEF TickRemove, Forgotten
  <2>3. OfKind(q, KindOf(k))
    BY <1>0, <2>1, ForgottenElements DEF OfKind
  <2>. HIDE DEF q
  <2>. QED  BY <2>1, <2>2, <2>3, OfKindOne
<1>6. CASE TickDockers \/ DrainBegin \/ DrainEnd \/ Wake
  BY <1>6, OfKindSame DEF TickDockers, DrainBegin, DrainEnd, Wake, EnterMap, Posting
<1>7. CASE SendNothing \/ SendBatch
  <2>. DEFINE f == Taken
              r == Rest
  <2>1. f \in Seq(Entries) /\ r \in Seq(Entries) /\ f \o r = queue[Draining]
    BY QueueTypes DEF Taken, Rest
  <2>2. OfKind(f \o r, Draining)
    BY <1>0, <2>1
  <2>3. queue' = [queue EXCEPT ![Draining] = r]
    BY <1>7 DEF SendNothing, SendBatch
  <2>4. SendBatch => batch' = f /\ Draining' = Draining /\ Elements(f) \cap Keys # {}
    BY <1>0 DEF SendBatch, Draining
  <2>. HIDE DEF f, r
  <2>5. Elements(f \o r) = Elements(f) \cup Elements(r)
    BY <2>1, ElementsConcat
  <2>6. OfKind(f, Draining) /\ OfKind(r, Draining)
    BY <2>2, <2>5 DEF OfKind
  <2>7. CASE SendNothing
    BY <1>0, <2>3, <2>6, <2>7, OfKindOne DEF SendNothing, Posting
  <2>8. CASE SendBatch
    <3>1. \A kind \in Kinds : OfKind(queue'[kind], kind)
      BY <1>0, <2>3, <2>6
    <3>. QED  BY <2>4, <2>6, <2>8, <3>1 DEF EntriesOfKind
  <2>. QED  BY <1>7, <2>7, <2>8
<1>8. CASE PostReturns \/ PostOK
  BY <1>8, OfKindSame DEF PostReturns, PostOK, Posting
<1>9. CASE PostFail
  <2>. DEFINE q == Prepend(queue[Draining], batch, Live)
  <2>1. Distinct(batch \o queue[Draining], Keys) /\ OfKind(batch, Draining) /\ batch # <<>>
    BY <1>9 DEF PostFail, Posting, QueuesDistinct, EntriesOfKind, Elements
  <2>2. Elements(q) \subseteq Elements(batch) \cup Elements(queue[Draining])
    BY <1>0, <2>1, PrependCompact
  <2>3. OfKind(q, Draining)
    BY <1>0, <2>1, <2>2 DEF OfKind
  <2>4. queue' = [queue EXCEPT ![Draining] = q] /\ ~Posting'
    BY <1>0, <1>9 DEF PostFail, Posting
  <2>. HIDE DEF q
  <2>. QED  BY <1>0, <2>3, <2>4, OfKindOne
<1>10. ASSUME NEW k \in Keys, Finish(k) \/ FinishLate(k) \/ FinishLost(k) PROVE EntriesOfKind'
  BY <1>10, OfKindSame DEF Finish, FinishLate, FinishLost, loopVars, Posting
<1>11. CASE TimePasses \/ UNCHANGED vars
  BY <1>11, OfKindSame DEF TimePasses, vars, loopVars, Posting
<1>12. CASE Reboot
  BY <1>12 DEF Reboot, EntriesOfKind, OfKind, Elements, Posting
<1>. QED  BY <1>1, <1>2, <1>3, <1>4, <1>5, <1>6, <1>7, <1>8, <1>9, <1>10, <1>11, <1>12
          DEF Next, LoopStep, Turn, Tick, Drain

\* What an Outbox sees of a queue that is not being posted, and of one that is.
LEMMA QuietView ==
  ASSUME TypeOK, NEW kind \in Kinds, ~(Posting /\ kind = Draining)
  PROVE  Pending(kind) = Compact(queue[kind], Keys) /\ InPost(kind) = 0 /\ Answer(kind) = "none"
<1>1. queue[kind] \in Seq(Entries) /\ <<>> \in Seq(Entries)
  BY EmptySeq DEF TypeOK, Entries
<1>2. <<>> \o queue[kind] = queue[kind] /\ Compact(<<>>, Keys) = <<>> /\ Len(<<>>) = 0
  <2>1. Elements(<<>>) \cap Keys = {}
    BY DEF Elements
  <2>. QED  BY <1>1, <2>1, ConcatEmptySeq, CompactElements, EmptySeq
<1>3. Offered(kind) = <<>>
  BY DEF Offered
<1>. QED  BY <1>2, <1>3 DEF Pending, InPost, Answer, Posting

LEMMA QuietViewNext ==
  ASSUME TypeOK', NEW kind \in Kinds, ~(Posting' /\ kind = Draining')
  PROVE  /\ Pending(kind)' = Compact(queue'[kind], Keys)
         /\ InPost(kind)' = 0 /\ Answer(kind)' = "none"
<1>1. queue'[kind] \in Seq(Entries) /\ <<>> \in Seq(Entries)
  BY EmptySeq DEF TypeOK, Entries
<1>2. <<>> \o queue'[kind] = queue'[kind] /\ Compact(<<>>, Keys) = <<>> /\ Len(<<>>) = 0
  <2>1. Elements(<<>>) \cap Keys = {}
    BY DEF Elements
  <2>. QED  BY <1>1, <2>1, ConcatEmptySeq, CompactElements, EmptySeq
<1>3. Offered(kind)' = <<>>
  BY DEF Offered
<1>. QED  BY <1>2, <1>3 DEF Pending, InPost, Answer, Posting

LEMMA PostingView ==
  ASSUME TypeOK, EntriesOfKind, Posting
  PROVE  /\ Pending(Draining) = Compact(batch \o queue[Draining], Keys)
         /\ Pending(Draining) = Compact(batch, Keys) \o Compact(queue[Draining], Keys)
         /\ InPost(Draining) = Len(Compact(batch, Keys)) /\ InPost(Draining) > 0
<1>1. batch \in Seq(Entries) /\ queue[Draining] \in Seq(Entries)
  BY KindTypes DEF TypeOK, Entries
<1>2. Elements(batch) \cap Keys # {}
  BY DEF EntriesOfKind
<1>. QED  BY <1>1, <1>2, CompactConcat, CompactElements DEF Pending, InPost, Offered

SameView(kind) == UNCHANGED <<Pending(kind), InPost(kind), Answer(kind), Live>>

LEMMA SameQuietView ==
  ASSUME TypeOK, TypeOK', NEW kind \in Kinds,
         ~(Posting /\ kind = Draining), ~(Posting' /\ kind = Draining'),
         queue'[kind] = queue[kind], UNCHANGED status
  PROVE  SameView(kind)
BY QuietView, QuietViewNext DEF SameView, Live

LEMMA SamePostingView ==
  ASSUME NEW kind \in Kinds, UNCHANGED <<pc, due, batch, queue, status>>
  PROVE  SameView(kind)
BY DEF SameView, Pending, InPost, Answer, Offered, Posting, Draining, Live

-----------------------------------------------------------------------------
(* The steps of the abstract queue. *)

KindOutbox(Ids, kind) == INSTANCE Outbox WITH
  waiting <- Pending(kind), offered <- InPost(kind),
  answer <- Answer(kind), listed <- Live \cap Ids

LEMMA ThinsIsThinning ==
  \A Ids, kind, t, s, gone : Thins(t, s, gone) <=> KindOutbox(Ids, kind)!IsThinning(t, s, gone)
BY DEF Thins, KindOutbox!IsThinning, KindOutbox!Positions

StepsAs(Ids, kind) == KindOutbox(Ids, kind)!OutboxNext \/ UNCHANGED KindOutbox(Ids, kind)!outboxVars

LEMMA Stutters ==
  ASSUME NEW Ids, NEW kind, SameView(kind)
  PROVE  StepsAs(Ids, kind)
BY DEF StepsAs, SameView, KindOutbox!outboxVars

\* An answer of the server is a list.
LEMMA AnswerStep ==
  ASSUME TypeOK, TypeOK', NEW kind \in Kinds, ServerAnswers
  PROVE  StepsAs(KeysOf(kind), kind)
<1>1. ~Posting /\ ~Posting' /\ queue' = queue
  BY DEF ServerAnswers, GetOK, EnterMap, Posting
<1>2. UNCHANGED <<Pending(kind), InPost(kind), Answer(kind)>> /\ InPost(kind) = 0
  BY <1>1, QuietView, QuietViewNext
<1>3. Live' \cap KeysOf(kind) \in SUBSET KeysOf(kind)
  OBVIOUS
<1>4. KindOutbox(KeysOf(kind), kind)!List(Live' \cap KeysOf(kind))
  BY <1>2 DEF KindOutbox!List, KeysOf
<1>. QED  BY <1>3, <1>4 DEF StepsAs, KindOutbox!OutboxNext

\* A check that ends puts its result in, unless the server dropped the job.
LEMMA EnqueueStep ==
  ASSUME TypeOK, TypeOK', NEW kind \in Kinds, NEW k \in Keys, TickTimeout(k) \/ TickFinish(k)
  PROVE  StepsAs(KeysOf(kind), kind)
<1>1. ~Posting /\ ~Posting' /\ Enqueue(k) /\ status' = status
  BY DEF TickTimeout, TickFinish, IsNext, Posting
<1>2. KindOf(k) \in Kinds /\ k \in KeysOf(KindOf(k)) /\ queue \in [Kinds -> Seq(Entries)] /\ k \in Entries
  BY KindTypes DEF TypeOK, Entries
<1>3. CASE kind = KindOf(k) /\ k \in Live
  <2>1. queue'[kind] = Upsert(queue[kind], k)
    BY <1>1, <1>2, <1>3 DEF Enqueue
  <2>2. Pending(kind)' = IF k \in Elements(Pending(kind)) THEN Pending(kind) ELSE Append(Pending(kind), k)
    <3>1. Pending(kind) = Compact(queue[kind], Keys) /\ Pending(kind)' = Compact(queue'[kind], Keys)
      BY <1>1, QuietView, QuietViewNext
    <3>2. queue[kind] \in Seq(Entries)
      BY <1>2
    <3>. QED  BY <1>2, <2>1, <3>1, <3>2, UpsertCompact
  <2>3. InPost(kind) = 0 /\ UNCHANGED <<InPost(kind), Answer(kind), Live>>
    BY <1>1, QuietView, QuietViewNext DEF Live
  <2>4. KindOutbox(KeysOf(kind), kind)!Put(k)
    BY <1>2, <1>3, <2>2, <2>3 DEF KindOutbox!Put, KindOutbox!Members, KindOutbox!Positions, Elements, KeysOf
  <2>. QED  BY <1>2, <1>3, <2>4 DEF StepsAs, KindOutbox!OutboxNext
<1>4. CASE ~(kind = KindOf(k) /\ k \in Live)
  <2>1. queue'[kind] = queue[kind]
    BY <1>1, <1>2, <1>4 DEF Enqueue
  <2>. QED  BY <1>1, <2>1, SameQuietView, Stutters
<1>. QED  BY <1>3, <1>4

LEMMA ForgottenCompact ==
  ASSUME NEW k \in Keys, NEW q \in Seq(Entries)
  PROVE  Compact(Forgotten(q, k), Keys) = Compact(q, Keys \ {k})
<1>. DEFINE t == Forgotten(q, k)
            I == {i \in DOMAIN q : q[i] \in Keys \ {k}}
<1>1. t \in Seq(Entries) /\ DOMAIN t = DOMAIN q /\ \A i \in DOMAIN q : t[i] = IF q[i] = k THEN Orphan ELSE q[i]
  BY ForgottenType DEF Forgotten
<1>. HIDE DEF t
<1>2. {i \in DOMAIN t : t[i] \in Keys} = I
  BY <1>1, OrphanIsNoKey
<1>3. I \in SUBSET (DOMAIN t) /\ I \subseteq DOMAIN q /\ \A i \in I : t[i] = q[i]
  BY <1>1
<1>. HIDE DEF I
<1>4. Pick(t, I) = Pick(q, I)
  BY <1>1, <1>3, PickAgree
<1>. QED  BY <1>2, <1>4 DEF Compact, t, I

LEMMA ThinsMore ==
  ASSUME NEW t, NEW s, NEW less, NEW more, less \subseteq more, Thins(t, s, less)
  PROVE  Thins(t, s, more)
BY DEF Thins

\* A job that leaves the map takes its entry with it: the server had dropped it.
LEMMA RemoveStep ==
  ASSUME TypeOK, TypeOK', NEW kind \in Kinds, NEW k \in Keys, TickRemove(k)
  PROVE  StepsAs(KeysOf(kind), kind)
<1>1. ~Posting /\ ~Posting' /\ Live' = Live /\ k \notin Live
  BY DEF TickRemove, IsNext, Removable, Posting, Live, TypeOK
<1>2. /\ KindOf(k) \in Kinds /\ k \in KeysOf(KindOf(k)) /\ queue \in [Kinds -> Seq(Entries)]
      /\ queue' = [queue EXCEPT ![KindOf(k)] = Forgotten(queue[KindOf(k)], k)]
  BY KindTypes DEF TypeOK, Entries, TickRemove, Forgotten
<1>3. /\ Pending(kind) = Compact(queue[kind], Keys) /\ Pending(kind)' = Compact(queue'[kind], Keys)
      /\ InPost(kind) = 0 /\ UNCHANGED <<InPost(kind), Answer(kind), Live>>
  BY <1>1, QuietView, QuietViewNext
<1>4. CASE kind = KindOf(k)
  <2>. DEFINE q == queue[kind]
  <2>1. q \in Seq(Entries) /\ queue'[kind] = Forgotten(q, k)
    BY <1>2, <1>4
  <2>. HIDE DEF q
  <2>2. Compact(Forgotten(q, k), Keys) = Compact(q, Keys \ {k})
    BY <2>1, ForgottenCompact
  <2>3. Thins(Compact(q, Keys \ {k}), Compact(q, Keys), {k})
    BY <2>1, CompactThins
  <2>4. Thins(Compact(q, Keys \ {k}), Compact(q, Keys), KeysOf(kind) \ (Live \cap KeysOf(kind)))
    BY <1>1, <1>2, <1>4, <2>3, ThinsMore
  <2>5. KindOutbox(KeysOf(kind), kind)!Withdraw
    BY <1>3, <2>1, <2>2, <2>4, ThinsIsThinning DEF KindOutbox!Withdraw, KeysOf, q
  <2>. QED  BY <2>5 DEF StepsAs, KindOutbox!OutboxNext
<1>5. CASE kind # KindOf(k)
  BY <1>2, <1>3, <1>5, Stutters DEF SameView
<1>. QED  BY <1>4, <1>5

LEMMA TakenFacts ==
  ASSUME TypeOK
  PROVE  /\ Draining \in Kinds /\ queue \in [Kinds -> Seq(Entries)]
         /\ Taken \in Seq(Entries) /\ Rest \in Seq(Entries) /\ Taken \o Rest = queue[Draining]
BY KindTypes, QueueTypes DEF TypeOK, Entries, Taken, Rest

\* A batch without a live job is dropped.
LEMMA NothingStep ==
  ASSUME TypeOK, TypeOK', EntriesOfKind, NEW kind \in Kinds, SendNothing
  PROVE  StepsAs(KeysOf(kind), kind)
<1>1. ~Posting /\ ~Posting' /\ UNCHANGED <<Live, status>> /\ Elements(Taken) \cap Live = {}
      /\ queue' = [queue EXCEPT ![Draining] = Rest]
  BY DEF SendNothing, Posting, Live, checkVars
<1>2. /\ Pending(kind) = Compact(queue[kind], Keys) /\ Pending(kind)' = Compact(queue'[kind], Keys)
      /\ InPost(kind) = 0 /\ UNCHANGED <<InPost(kind), Answer(kind), Live>>
  BY <1>1, QuietView, QuietViewNext
<1>. DEFINE f == Taken
            r == Rest
<1>3. /\ Draining \in Kinds /\ queue \in [Kinds -> Seq(Entries)]
      /\ f \in Seq(Entries) /\ r \in Seq(Entries) /\ f \o r = queue[Draining]
  BY TakenFacts
<1>4. OfKind(queue[Draining], Draining)
  BY <1>3 DEF EntriesOfKind
<1>5. Elements(f) \cap Live = {} /\ queue' = [queue EXCEPT ![Draining] = r]
  BY <1>1
<1>. HIDE DEF f, r
<1>6. CASE kind = Draining
  <2>1. queue'[kind] = r /\ queue[kind] = f \o r
    BY <1>3, <1>5, <1>6
  <2>2. Elements(f) \cap Keys \subseteq KeysOf(kind) \ (Live \cap KeysOf(kind))
    <3>1. Elements(f) \subseteq KeysOf(kind) \cup {Orphan}
      <4>1. Elements(f \o r) = Elements(f) \cup Elements(r)
        BY <1>3, ElementsConcat
      <4>. QED  BY <1>3, <1>4, <1>6, <4>1 DEF OfKind
    <3>. QED  BY <1>5, <3>1, OrphanIsNoKey
  <2>3. Thins(Compact(r, Keys), Compact(f \o r, Keys), KeysOf(kind) \ (Live \cap KeysOf(kind)))
    BY <1>3, <2>2, FrontThins
  <2>4. KindOutbox(KeysOf(kind), kind)!Withdraw
    BY <1>2, <2>1, <2>3, ThinsIsThinning DEF KindOutbox!Withdraw, KeysOf
  <2>. QED  BY <2>4 DEF StepsAs, KindOutbox!OutboxNext
<1>7. CASE kind # Draining
  BY <1>2, <1>3, <1>5, <1>7, Stutters DEF SameView
<1>. QED  BY <1>6, <1>7

\* A POST begins: the batch is offered.
LEMMA BatchStep ==
  ASSUME TypeOK, TypeOK', EntriesOfKind', NEW kind \in Kinds, SendBatch
  PROVE  StepsAs(KeysOf(kind), kind)
<1>1. /\ ~Posting /\ Posting' /\ Draining' = Draining /\ UNCHANGED status /\ pc' = "post"
      /\ queue' = [queue EXCEPT ![Draining] = Rest] /\ batch' = Taken
  BY DEF SendBatch, Posting, Draining, checkVars
<1>2. /\ Draining \in Kinds /\ queue \in [Kinds -> Seq(Entries)]
      /\ Taken \in Seq(Entries) /\ Rest \in Seq(Entries) /\ Taken \o Rest = queue[Draining]
  BY TakenFacts
<1>3. CASE kind = Draining
  <2>1. /\ Pending(kind) = Compact(queue[kind], Keys)
        /\ InPost(kind) = 0 /\ Answer(kind) = "none" /\ Answer(kind)' = "none"
    BY <1>1, QuietView DEF Answer
  <2>2. Pending(kind)' = Compact(batch' \o queue'[kind], Keys)
    BY <1>1, <1>3 DEF Pending, Offered
  <2>3. queue'[kind] = Rest
    BY <1>1, <1>2, <1>3
  <2>4. Pending(kind)' = Pending(kind)
    BY <1>1, <1>2, <1>3, <2>1, <2>2, <2>3
  <2>5. Pending(kind) = Compact(Taken, Keys) \o Compact(Rest, Keys)
    <3>. DEFINE f == Taken
                r == Rest
    <3>1. f \in Seq(Entries) /\ r \in Seq(Entries) /\ f \o r = queue[kind]
      BY <1>2, <1>3
    <3>. HIDE DEF f, r
    <3>2. Compact(f \o r, Keys) = Compact(f, Keys) \o Compact(r, Keys)
      <4>1. f \in Seq(Entries) /\ r \in Seq(Entries)
        BY <3>1
      <4>. QED  BY <4>1, CompactConcat
    <3>. QED  BY <2>1, <3>1, <3>2 DEF f, r
  <2>6. InPost(kind)' = Len(Compact(Taken, Keys)) /\ Len(Compact(Taken, Keys)) > 0
    <3>1. InPost(kind)' = Len(Compact(Taken, Keys))
      BY <1>1, <1>3 DEF InPost, Offered
    <3>2. Elements(Taken) \cap Keys # {}
      BY KindTypes DEF SendBatch
    <3>3. Len(Compact(Taken, Keys)) > 0
      <4>. DEFINE f == Taken
      <4>1. f \in Seq(Entries) /\ Elements(f) \cap Keys # {}
        BY <1>2, <3>2
      <4>. HIDE DEF f
      <4>2. Len(Compact(f, Keys)) > 0
        BY <4>1, CompactElements
      <4>. QED  BY <4>2 DEF f
    <3>. QED  BY <3>1, <3>3
  <2>7. InPost(kind)' \in 1 .. Len(Pending(kind))
    <3>. DEFINE a == Compact(Taken, Keys)
                b == Compact(Rest, Keys)
    <3>1. a \in Seq(Entries) /\ b \in Seq(Entries)
      BY <1>2, CompactFacts
    <3>. HIDE DEF a, b
    <3>2. Len(a \o b) = Len(a) + Len(b) /\ Len(a) \in Nat /\ Len(b) \in Nat
      BY <3>1, ConcatProperties, LenProperties
    <3>. QED  BY <2>5, <2>6, <3>2 DEF a, b
  <2>8. KindOutbox(KeysOf(kind), kind)!Offer(InPost(kind)')
    BY <1>1, <2>1, <2>4, <2>7 DEF KindOutbox!Offer, KeysOf, Live
  <2>. QED  BY <2>7, <2>8 DEF StepsAs, KindOutbox!OutboxNext
<1>4. CASE kind # Draining
  <2>1. queue'[kind] = queue[kind]
    BY <1>1, <1>2, <1>4
  <2>. QED  BY <1>1, <1>4, <2>1, SameQuietView, Stutters
<1>. QED  BY <1>3, <1>4

\* The POST returns.
LEMMA ReturnStep ==
  ASSUME TypeOK, TypeOK', EntriesOfKind, NEW kind \in Kinds, PostReturns
  PROVE  StepsAs(KeysOf(kind), kind)
<1>1. /\ pc = "post" /\ pc' \in {"settle", "restore"} /\ Posting /\ Posting'
      /\ Draining' = Draining /\ UNCHANGED <<batch, queue, status>>
  BY DEF PostReturns, Posting, Draining, checkVars
<1>2. CASE kind = Draining
  <2>1. InPost(kind) > 0 /\ UNCHANGED <<Pending(kind), InPost(kind), Live>>
    BY <1>1, <1>2, PostingView DEF Pending, InPost, Offered, Live
  <2>2. Answer(kind) = "none" /\ Answer(kind)' \in {"taken", "refused"}
    BY <1>1, <1>2 DEF Answer
  <2>3. KindOutbox(KeysOf(kind), kind)!Return
    BY <2>1, <2>2 DEF KindOutbox!Return, KeysOf
  <2>. QED  BY <2>3 DEF StepsAs, KindOutbox!OutboxNext
<1>3. CASE kind # Draining
  BY <1>1, <1>3, SameQuietView, Stutters
<1>. QED  BY <1>2, <1>3

\* The server took the batch: it leaves, and what was behind it is in front.
LEMMA AcceptStep ==
  ASSUME TypeOK, TypeOK', EntriesOfKind, NEW kind \in Kinds, PostOK
  PROVE  StepsAs(KeysOf(kind), kind)
<1>1. pc = "settle" /\ Posting /\ ~Posting' /\ UNCHANGED <<queue, status>>
  BY DEF PostOK, Posting
<1>2. CASE kind = Draining
  <2>. DEFINE a == Compact(batch, Keys)
              b == Compact(queue[kind], Keys)
  <2>1. /\ Pending(kind) = a \o b /\ InPost(kind) = Len(a) /\ Answer(kind) = "taken"
        /\ Pending(kind)' = b /\ InPost(kind)' = 0 /\ Answer(kind)' = "none" /\ Live' = Live
    BY <1>1, <1>2, PostingView, QuietViewNext DEF Answer, Live
  <2>2. a \in Seq(Entries) /\ b \in Seq(Entries)
    <3>1. batch \in Seq(Entries) /\ queue[kind] \in Seq(Entries)
      BY DEF TypeOK, Entries
    <3>. QED  BY <3>1, CompactFacts
  <2>. HIDE DEF a, b
  <2>3. SubSeq(a \o b, Len(a) + 1, Len(a \o b)) = b
    BY <2>2, SuffixOfConcat
  <2>4. KindOutbox(KeysOf(kind), kind)!Accept
    BY <2>1, <2>3 DEF KindOutbox!Accept, KindOutbox!Suffix, KeysOf
  <2>. QED  BY <2>4 DEF StepsAs, KindOutbox!OutboxNext
<1>3. CASE kind # Draining
  BY <1>1, <1>3, SameQuietView, Stutters
<1>. QED  BY <1>2, <1>3

\* It did not: the batch is back in its place, without jobs no longer listed.
LEMMA RefuseStep ==
  ASSUME TypeOK, TypeOK', QueuesDistinct, EntriesOfKind, NEW kind \in Kinds, PostFail
  PROVE  StepsAs(KeysOf(kind), kind)
<1>1. /\ pc = "restore" /\ Posting /\ ~Posting' /\ UNCHANGED status
      /\ queue' = [queue EXCEPT ![Draining] = Prepend(queue[Draining], batch, Live)]
      /\ Draining \in Kinds /\ queue \in [Kinds -> Seq(Entries)] /\ batch \in Seq(Entries)
  BY KindTypes DEF PostFail, Posting, checkVars, TypeOK, Entries
<1>2. CASE kind = Draining
  <2>. DEFINE all == batch \o queue[kind]
  <2>1. /\ Pending(kind) = Compact(all, Keys) /\ Answer(kind) = "refused"
        /\ Pending(kind)' = Compact(queue'[kind], Keys)
        /\ InPost(kind)' = 0 /\ Answer(kind)' = "none" /\ Live' = Live
    BY <1>1, <1>2, PostingView, QuietViewNext DEF Answer, Live
  <2>2. queue'[kind] = Prepend(queue[kind], batch, Live) /\ queue[kind] \in Seq(Entries)
    BY <1>1, <1>2
  <2>3. batch # <<>> /\ Distinct(batch \o queue[kind], Keys) /\ Live \subseteq Keys
    BY <1>1, <1>2, KindTypes DEF EntriesOfKind, QueuesDistinct, Elements
  <2>4. Pending(kind)' = Compact(all, Live)
    BY <1>1, <2>1, <2>2, <2>3, PrependCompact
  <2>5. OfKind(all, kind) /\ all \in Seq(Entries)
    <3>1. OfKind(batch, kind) /\ OfKind(queue[kind], kind)
      BY <1>1, <1>2 DEF EntriesOfKind
    <3>. QED  BY <1>1, <2>2, <3>1, ElementsConcat, ConcatProperties DEF OfKind
  <2>. HIDE DEF all
  <2>6. (Elements(all) \cap Keys) \ Live \subseteq KeysOf(kind) \ (Live \cap KeysOf(kind))
    BY <2>5, OrphanIsNoKey DEF OfKind
  <2>7. Thins(Compact(all, Live), Compact(all, Keys), KeysOf(kind) \ (Live \cap KeysOf(kind)))
    BY <2>3, <2>5, <2>6, CompactThins
  <2>8. KindOutbox(KeysOf(kind), kind)!Refuse
    BY <2>1, <2>4, <2>7, ThinsIsThinning DEF KindOutbox!Refuse, KeysOf
  <2>. QED  BY <2>8 DEF StepsAs, KindOutbox!OutboxNext
<1>3. CASE kind # Draining
  <2>1. queue'[kind] = queue[kind]
    BY <1>1, <1>3
  <2>. QED  BY <1>1, <1>3, <2>1, SameQuietView, Stutters
<1>. QED  BY <1>2, <1>3

\* A new process has nothing to send.
LEMMA RestartStep ==
  ASSUME TypeOK, TypeOK', NEW kind \in Kinds, Reboot
  PROVE  StepsAs(KeysOf(kind), kind)
<1>1. ~Posting' /\ queue'[kind] = <<>> /\ Live' = {}
  BY DEF Reboot, Posting, Live
<1>2. Pending(kind)' = <<>> /\ InPost(kind)' = 0 /\ Answer(kind)' = "none"
  <2>1. <<>> \in Seq(Entries) /\ Elements(<<>>) \cap Keys = {}
    BY EmptySeq DEF Elements
  <2>2. Compact(<<>>, Keys) = <<>>
    BY <2>1, CompactElements
  <2>. QED  BY <1>1, <2>2, QuietViewNext
<1>3. KindOutbox(KeysOf(kind), kind)!Restart
  BY <1>1, <1>2 DEF KindOutbox!Restart, KeysOf
<1>. QED  BY <1>3 DEF StepsAs, KindOutbox!OutboxNext

LEMMA OutboxStep ==
  ASSUME TypeOK, TypeOK', QueuesDistinct, EntriesOfKind, EntriesOfKind', [Next]_vars, NEW kind \in Kinds
  PROVE  StepsAs(KeysOf(kind), kind)
<1>. DEFINE Goal == StepsAs(KeysOf(kind), kind)
<1>0. SameView(kind) => Goal
  BY Stutters
<1>1. ASSUME ~Posting, ~Posting', UNCHANGED <<queue, status>> PROVE Goal
  <2>1. SameView(kind)
    BY <1>1, SameQuietView
  <2>. QED  BY <2>1, <1>0
<1>2. ASSUME UNCHANGED <<pc, due, batch, queue, status>> PROVE Goal
  <2>1. SameView(kind)
    BY <1>2, SamePostingView
  <2>. QED  BY <2>1, <1>0
<1>. SUFFICES Goal
  BY DEF Goal
<1>. HIDE DEF Goal
<1>3. CASE BeginUpdate \/ UpdateInstalled \/ UpdateFailed \/ Leave \/ TurnToGet \/ TurnToTick
           \/ GetFail \/ TickDockers \/ DrainBegin \/ DrainEnd \/ Wake
  BY <1>1, <1>3
     DEF BeginUpdate, UpdateInstalled, UpdateFailed, Leave, TurnToGet, TurnToTick, GetFail, TickDockers,
         DrainBegin, DrainEnd, Wake, EnterMap, Posting, checkVars
<1>4. ASSUME NEW k \in Keys, TickCancel(k) \/ TickSkip(k) \/ TickUnsupported(k) \/ TickStart(k)
      PROVE  Goal
  BY <1>1, <1>4 DEF TickCancel, TickSkip, TickUnsupported, TickStart, IsNext, Posting, checkVars
<1>5. ASSUME NEW k \in Keys, TickTimeout(k) \/ TickFinish(k) \/ TickRemove(k) PROVE Goal
  BY <1>5, EnqueueStep, RemoveStep DEF Goal
<1>6. ASSUME ServerAnswers \/ SendNothing \/ SendBatch \/ PostReturns \/ PostOK \/ PostFail \/ Reboot PROVE Goal
  BY <1>6, AnswerStep, NothingStep, BatchStep, ReturnStep, AcceptStep, RefuseStep, RestartStep DEF Goal
<1>7. ASSUME NEW k \in Keys, Finish(k) \/ FinishLate(k) \/ FinishLost(k) PROVE Goal
  <2>1. UNCHANGED <<pc, due, batch, queue, status>>
    BY <1>7 DEF Finish, FinishLate, FinishLost, loopVars
  <2>. QED  BY <1>2, <2>1
<1>8. CASE TimePasses \/ UNCHANGED vars
  <2>1. UNCHANGED <<pc, due, batch, queue, status>>
    BY <1>8 DEF TimePasses, vars, loopVars, checkVars
  <2>. QED  BY <1>2, <2>1
<1>. QED
  BY <1>3, <1>4, <1>5, <1>6, <1>7, <1>8 DEF Next, LoopStep, Turn, Tick, Drain

LEMMA OutboxStart == ASSUME Init, NEW kind \in Kinds PROVE KindOutbox(KeysOf(kind), kind)!OutboxInit
<1>1. TypeOK /\ ~Posting /\ queue[kind] = <<>> /\ Live = {}
  BY TypeInit DEF Init, Posting, Live
<1>2. Pending(kind) = <<>> /\ InPost(kind) = 0 /\ Answer(kind) = "none"
  <2>1. <<>> \in Seq(Entries) /\ Elements(<<>>) \cap Keys = {}
    BY EmptySeq DEF Elements
  <2>2. Compact(<<>>, Keys) = <<>>
    BY <2>1, CompactElements
  <2>. QED  BY <1>1, <2>2, QuietView
<1>. QED  BY <1>1, <1>2 DEF KindOutbox!OutboxInit

LEMMA OfKindStart == Init => EntriesOfKind
BY DEF Init, EntriesOfKind, OfKind, Elements, Posting

(* The two instances of Outbox the worker declares are the two kinds' ones.  *)

LEMMA JobOutboxIsKindOutbox ==
  /\ KindOutbox(JobKeys, "jobs")!OutboxInit <=> JobOutbox!OutboxInit
  /\ KindOutbox(JobKeys, "jobs")!OutboxNext <=> JobOutbox!OutboxNext
  /\ UNCHANGED KindOutbox(JobKeys, "jobs")!outboxVars <=> UNCHANGED JobOutbox!outboxVars
<1>1. KindOutbox(JobKeys, "jobs")!OutboxInit <=> JobOutbox!OutboxInit
  BY DEF KindOutbox!OutboxInit, JobOutbox!OutboxInit
<1>2. KindOutbox(JobKeys, "jobs")!OutboxNext <=> JobOutbox!OutboxNext
  <2>1. \A t, s, gone : KindOutbox(JobKeys, "jobs")!IsThinning(t, s, gone) <=> JobOutbox!IsThinning(t, s, gone)
    BY DEF KindOutbox!IsThinning, KindOutbox!Positions, JobOutbox!IsThinning, JobOutbox!Positions
  <2>2. \A id : KindOutbox(JobKeys, "jobs")!Put(id) <=> JobOutbox!Put(id)
    BY DEF KindOutbox!Put, KindOutbox!Members, KindOutbox!Positions, JobOutbox!Put, JobOutbox!Members, JobOutbox!Positions
  <2>3. \A n : KindOutbox(JobKeys, "jobs")!Offer(n) <=> JobOutbox!Offer(n)
    BY DEF KindOutbox!Offer, JobOutbox!Offer
  <2>4. KindOutbox(JobKeys, "jobs")!Return <=> JobOutbox!Return
    BY DEF KindOutbox!Return, JobOutbox!Return
  <2>5. KindOutbox(JobKeys, "jobs")!Accept <=> JobOutbox!Accept
    BY DEF KindOutbox!Accept, KindOutbox!Suffix, JobOutbox!Accept, JobOutbox!Suffix
  <2>6. KindOutbox(JobKeys, "jobs")!Refuse <=> JobOutbox!Refuse
    BY <2>1 DEF KindOutbox!Refuse, JobOutbox!Refuse
  <2>7. KindOutbox(JobKeys, "jobs")!Withdraw <=> JobOutbox!Withdraw
    BY <2>1 DEF KindOutbox!Withdraw, JobOutbox!Withdraw
  <2>8. \A S : KindOutbox(JobKeys, "jobs")!List(S) <=> JobOutbox!List(S)
    BY DEF KindOutbox!List, JobOutbox!List
  <2>9. KindOutbox(JobKeys, "jobs")!Restart <=> JobOutbox!Restart
    BY DEF KindOutbox!Restart, JobOutbox!Restart
  <2>. QED
    BY <2>2, <2>3, <2>4, <2>5, <2>6, <2>7, <2>8, <2>9 DEF KindOutbox!OutboxNext, JobOutbox!OutboxNext
<1>3. UNCHANGED KindOutbox(JobKeys, "jobs")!outboxVars <=> UNCHANGED JobOutbox!outboxVars
  BY DEF KindOutbox!outboxVars, JobOutbox!outboxVars
<1>. QED  BY <1>1, <1>2, <1>3

LEMMA DockerOutboxIsKindOutbox ==
  /\ KindOutbox(DockerKeys, "dockers")!OutboxInit <=> DockerOutbox!OutboxInit
  /\ KindOutbox(DockerKeys, "dockers")!OutboxNext <=> DockerOutbox!OutboxNext
  /\ UNCHANGED KindOutbox(DockerKeys, "dockers")!outboxVars <=> UNCHANGED DockerOutbox!outboxVars
<1>1. KindOutbox(DockerKeys, "dockers")!OutboxInit <=> DockerOutbox!OutboxInit
  BY DEF KindOutbox!OutboxInit, DockerOutbox!OutboxInit
<1>2. KindOutbox(DockerKeys, "dockers")!OutboxNext <=> DockerOutbox!OutboxNext
  <2>1. \A t, s, gone : KindOutbox(DockerKeys, "dockers")!IsThinning(t, s, gone) <=> DockerOutbox!IsThinning(t, s, gone)
    BY DEF KindOutbox!IsThinning, KindOutbox!Positions, DockerOutbox!IsThinning, DockerOutbox!Positions
  <2>2. \A id : KindOutbox(DockerKeys, "dockers")!Put(id) <=> DockerOutbox!Put(id)
    BY DEF KindOutbox!Put, KindOutbox!Members, KindOutbox!Positions, DockerOutbox!Put, DockerOutbox!Members, DockerOutbox!Positions
  <2>3. \A n : KindOutbox(DockerKeys, "dockers")!Offer(n) <=> DockerOutbox!Offer(n)
    BY DEF KindOutbox!Offer, DockerOutbox!Offer
  <2>4. KindOutbox(DockerKeys, "dockers")!Return <=> DockerOutbox!Return
    BY DEF KindOutbox!Return, DockerOutbox!Return
  <2>5. KindOutbox(DockerKeys, "dockers")!Accept <=> DockerOutbox!Accept
    BY DEF KindOutbox!Accept, KindOutbox!Suffix, DockerOutbox!Accept, DockerOutbox!Suffix
  <2>6. KindOutbox(DockerKeys, "dockers")!Refuse <=> DockerOutbox!Refuse
    BY <2>1 DEF KindOutbox!Refuse, DockerOutbox!Refuse
  <2>7. KindOutbox(DockerKeys, "dockers")!Withdraw <=> DockerOutbox!Withdraw
    BY <2>1 DEF KindOutbox!Withdraw, DockerOutbox!Withdraw
  <2>8. \A S : KindOutbox(DockerKeys, "dockers")!List(S) <=> DockerOutbox!List(S)
    BY DEF KindOutbox!List, DockerOutbox!List
  <2>9. KindOutbox(DockerKeys, "dockers")!Restart <=> DockerOutbox!Restart
    BY DEF KindOutbox!Restart, DockerOutbox!Restart
  <2>. QED
    BY <2>2, <2>3, <2>4, <2>5, <2>6, <2>7, <2>8, <2>9 DEF KindOutbox!OutboxNext, DockerOutbox!OutboxNext
<1>3. UNCHANGED KindOutbox(DockerKeys, "dockers")!outboxVars <=> UNCHANGED DockerOutbox!outboxVars
  BY DEF KindOutbox!outboxVars, DockerOutbox!outboxVars
<1>. QED  BY <1>1, <1>2, <1>3

\* The results of monitor jobs wait once each, in the order they came, and leave
\* only as the front of the queue the server has acknowledged, when it stops
\* listing their job, or with the process: every step of the worker is a step of
\* the outbox, or none.
THEOREM JobQueueIsOutbox == Spec => JobResultsDelivered
<1>. DEFINE Inv == TypeOK /\ QueuesDistinct /\ EntriesOfKind
<1>1. "jobs" \in Kinds /\ KeysOf("jobs") = JobKeys
  BY DEF Kinds, KeysOf
<1>2. Init => QueuesDistinct /\ EntriesOfKind
  BY QueuesStart, OfKindStart
<1>3. TypeOK /\ QueuesDistinct /\ [Next]_vars => QueuesDistinct'
  BY DistinctStep
<1>4. Inv /\ [Next]_vars => EntriesOfKind'
  BY OfKindStep
<1>5. Init => JobOutbox!OutboxInit
  BY <1>1, OutboxStart, JobOutboxIsKindOutbox
<1>6. Inv /\ Inv' /\ [Next]_vars => [JobOutbox!OutboxNext]_(JobOutbox!outboxVars)
  <2>1. Inv /\ Inv' /\ [Next]_vars => StepsAs(JobKeys, "jobs")
    BY <1>1, OutboxStep
  <2>. QED  BY <2>1, JobOutboxIsKindOutbox DEF StepsAs
<1>. QED
  BY <1>2, <1>3, <1>4, <1>5, <1>6, TypeCorrect, PTL DEF Spec, JobResultsDelivered, JobOutbox!OutboxSpec

\* The same promise for the results of docker hosts.
THEOREM DockerQueueIsOutbox == Spec => DockerResultsDelivered
<1>. DEFINE Inv == TypeOK /\ QueuesDistinct /\ EntriesOfKind
<1>1. "dockers" \in Kinds /\ KeysOf("dockers") = DockerKeys
  BY DEF Kinds, KeysOf
<1>2. Init => QueuesDistinct /\ EntriesOfKind
  BY QueuesStart, OfKindStart
<1>3. TypeOK /\ QueuesDistinct /\ [Next]_vars => QueuesDistinct'
  BY DistinctStep
<1>4. Inv /\ [Next]_vars => EntriesOfKind'
  BY OfKindStep
<1>5. Init => DockerOutbox!OutboxInit
  BY <1>1, OutboxStart, DockerOutboxIsKindOutbox
<1>6. Inv /\ Inv' /\ [Next]_vars => [DockerOutbox!OutboxNext]_(DockerOutbox!outboxVars)
  <2>1. Inv /\ Inv' /\ [Next]_vars => StepsAs(DockerKeys, "dockers")
    BY <1>1, OutboxStep
  <2>. QED  BY <2>1, DockerOutboxIsKindOutbox DEF StepsAs
<1>. QED
  BY <1>2, <1>3, <1>4, <1>5, <1>6, TypeCorrect, PTL DEF Spec, DockerResultsDelivered, DockerOutbox!OutboxSpec
=============================================================================
