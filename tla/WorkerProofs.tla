---------------------------- MODULE WorkerProofs ----------------------------
(***************************************************************************)
(* Proofs, for every set of checks, every thread count, period and         *)
(* timeout, of the safety properties of Worker.                            *)
(***************************************************************************)
EXTENDS Worker, SendQueueProofs

-----------------------------------------------------------------------------
(* Helpers. *)

Entries == Keys \cup {Orphan}

\* The ranges of the schedule's arithmetic.
LEMMA ScheduleTypes ==
  /\ Epoch \in Int /\ Epoch <= 0 /\ MinRepeat \in Nat /\ MinRepeat > 0
  /\ \A r \in Int : ClampRepeat(r) \in Nat /\ ClampRepeat(r) >= MinRepeat
  /\ \A n \in Int, r \in Int : Bump(n, r) \in Int /\ (~ImmediateErrorRetry => Bump(n, r) = n)
BY ScheduleAssumption, WorkerAssumption
   DEF Epoch, ClampRepeat, AtMost, AtLeast, Bump

LEMMA RawTypes ==
  ASSUME TypeOK, NEW k \in Keys
  PROVE  Repeat(k) \in Int /\ Timeout(k) \in Int
BY WorkerAssumption DEF Repeat, Timeout

\* The running checks are finitely many.
LEMMA RunningFinite ==
  IsFiniteSet(Running) /\ Cardinality(Running) \in Nat
<1>1. Running \in SUBSET Keys /\ IsFiniteSet(Keys)
  BY WorkerAssumption DEF Running
<1>. QED  BY <1>1, FS_Subset, FS_CardinalityType

LEMMA KindTypes ==
  /\ \A k \in Keys : KindOf(k) \in Kinds /\ k \in KeysOf(KindOf(k))
  /\ \A kind \in Kinds : Tracked(kind) \subseteq KeysOf(kind) /\ KeysOf(kind) \subseteq Keys
  /\ Draining \in Kinds /\ Live \subseteq Keys
BY DEF KindOf, Kinds, KeysOf, Tracked, Keys, Draining, Live

\* The queues' operations keep their types.
LEMMA QueueTypes ==
  ASSUME TypeOK
  PROVE  /\ TakeFront(queue[Draining], BatchSize(threads)) \in Seq(Entries)
         /\ TakeRest(queue[Draining], BatchSize(threads)) \in Seq(Entries)
         /\ TakeFront(queue[Draining], BatchSize(threads))
              \o TakeRest(queue[Draining], BatchSize(threads)) = queue[Draining]
<1>1. queue[Draining] \in Seq(Entries)
  BY KindTypes DEF TypeOK, Entries
<1>2. BatchSize(threads) \in Int
  BY SendQueueAssumption DEF TypeOK, BatchSize
<1>. QED  BY <1>1, <1>2, TakeFacts

\* The queue of k once k is entered, and once k is removed.
LEMMA EnqueueType ==
  ASSUME TypeOK, NEW k \in Keys, Enqueue(k)
  PROVE  queue' \in [Kinds -> Seq(Entries)]
<1>. DEFINE q == queue[KindOf(k)]
<1>1. q \in Seq(Entries) /\ k \in Entries /\ KindOf(k) \in Kinds
  BY KindTypes DEF TypeOK, Entries
<1>2. Upsert(q, k) \in Seq(Entries)
  <2>1. Distinct(q, {})
    BY DEF Distinct
  <2>. QED  BY <1>1, <2>1, UpsertFacts
<1>. QED  BY <1>1, <1>2 DEF Enqueue, TypeOK, Entries

Forgotten(q, k) == [i \in DOMAIN q |-> IF q[i] = k THEN Orphan ELSE q[i]]

LEMMA ForgottenType ==
  ASSUME NEW k \in Keys, NEW q \in Seq(Entries)
  PROVE  Forgotten(q, k) \in Seq(Entries) /\ Len(Forgotten(q, k)) = Len(q)
<1>1. Len(q) \in Nat /\ DOMAIN q = 1 .. Len(q) /\ \A i \in 1 .. Len(q) : q[i] \in Entries
  BY LenProperties
<1>2. Forgotten(q, k) \in [1 .. Len(q) -> Entries]
  BY <1>1 DEF Forgotten, Entries
<1>. QED  BY <1>1, <1>2

-----------------------------------------------------------------------------
(* Types. *)

LEMMA TypeInit == Init => TypeOK
<1>. SUFFICES ASSUME Init PROVE TypeOK
  OBVIOUS
<1>1. Epoch \in Int /\ InitialThreads \in Nat
  BY ScheduleTypes, WorkerAssumption
<1>2. /\ clock \in Nat /\ pc \in PCs /\ now \in Int
      /\ cur \in Kinds /\ todo \subseteq KeysOf(cur) /\ slots \in Nat /\ due \subseteq Kinds
      /\ jobSync \in Int /\ sendTime \in [Kinds -> Int]
      /\ threads \in Nat /\ restart \in BOOLEAN /\ pending \in BOOLEAN
  BY <1>1 DEF Init, PCs, Kinds
<1>3. /\ batch \in Seq(Keys \cup {Orphan}) /\ DOMAIN payload \subseteq Keys
      /\ queue \in [Kinds -> Seq(Keys \cup {Orphan})]
  BY EmptySeq DEF Init
<1>4. /\ status \in [Keys -> {"absent", "live", "deleted"}]
      /\ run \in [Keys -> {"idle", "busy", "done"}]
      /\ started \in [Keys -> Int] /\ began \in [Keys -> Int] /\ update \in [Keys -> Int]
      /\ resp \in [Keys -> Responses \cup {NoResponse}] /\ zombies \in [Keys -> SUBSET Int]
      /\ lost \in [Keys -> SUBSET Int]
  BY <1>1 DEF Init
<1>. QED  BY <1>2, <1>3, <1>4 DEF TypeOK

\* The types, in the three parts the actions change separately.
LoopTypes ==
  /\ clock \in Nat /\ pc \in PCs /\ now \in Int
  /\ cur \in Kinds /\ todo \subseteq KeysOf(cur) /\ slots \in Nat /\ due \subseteq Kinds
  /\ jobSync \in Int /\ sendTime \in [Kinds -> Int]
  /\ threads \in Nat /\ restart \in BOOLEAN /\ pending \in BOOLEAN
QueuesTyped ==
  /\ batch \in Seq(Entries) /\ DOMAIN payload \subseteq Keys
  /\ queue \in [Kinds -> Seq(Entries)]
ChecksTyped ==
  /\ status \in [Keys -> {"absent", "live", "deleted"}]
  /\ run \in [Keys -> {"idle", "busy", "done"}]
  /\ started \in [Keys -> Int] /\ began \in [Keys -> Int] /\ update \in [Keys -> Int]
  /\ resp \in [Keys -> Responses \cup {NoResponse}] /\ zombies \in [Keys -> SUBSET Int]
  /\ lost \in [Keys -> SUBSET Int]

LEMMA TypeParts == TypeOK <=> LoopTypes /\ QueuesTyped /\ ChecksTyped
BY DEF TypeOK, LoopTypes, QueuesTyped, ChecksTyped, Entries

LEMMA TypePartsNext == LoopTypes' /\ QueuesTyped' /\ ChecksTyped' => TypeOK'
BY DEF TypeOK, LoopTypes, QueuesTyped, ChecksTyped, Entries

\* What an answer of the server leaves of the checks.
LEMMA SyncTypes ==
  ASSUME TypeOK, NEW listed, NEW sent \in [Keys -> Int], SyncTracked(listed, sent)
  PROVE  ChecksTyped'
BY ScheduleTypes DEF TypeOK, SyncTracked, MergeCursor, ChecksTyped

LEMMA TurnTypes == TypeOK /\ Turn => TypeOK'
<1>. SUFFICES ASSUME TypeOK, Turn PROVE TypeOK'
  OBVIOUS
<1>0. LoopTypes /\ QueuesTyped /\ ChecksTyped
  BY TypeParts
<1>. USE KindTypes, RunningFinite
<1>1. CASE BeginUpdate \/ UpdateInstalled \/ UpdateFailed \/ Leave
  BY <1>0, <1>1, TypePartsNext
  DEF BeginUpdate, UpdateInstalled, UpdateFailed, Leave, LoopTypes, QueuesTyped, ChecksTyped,
      PCs, loopVars, confVars, timeVars, checkVars
<1>2. CASE TurnToGet
  <2>1. LoopTypes'
    <3>1. clock \in Int
      BY <1>0 DEF LoopTypes
    <3>2. /\ pc' = "get" /\ now' = clock /\ pending' = FALSE
          /\ UNCHANGED <<cur, todo, slots, due, threads, restart, clock, jobSync, sendTime>>
      BY <1>2 DEF TurnToGet, timeVars
    <3>. QED  BY <1>0, <3>1, <3>2 DEF LoopTypes, PCs
  <2>2. QueuesTyped' /\ ChecksTyped'
    BY <1>0, <1>2 DEF TurnToGet, QueuesTyped, ChecksTyped, checkVars
  <2>. QED  BY <2>1, <2>2, TypePartsNext
<1>5. CASE TurnToTick
  <2>1. LoopTypes'
    <3>1. clock \in Int
      BY <1>0 DEF LoopTypes
    <3>2. /\ pc' = "tick" /\ now' = clock /\ pending' = FALSE /\ cur' = "jobs"
          /\ todo' = Tracked("jobs") /\ slots' = Cardinality(Running)
          /\ UNCHANGED <<due, threads, restart, clock, jobSync, sendTime>>
      BY <1>5 DEF TurnToTick, EnterMap, timeVars
    <3>. QED  BY <1>0, <3>1, <3>2 DEF LoopTypes, PCs, Kinds
  <2>2. QueuesTyped' /\ ChecksTyped'
    BY <1>0, <1>5 DEF TurnToTick, QueuesTyped, ChecksTyped, checkVars
  <2>. QED  BY <2>1, <2>2, TypePartsNext
<1>3. CASE GetFail
  BY <1>0, <1>3, TypePartsNext
  DEF GetFail, EnterMap, LoopTypes, QueuesTyped, ChecksTyped, PCs, Kinds,
      loopVars, confVars, timeVars, checkVars
<1>4. CASE ServerAnswers
  <2>1. PICK listed \in Lists, recent \in RecentChoices, t \in ThreadChoices \cup {threads},
             r \in RestartOrders, u \in UpdateOrders :
          GetOK(listed, [k \in Keys |-> IF k \in recent THEN clock ELSE Epoch], t, r, u)
    BY <1>4 DEF ServerAnswers
  <2>. DEFINE sent == [k \in Keys |-> IF k \in recent THEN clock ELSE Epoch]
  <2>2. sent \in [Keys -> Int]
    BY <1>0, ScheduleTypes DEF LoopTypes
  <2>. HIDE DEF sent
  <2>3. ChecksTyped'
    BY <2>1, <2>2, SyncTypes DEF GetOK, sent
  <2>4. t \in Nat /\ r \in BOOLEAN /\ u \in BOOLEAN
    BY <1>0, WorkerAssumption DEF LoopTypes
  <2>5. QueuesTyped'
    BY <1>0, <2>1 DEF GetOK, QueuesTyped
  <2>6. LoopTypes'
    BY <1>0, <2>1, <2>4 DEF GetOK, EnterMap, LoopTypes, PCs, Kinds, KeysOf
  <2>. QED  BY <2>3, <2>5, <2>6, TypePartsNext
<1>. QED  BY <1>1, <1>2, <1>3, <1>4, <1>5 DEF Turn

LEMMA TickTypes == ASSUME TypeOK, NEW k \in Keys, Tick(k) PROVE TypeOK'
<1>0. LoopTypes /\ QueuesTyped /\ ChecksTyped
  BY TypeParts
<1>1. now \in Int /\ Repeat(k) \in Int /\ Bump(now, Repeat(k)) \in Int
  BY <1>0, RawTypes, ScheduleTypes DEF LoopTypes
<1>2. CASE TickCancel(k)
  BY <1>0, <1>2, TypePartsNext
  DEF TickCancel, LoopTypes, QueuesTyped, ChecksTyped, PCs, confVars, timeVars, checkVars
<1>3. CASE TickTimeout(k)
  <2>1. ChecksTyped'
    <3>1. started[k] \in Int /\ zombies[k] \in SUBSET Int /\ Epoch \in Int
      BY <1>0, ScheduleTypes DEF ChecksTyped
    <3>2. [start |-> started[k], ok |-> FALSE, by |-> "loop"] \in Responses
      BY <3>1 DEF Responses
    <3>a. AtWork(k) \in SUBSET Int
      BY <3>1 DEF AtWork
    <3>3. /\ zombies' \in [Keys -> SUBSET Int]
          /\ resp' \in [Keys -> Responses \cup {NoResponse}]
      BY <1>0, <1>3, <3>a, <3>2 DEF TickTimeout, ChecksTyped
    <3>4. /\ run' \in [Keys -> {"idle", "busy", "done"}]
          /\ began' \in [Keys -> Int] /\ update' \in [Keys -> Int]
      BY <1>0, <1>1, <1>3, <3>1 DEF TickTimeout, ChecksTyped
    <3>. QED  BY <1>0, <1>3, <3>3, <3>4 DEF TickTimeout, ChecksTyped
  <2>2. QueuesTyped'
    BY <1>0, <1>3, EnqueueType DEF TickTimeout, QueuesTyped
  <2>3. LoopTypes'
    BY <1>0, <1>3 DEF TickTimeout, LoopTypes, PCs, confVars, timeVars
  <2>. QED  BY <2>1, <2>2, <2>3, TypePartsNext
<1>4. CASE TickFinish(k)
  <2>1. ChecksTyped'
    <3>1. started[k] \in Int /\ Epoch \in Int
      BY <1>0, ScheduleTypes DEF ChecksTyped
    <3>2. /\ run' \in [Keys -> {"idle", "busy", "done"}]
          /\ began' \in [Keys -> Int] /\ update' \in [Keys -> Int]
      BY <1>0, <1>1, <1>4, <3>1 DEF TickFinish, ChecksTyped
    <3>. QED  BY <1>0, <1>4, <3>2 DEF TickFinish, ChecksTyped
  <2>2. QueuesTyped'
    BY <1>0, <1>4, EnqueueType DEF TickFinish, QueuesTyped
  <2>3. LoopTypes'
    BY <1>0, <1>4 DEF TickFinish, LoopTypes, confVars, timeVars
  <2>. QED  BY <2>1, <2>2, <2>3, TypePartsNext
<1>5. CASE TickSkip(k)
  BY <1>0, <1>5, TypePartsNext
  DEF TickSkip, LoopTypes, QueuesTyped, ChecksTyped, confVars, timeVars, checkVars
<1>6. CASE TickRemove(k)
  <2>1. ChecksTyped'
    <3>1. AtWork(k) \in SUBSET Int
      BY <1>0 DEF AtWork, ChecksTyped
    <3>2. lost' \in [Keys -> SUBSET Int]
      BY <1>0, <1>6, <3>1 DEF TickRemove, ChecksTyped
    <3>. QED  BY <1>0, <1>6, <3>2, ScheduleTypes DEF TickRemove, ChecksTyped
  <2>2. QueuesTyped'
    <3>1. KindOf(k) \in Kinds /\ queue[KindOf(k)] \in Seq(Entries)
      BY <1>0, KindTypes DEF QueuesTyped
    <3>2. queue' = [queue EXCEPT ![KindOf(k)] = Forgotten(queue[KindOf(k)], k)]
      BY <1>0, <1>6, <3>1 DEF TickRemove, Forgotten, QueuesTyped
    <3>3. Forgotten(queue[KindOf(k)], k) \in Seq(Entries)
      BY <3>1, ForgottenType
    <3>. QED  BY <1>0, <1>6, <3>2, <3>3 DEF TickRemove, QueuesTyped
  <2>3. LoopTypes'
    BY <1>0, <1>6 DEF TickRemove, LoopTypes, confVars, timeVars
  <2>. QED  BY <2>1, <2>2, <2>3, TypePartsNext
<1>7. CASE TickUnsupported(k)
  <2>1. now + Postpone \in Int
    BY <1>1, WorkerAssumption
  <2>. QED  BY <1>0, <1>7, <2>1, TypePartsNext
            DEF TickUnsupported, LoopTypes, QueuesTyped, ChecksTyped, confVars, timeVars
<1>8. CASE TickStart(k)
  BY <1>0, <1>8, TypePartsNext
  DEF TickStart, LoopTypes, QueuesTyped, ChecksTyped, confVars, timeVars
<1>. QED  BY <1>2, <1>3, <1>4, <1>5, <1>6, <1>7, <1>8 DEF Tick

LEMMA DrainTypes == TypeOK /\ Drain => TypeOK'
<1>. SUFFICES ASSUME TypeOK, Drain PROVE TypeOK'
  OBVIOUS
<1>0. LoopTypes /\ QueuesTyped /\ ChecksTyped
  BY TypeParts
<1>1. Draining \in Kinds /\ clock \in Int /\ Live \subseteq Keys
  BY <1>0, KindTypes DEF LoopTypes
<1>2. CASE TickDockers
  BY <1>0, <1>2, TypePartsNext, RunningFinite, KindTypes
  DEF TickDockers, EnterMap, LoopTypes, QueuesTyped, ChecksTyped, PCs, Kinds, confVars,
      timeVars, checkVars
<1>3. CASE DrainBegin
  BY <1>0, <1>3, TypePartsNext, ScheduleTypes
  DEF DrainBegin, LoopTypes, QueuesTyped, ChecksTyped, PCs, Kinds, confVars, timeVars, checkVars
<1>4. CASE SendNothing
  BY <1>0, <1>1, <1>4, TypePartsNext, QueueTypes
  DEF SendNothing, StillDue, Rest, LoopTypes, QueuesTyped, ChecksTyped, confVars, checkVars
<1>5. CASE SendBatch
  <2>1. QueuesTyped'
    BY <1>0, <1>1, <1>5, QueueTypes DEF SendBatch, Taken, Rest, QueuesTyped
  <2>. QED  BY <1>0, <1>5, <2>1, TypePartsNext
            DEF SendBatch, LoopTypes, ChecksTyped, PCs, confVars, timeVars, checkVars
<1>6. CASE PostOK
  <2>1. QueuesTyped'
    BY <1>0, <1>6, EmptySeq DEF PostOK, QueuesTyped
  <2>2. ChecksTyped'
    BY <1>0, <1>6 DEF PostOK, ChecksTyped
  <2>3. LoopTypes'
    BY <1>0, <1>1, <1>6 DEF PostOK, StillDue, LoopTypes, PCs, confVars
  <2>. QED  BY <2>1, <2>2, <2>3, TypePartsNext
<1>7. CASE PostFail
  <2>1. Prepend(queue[Draining], batch, Live) \in Seq(Entries)
    <3>1. Distinct(queue[Draining], {})
      BY DEF Distinct
    <3>. QED  BY <1>0, <1>1, <3>1, PrependFacts DEF QueuesTyped
  <2>2. QueuesTyped'
    BY <1>0, <1>1, <1>7, <2>1, EmptySeq DEF PostFail, QueuesTyped
  <2>. QED  BY <1>0, <1>1, <1>7, <2>2, TypePartsNext
            DEF PostFail, LoopTypes, ChecksTyped, PCs, confVars, checkVars
<1>8. CASE PostReturns \/ DrainEnd \/ Wake
  BY <1>0, <1>8, TypePartsNext
  DEF PostReturns, DrainEnd, Wake, LoopTypes, QueuesTyped, ChecksTyped, PCs, confVars, timeVars, checkVars
<1>. QED  BY <1>2, <1>3, <1>4, <1>5, <1>6, <1>7, <1>8 DEF Drain

LEMMA OtherTypes ==
  ASSUME TypeOK,
         \/ \E k \in Keys : Finish(k) \/ FinishLate(k) \/ FinishLost(k)
         \/ TimePasses \/ Reboot \/ UNCHANGED vars
  PROVE  TypeOK'
<1>0. LoopTypes /\ QueuesTyped /\ ChecksTyped
  BY TypeParts
<1>1. ASSUME NEW k \in Keys, Finish(k) PROVE TypeOK'
  BY <1>0, <1>1, TypePartsNext
  DEF Finish, Responses, LoopTypes, QueuesTyped, ChecksTyped, loopVars, confVars, timeVars
<1>2. ASSUME NEW k \in Keys, FinishLate(k) PROVE TypeOK'
  <2>1. PICK s \in zombies[k], ok \in BOOLEAN :
          /\ resp' = [resp EXCEPT ![k] = [start |-> s, ok |-> ok, by |-> "handler"]]
          /\ zombies' = [zombies EXCEPT ![k] = @ \ {s}]
    BY <1>2 DEF FinishLate
  <2>2. s \in Int
    BY <1>0 DEF ChecksTyped
  <2>3. ChecksTyped'
    BY <1>0, <1>2, <2>1, <2>2 DEF FinishLate, ChecksTyped, Responses
  <2>. QED  BY <1>0, <1>2, <2>3, TypePartsNext
            DEF FinishLate, LoopTypes, QueuesTyped, loopVars, confVars, timeVars
<1>6. ASSUME NEW k \in Keys, FinishLost(k) PROVE TypeOK'
  <2>1. lost' \in [Keys -> SUBSET Int]
    BY <1>0, <1>6 DEF FinishLost, ChecksTyped
  <2>. QED  BY <1>0, <1>6, <2>1, TypePartsNext
            DEF FinishLost, LoopTypes, QueuesTyped, ChecksTyped, loopVars, confVars, timeVars
<1>3. CASE TimePasses
  BY <1>0, <1>3, TypePartsNext
  DEF TimePasses, LoopTypes, QueuesTyped, ChecksTyped, loopVars, confVars, checkVars
<1>4. CASE Reboot
  <2>1. Epoch \in Int /\ InitialThreads \in Nat
    BY ScheduleTypes, WorkerAssumption
  <2>2. QueuesTyped'
    BY <1>4, EmptySeq DEF Reboot, QueuesTyped
  <2>3. ChecksTyped'
    BY <1>4, <2>1 DEF Reboot, ChecksTyped
  <2>4. LoopTypes'
    BY <1>0, <1>4, <2>1 DEF Reboot, LoopTypes, PCs, Kinds
  <2>. QED  BY <2>2, <2>3, <2>4, TypePartsNext
<1>5. CASE UNCHANGED vars
  BY <1>0, <1>5, TypePartsNext
  DEF vars, LoopTypes, QueuesTyped, ChecksTyped, loopVars, confVars, timeVars, checkVars
<1>. QED  BY <1>1, <1>2, <1>3, <1>4, <1>5, <1>6

LEMMA TypeStep == TypeOK /\ [Next]_vars => TypeOK'
<1>. SUFFICES ASSUME TypeOK, [Next]_vars PROVE TypeOK'
  OBVIOUS
<1>. QED  BY TurnTypes, TickTypes, DrainTypes, OtherTypes DEF Next, LoopStep

\* Every variable keeps its type; the ids still to be ticked are of one map.
THEOREM TypeCorrect == Spec => []TypeOK
<1>. QED  BY TypeInit, TypeStep, PTL DEF Spec

-----------------------------------------------------------------------------
(* The steps that leave every run as it is. *)

Quiet ==
  \/ BeginUpdate \/ UpdateInstalled \/ UpdateFailed \/ Leave \/ TurnToGet \/ TurnToTick
  \/ GetFail
  \/ \E k \in Keys : TickCancel(k) \/ TickSkip(k) \/ TickUnsupported(k)
  \/ Drain \/ TimePasses \/ UNCHANGED vars

LEMMA NextCases ==
  ASSUME [Next]_vars
  PROVE  \/ Quiet \/ ServerAnswers
         \/ \E k \in Keys : \/ TickTimeout(k) \/ TickFinish(k) \/ TickRemove(k)
                            \/ TickStart(k) \/ Finish(k) \/ FinishLate(k)
                            \/ FinishLost(k)
         \/ Reboot
BY DEF Next, LoopStep, Turn, Tick, Quiet

LEMMA QuietLeavesRuns == Quiet => UNCHANGED <<status, run, started, zombies, lost>>
<1>. SUFFICES ASSUME Quiet PROVE UNCHANGED <<status, run, started, zombies, lost>>
  OBVIOUS
<1>1. CASE BeginUpdate \/ UpdateInstalled \/ UpdateFailed \/ Leave \/ TurnToGet \/ TurnToTick
  BY <1>1 DEF BeginUpdate, UpdateInstalled, UpdateFailed, Leave, TurnToGet, TurnToTick, checkVars
<1>2. CASE GetFail \/ TimePasses \/ UNCHANGED vars
  BY <1>2 DEF GetFail, TimePasses, vars, checkVars
<1>3. CASE \E k \in Keys : TickCancel(k) \/ TickSkip(k) \/ TickUnsupported(k)
  BY <1>3 DEF TickCancel, TickSkip, TickUnsupported, checkVars
<1>4. CASE Drain
  BY <1>4 DEF Drain, TickDockers, DrainBegin, SendNothing, SendBatch, PostReturns, PostOK, PostFail,
              DrainEnd, Wake, checkVars
<1>. QED  BY <1>1, <1>2, <1>3, <1>4 DEF Quiet

-----------------------------------------------------------------------------
(* Obedient handlers are at work only for runs the loop waits for.             *)

LEMMA CountedStep == TypeOK /\ HandlersAreCounted /\ [Next]_vars => HandlersAreCounted'
<1>. SUFFICES ASSUME TypeOK, HandlersAreCounted, [Next]_vars, ~MayHang
              PROVE  HandlersAreCounted'
  BY DEF HandlersAreCounted
<1>a. \A k \in Keys : zombies[k] = {} /\ lost[k] = {}
  BY DEF HandlersAreCounted
<1>b. \A k \in Keys : run[k] = "busy" => status[k] # "absent"
  BY DEF HandlersAreCounted
<1>c. DOMAIN zombies = Keys /\ DOMAIN lost = Keys
  BY DEF TypeOK
<1>1. CASE Quiet
  BY <1>1, QuietLeavesRuns DEF HandlersAreCounted
<1>2. CASE ServerAnswers
  BY <1>2 DEF ServerAnswers, GetOK, SyncTracked, HandlersAreCounted, TypeOK
<1>3. ASSUME NEW k \in Keys, TickTimeout(k) PROVE HandlersAreCounted'
  <2>1. run[k] = "done"
    BY <1>3 DEF TickTimeout, WaitDone
  <2>2. AtWork(k) = {}
    BY <1>a, <2>1 DEF AtWork
  <2>3. \A j \in Keys : zombies'[j] = {} /\ lost'[j] = {}
    BY <1>a, <1>c, <1>3, <2>2 DEF TickTimeout
  <2>4. \A j \in Keys : run'[j] = "busy" => status'[j] # "absent"
    BY <1>b, <1>3 DEF TickTimeout, TypeOK
  <2>. QED  BY <2>3, <2>4 DEF HandlersAreCounted
<1>4. ASSUME NEW k \in Keys, TickFinish(k) \/ TickStart(k) PROVE HandlersAreCounted'
  BY <1>4 DEF TickFinish, TickStart, HandlersAreCounted, TypeOK
<1>5. ASSUME NEW k \in Keys, TickRemove(k) PROVE HandlersAreCounted'
  <2>0. run[k] = "idle"
    BY <1>5 DEF TickRemove, Removable
  <2>1. AtWork(k) = {}
    BY <1>a, <2>0 DEF AtWork
  <2>2. \A j \in Keys : zombies'[j] = {} /\ lost'[j] = {}
    BY <1>a, <1>c, <1>5, <2>1 DEF TickRemove
  <2>3. \A j \in Keys : run'[j] = "busy" => status'[j] # "absent"
    BY <1>b, <1>5 DEF TickRemove, TypeOK
  <2>. QED  BY <2>2, <2>3 DEF HandlersAreCounted
<1>6. ASSUME NEW k \in Keys, Finish(k) \/ FinishLate(k) \/ FinishLost(k) PROVE HandlersAreCounted'
  BY <1>a, <1>b, <1>6 DEF Finish, FinishLate, FinishLost, HandlersAreCounted, TypeOK
<1>7. CASE Reboot
  BY <1>7 DEF Reboot, HandlersAreCounted
<1>. QED  BY NextCases, <1>1, <1>2, <1>3, <1>4, <1>5, <1>6, <1>7

-----------------------------------------------------------------------------
(* tickMap's count of running checks is never too low: starts raise it, and   *)
(* what ends during the tick only makes it too high.                          *)

SlotsCover == pc \in {"tick", "wait"} => Cardinality(Running) <= slots

\* When no run begins, the running checks do not become more.
LEMMA FewerRunning ==
  ASSUME Running' \subseteq Running
  PROVE  Cardinality(Running') <= Cardinality(Running) /\ Cardinality(Running') \in Nat
BY RunningFinite, FS_Subset, FS_CardinalityType

\* A start makes one more.
LEMMA OneMoreRunning ==
  ASSUME NEW k \in Keys, Running' \subseteq Running \cup {k}
  PROVE  Cardinality(Running') <= Cardinality(Running) + 1 /\ Cardinality(Running') \in Nat
<1>1. /\ IsFiniteSet(Running \cup {k}) /\ Cardinality(Running) \in Nat
      /\ Cardinality(Running \cup {k}) <= Cardinality(Running) + 1
  <2>1. IsFiniteSet(Running) /\ Cardinality(Running) \in Nat
    BY RunningFinite
  <2>2. /\ IsFiniteSet(Running \cup {k})
        /\ Cardinality(Running \cup {k}) =
             IF k \in Running THEN Cardinality(Running) ELSE Cardinality(Running) + 1
    BY <2>1, FS_AddElement
  <2>. QED  BY <2>1, <2>2
<1>2. /\ IsFiniteSet(Running') /\ Cardinality(Running') <= Cardinality(Running \cup {k})
  BY <1>1, FS_Subset
<1>. QED  BY <1>1, <1>2, FS_CardinalityType

\* Only entering a map and starting a check change the count while a map is ticked.
LEMMA SlotsQuiet ==
  ASSUME TypeOK, SlotsCover, Quiet
  PROVE  SlotsCover'
<1>1. Running' = Running /\ Cardinality(Running) \in Nat
  BY QuietLeavesRuns, RunningFinite DEF Running
<1>2. CASE BeginUpdate \/ UpdateInstalled \/ UpdateFailed \/ Leave \/ TurnToGet
  BY <1>2 DEF BeginUpdate, UpdateInstalled, UpdateFailed, Leave, TurnToGet, SlotsCover
<1>3. CASE TurnToTick \/ TickDockers
  BY <1>1, <1>3 DEF TurnToTick, TickDockers, EnterMap, SlotsCover
<1>4. CASE GetFail
  BY <1>1, <1>4 DEF GetFail, EnterMap, SlotsCover
<1>5. CASE \E k \in Keys : TickCancel(k) \/ TickSkip(k) \/ TickUnsupported(k)
  BY <1>1, <1>5 DEF TickCancel, TickSkip, TickUnsupported, IsNext, SlotsCover
<1>6. CASE DrainBegin \/ SendNothing \/ SendBatch \/ PostReturns \/ PostOK \/ PostFail \/ DrainEnd \/ Wake
  BY <1>6 DEF DrainBegin, SendNothing, SendBatch, PostReturns, PostOK, PostFail, DrainEnd, Wake, SlotsCover
<1>7. CASE TimePasses \/ UNCHANGED vars
  BY <1>1, <1>7 DEF TimePasses, vars, loopVars, SlotsCover
<1>. QED  BY <1>2, <1>3, <1>4, <1>5, <1>6, <1>7 DEF Quiet, Drain

LEMMA SlotsStep == TypeOK /\ SlotsCover /\ [Next]_vars => SlotsCover'
<1>. SUFFICES ASSUME TypeOK, SlotsCover, [Next]_vars PROVE SlotsCover'
  OBVIOUS
<1>. USE RunningFinite
<1>1. CASE Quiet
  BY <1>1, SlotsQuiet
<1>2. CASE ServerAnswers
  <2>1. run' = run /\ (pc' = "top" \/ slots' = Cardinality(Running))
    BY <1>2 DEF ServerAnswers, GetOK, SyncTracked, EnterMap
  <2>2. Running' = Running
    BY <2>1 DEF Running
  <2>. QED  BY <2>1, <2>2 DEF SlotsCover
<1>3. ASSUME NEW k \in Keys, TickTimeout(k) \/ TickFinish(k) \/ TickRemove(k) PROVE SlotsCover'
  <2>1. Running' \subseteq Running /\ slots' = slots /\ pc \in {"tick", "wait"}
    BY <1>3 DEF TickTimeout, TickFinish, TickRemove, IsNext, Running, TypeOK
  <2>. QED  BY <2>1, FewerRunning DEF SlotsCover, TypeOK
<1>4. ASSUME NEW k \in Keys, TickStart(k) PROVE SlotsCover'
  <2>1. Running' \subseteq Running \cup {k} /\ slots' = slots + 1 /\ pc \in {"tick", "wait"}
    BY <1>4 DEF TickStart, IsNext, Running, TypeOK
  <2>2. Cardinality(Running') <= Cardinality(Running) + 1 /\ Cardinality(Running') \in Nat
    BY <2>1, OneMoreRunning
  <2>3. Cardinality(Running) <= slots /\ slots \in Nat /\ Cardinality(Running) \in Nat
    BY <2>1, RunningFinite DEF SlotsCover, TypeOK
  <2>. QED  BY <2>1, <2>2, <2>3 DEF SlotsCover
<1>5. ASSUME NEW k \in Keys, Finish(k) \/ FinishLate(k) \/ FinishLost(k) PROVE SlotsCover'
  <2>1. Running' \subseteq Running /\ slots' = slots /\ pc' = pc
    BY <1>5 DEF Finish, FinishLate, FinishLost, Running, loopVars, TypeOK
  <2>. QED  BY <2>1, FewerRunning DEF SlotsCover, TypeOK
<1>6. CASE Reboot
  BY <1>6 DEF Reboot, SlotsCover
<1>. QED  BY NextCases, <1>1, <1>2, <1>3, <1>4, <1>5, <1>6

\* Only TickStart begins a run.
LEMMA StartsAreTickStarts ==
  ASSUME TypeOK, [Next]_vars, NEW k \in Keys, Starts(k)
  PROVE  TickStart(k)
<1>1. ~Quiet
  BY QuietLeavesRuns DEF Starts
<1>2. ~ServerAnswers
  BY DEF ServerAnswers, GetOK, SyncTracked, Starts
<1>3. ASSUME NEW j \in Keys, TickTimeout(j) \/ TickFinish(j) \/ TickRemove(j) PROVE FALSE
  BY <1>3 DEF TickTimeout, TickFinish, TickRemove, Starts, TypeOK
<1>4. ASSUME NEW j \in Keys, Finish(j) \/ FinishLate(j) \/ FinishLost(j) PROVE FALSE
  BY <1>4 DEF Finish, FinishLate, FinishLost, Starts, TypeOK
<1>5. ~Reboot
  BY DEF Reboot, Starts
<1>6. ASSUME NEW j \in Keys, TickStart(j) PROVE j = k
  BY <1>6 DEF TickStart, Starts, TypeOK
<1>. QED  BY NextCases, <1>1, <1>2, <1>3, <1>4, <1>5, <1>6

LEMMA SlotsRespected ==
  ASSUME TypeOK, SlotsCover, [Next]_vars, NEW k \in Keys, Starts(k)
  PROVE  Cardinality(Running') <= threads
<1>1. TickStart(k)
  BY StartsAreTickStarts
<1>2. /\ Running' \subseteq Running \cup {k} /\ pc = "tick" /\ slots < threads
      /\ threads' = threads
  BY <1>1 DEF TickStart, IsNext, HasSlot, confVars, Running, TypeOK
<1>3. Cardinality(Running') <= Cardinality(Running) + 1 /\ Cardinality(Running') \in Nat
  BY <1>2, OneMoreRunning
<1>4. /\ Cardinality(Running) <= slots /\ slots \in Nat /\ Cardinality(Running) \in Nat
      /\ threads \in Nat
  BY <1>2, RunningFinite DEF SlotsCover, TypeOK
<1>. QED  BY <1>2, <1>3, <1>4

-----------------------------------------------------------------------------
(* The loop's reading of the clock and the starts of the runs.                *)

\* Every start is a reading of the clock, and none is later than the reading
\* the present turn works with.
StartsArePast ==
  /\ \A k \in Keys : Epoch <= started[k] /\ started[k] <= clock
  /\ pc \in {"get", "tick", "wait"} => now <= clock /\ \A k \in Keys : started[k] <= now

LEMMA PastQuiet ==
  ASSUME TypeOK, StartsArePast, Quiet
  PROVE  StartsArePast'
<1>1. started' = started /\ clock \in Int /\ \A k \in Keys : started[k] \in Int
  BY QuietLeavesRuns DEF TypeOK
<1>2. CASE BeginUpdate \/ UpdateInstalled \/ UpdateFailed \/ Leave
  BY <1>1, <1>2 DEF BeginUpdate, UpdateInstalled, UpdateFailed, Leave, StartsArePast, timeVars
<1>3. CASE TurnToGet \/ TurnToTick
  <2>1. now' = clock /\ clock' = clock
    BY <1>3 DEF TurnToGet, TurnToTick, timeVars
  <2>. QED  BY <1>1, <2>1 DEF StartsArePast
<1>4. CASE GetFail
  <2>1. now' = now /\ clock' = clock /\ (pc = "get" \/ pc' = "top")
    BY <1>4 DEF GetFail
  <2>. QED  BY <1>1, <2>1 DEF StartsArePast
<1>5. CASE \E k \in Keys : TickCancel(k) \/ TickSkip(k) \/ TickUnsupported(k)
  <2>1. now' = now /\ clock' = clock /\ pc \in {"tick", "wait"}
    BY <1>5 DEF TickCancel, TickSkip, TickUnsupported, IsNext, timeVars
  <2>. QED  BY <1>1, <2>1 DEF StartsArePast
<1>6. CASE TickDockers
  <2>1. now' = now /\ clock' = clock /\ pc = "tick"
    BY <1>6 DEF TickDockers, timeVars
  <2>. QED  BY <1>1, <2>1 DEF StartsArePast
<1>7. CASE DrainBegin \/ SendNothing \/ SendBatch \/ PostReturns \/ PostOK \/ PostFail \/ DrainEnd \/ Wake
  <2>1. clock' = clock /\ pc' \notin {"get", "tick", "wait"}
    BY <1>7 DEF DrainBegin, SendNothing, SendBatch, PostReturns, PostOK, PostFail, DrainEnd, Wake, timeVars
  <2>. QED  BY <1>1, <2>1 DEF StartsArePast
<1>8. CASE TimePasses \/ UNCHANGED vars
  <2>1. (clock' = clock \/ clock' = clock + 1) /\ now' = now /\ pc' = pc
    BY <1>8 DEF TimePasses, vars, loopVars, timeVars
  <2>2. now \in Int
    BY DEF TypeOK
  <2>. QED  BY <1>1, <2>1, <2>2 DEF StartsArePast
<1>. QED  BY <1>2, <1>3, <1>4, <1>5, <1>6, <1>7, <1>8 DEF Quiet, Drain

LEMMA PastStep == TypeOK /\ StartsArePast /\ [Next]_vars => StartsArePast'
<1>. SUFFICES ASSUME TypeOK, StartsArePast, [Next]_vars PROVE StartsArePast'
  OBVIOUS
<1>0. /\ Epoch \in Int /\ Epoch <= 0 /\ clock \in Nat /\ now \in Int
      /\ started \in [Keys -> Int]
  BY ScheduleTypes DEF TypeOK
<1>1. CASE Quiet
  BY <1>1, PastQuiet
<1>2. CASE ServerAnswers
  <2>1. started' = started /\ now' = now /\ clock' = clock /\ (pc = "get" \/ pc' = "top")
    BY <1>2 DEF ServerAnswers, GetOK, SyncTracked
  <2>. QED  BY <2>1 DEF StartsArePast
<1>3. ASSUME NEW k \in Keys, TickTimeout(k) \/ TickFinish(k) PROVE StartsArePast'
  <2>1. started' = started /\ now' = now /\ clock' = clock /\ pc \in {"tick", "wait"}
    BY <1>3 DEF TickTimeout, TickFinish, IsNext, timeVars
  <2>. QED  BY <2>1 DEF StartsArePast
<1>4. ASSUME NEW k \in Keys, TickRemove(k) PROVE StartsArePast'
  <2>1. /\ started' = [started EXCEPT ![k] = Epoch] /\ now' = now /\ clock' = clock
        /\ pc = "tick"
    BY <1>4 DEF TickRemove, IsNext, timeVars
  <2>2. Epoch <= started[k] /\ started[k] <= clock /\ started[k] <= now
    BY <2>1 DEF StartsArePast
  <2>3. \A j \in Keys : started'[j] = IF j = k THEN Epoch ELSE started[j]
    BY <1>0, <2>1
  <2>. QED  BY <1>0, <2>1, <2>2, <2>3 DEF StartsArePast
<1>5. ASSUME NEW k \in Keys, TickStart(k) PROVE StartsArePast'
  <2>1. /\ started' = [started EXCEPT ![k] = now] /\ now' = now /\ clock' = clock
        /\ pc = "tick"
    BY <1>5 DEF TickStart, IsNext, timeVars
  <2>2. Epoch <= started[k] /\ started[k] <= now /\ now <= clock
    BY <2>1 DEF StartsArePast
  <2>3. \A j \in Keys : started'[j] = IF j = k THEN now ELSE started[j]
    BY <1>0, <2>1
  <2>. QED  BY <1>0, <2>1, <2>2, <2>3 DEF StartsArePast
<1>6. ASSUME NEW k \in Keys, Finish(k) \/ FinishLate(k) \/ FinishLost(k) PROVE StartsArePast'
  BY <1>6 DEF Finish, FinishLate, FinishLost, StartsArePast, loopVars, timeVars
<1>7. CASE Reboot
  <2>1. /\ pc' = "init" /\ clock' = clock /\ started' = [k \in Keys |-> Epoch]
    BY <1>7 DEF Reboot
  <2>. QED  BY <1>0, <2>1 DEF StartsArePast
<1>. QED  BY NextCases, <1>1, <1>2, <1>3, <1>4, <1>5, <1>6, <1>7

-----------------------------------------------------------------------------
(* When handlers obey their cancellation no given-up handler is at work, and   *)
(* a job's result is of its latest run or of an earlier one.                   *)

ResultsArePast ==
  ~MayHang => \A k \in Keys : /\ zombies[k] = {}
                              /\ resp[k] # NoResponse => resp[k].start <= started[k]

\* The steps that leave the runs alone drop responses and make none.
LEMMA QuietResponses == Quiet => \A k \in Keys : resp'[k] = NoResponse \/ resp'[k] = resp[k]
<1>. SUFFICES ASSUME Quiet PROVE \A k \in Keys : resp'[k] = NoResponse \/ resp'[k] = resp[k]
  OBVIOUS
<1>1. CASE BeginUpdate \/ UpdateInstalled \/ UpdateFailed \/ Leave \/ TurnToGet
           \/ TurnToTick \/ GetFail \/ TimePasses \/ UNCHANGED vars
  BY <1>1 DEF BeginUpdate, UpdateInstalled, UpdateFailed, Leave, TurnToGet, TurnToTick,
              GetFail, TimePasses, vars, checkVars
<1>2. CASE \E k \in Keys : TickCancel(k) \/ TickSkip(k) \/ TickUnsupported(k)
  BY <1>2 DEF TickCancel, TickSkip, TickUnsupported, checkVars
<1>3. CASE TickDockers \/ DrainBegin \/ SendNothing \/ SendBatch \/ PostReturns \/ PostFail \/ DrainEnd
           \/ Wake
  BY <1>3 DEF TickDockers, DrainBegin, SendNothing, SendBatch, PostReturns, PostFail, DrainEnd, Wake,
              checkVars
<1>4. CASE PostOK
  BY <1>4 DEF PostOK
<1>. QED  BY <1>1, <1>2, <1>3, <1>4 DEF Quiet, Drain

\* What the steps do to the responses.
LEMMA ResponseSteps ==
  ASSUME TypeOK, StartsArePast, ResultsArePast, [Next]_vars, ~MayHang
  PROVE  \A k \in Keys :
           /\ zombies'[k] = {}
           /\ \/ resp'[k] = NoResponse
              \/ resp'[k] = resp[k] /\ started'[k] >= started[k]
              \/ resp'[k].start = started[k] /\ started'[k] = started[k]
<1>0. /\ Epoch \in Int /\ now \in Int /\ started \in [Keys -> Int]
      /\ zombies = [k \in Keys |-> {}]
      /\ resp \in [Keys -> Responses \cup {NoResponse}]
  BY ScheduleTypes DEF TypeOK, ResultsArePast
<1>. DEFINE Good == \A k \in Keys :
                      /\ zombies'[k] = {}
                      /\ \/ resp'[k] = NoResponse
                         \/ resp'[k] = resp[k] /\ started'[k] >= started[k]
                         \/ resp'[k].start = started[k] /\ started'[k] = started[k]
<1>1. CASE Quiet
  <2>1. \A k \in Keys : resp'[k] = NoResponse \/ resp'[k] = resp[k]
    BY <1>1, QuietResponses
  <2>. QED  BY <1>0, <1>1, <2>1, QuietLeavesRuns
<1>2. CASE ServerAnswers
  <2>1. /\ zombies' = zombies /\ started' = started
        /\ \A k \in Keys : resp'[k] = NoResponse \/ resp'[k] = resp[k]
    BY <1>2 DEF ServerAnswers, GetOK, SyncTracked
  <2>. QED  BY <1>0, <2>1
<1>3. ASSUME NEW k \in Keys, TickTimeout(k) PROVE Good
  <2>1. run[k] = "done"
    BY <1>3 DEF TickTimeout, WaitDone
  <2>2. zombies' = [zombies EXCEPT ![k] = AtWork(k)] /\ AtWork(k) = zombies[k]
    BY <1>3, <2>1 DEF TickTimeout, AtWork
  <2>3. zombies' = zombies
    BY <1>0, <2>2
  <2>4. started' = started
    BY <1>3 DEF TickTimeout
  <2>5. /\ \A j \in Keys \ {k} : resp'[j] = resp[j]
        /\ resp'[k] = IF resp[k] = NoResponse
                      THEN [start |-> started[k], ok |-> FALSE, by |-> "loop"] ELSE resp[k]
    BY <1>0, <1>3 DEF TickTimeout
  <2>. QED  BY <1>0, <2>3, <2>4, <2>5
<1>4. ASSUME NEW k \in Keys, TickFinish(k) PROVE Good
  <2>1. zombies' = zombies /\ started' = started /\ resp' = resp
    BY <1>4 DEF TickFinish
  <2>. QED  BY <1>0, <2>1
<1>5. ASSUME NEW k \in Keys, TickRemove(k) PROVE Good
  <2>1. /\ zombies' = [zombies EXCEPT ![k] = {}] /\ started' = [started EXCEPT ![k] = Epoch]
        /\ resp' = [resp EXCEPT ![k] = NoResponse]
    BY <1>5 DEF TickRemove
  <2>. QED  BY <1>0, <2>1
<1>6. ASSUME NEW k \in Keys, TickStart(k) PROVE Good
  <2>1. /\ zombies' = zombies /\ resp' = resp /\ started' = [started EXCEPT ![k] = now]
        /\ started[k] <= now
    BY <1>6 DEF TickStart, IsNext, StartsArePast
  <2>2. \A j \in Keys : started'[j] >= started[j]
    BY <1>0, <2>1
  <2>. QED  BY <1>0, <2>1, <2>2
<1>7. ASSUME NEW k \in Keys, Finish(k) PROVE Good
  <2>1. PICK ok \in BOOLEAN :
          resp' = [resp EXCEPT ![k] = [start |-> started[k], ok |-> ok, by |-> "handler"]]
    BY <1>7 DEF Finish
  <2>2. zombies' = zombies /\ started' = started
    BY <1>7 DEF Finish
  <2>3. /\ \A j \in Keys \ {k} : resp'[j] = resp[j]
        /\ resp'[k].start = started[k]
    BY <1>0, <2>1
  <2>. QED  BY <1>0, <2>2, <2>3
<1>8. ASSUME NEW k \in Keys, FinishLate(k) \/ FinishLost(k) PROVE Good
  <2>1. ~FinishLate(k)
    BY <1>0 DEF FinishLate
  <2>. QED  BY <1>0, <1>8, <2>1 DEF FinishLost
<1>9. CASE Reboot
  BY <1>9 DEF Reboot
<1>. QED  BY NextCases, <1>1, <1>2, <1>3, <1>4, <1>5, <1>6, <1>7, <1>8, <1>9

LEMMA ResultsStep ==
  TypeOK /\ StartsArePast /\ ResultsArePast /\ [Next]_vars => ResultsArePast' /\ ResultNotOlder
<1>. SUFFICES ASSUME TypeOK, StartsArePast, ResultsArePast, [Next]_vars
              PROVE  ResultsArePast' /\ ResultNotOlder
  OBVIOUS
<1>1. CASE MayHang
  BY <1>1 DEF ResultsArePast, ResultNotOlder
<1>2. CASE ~MayHang
  <2>1. TypeOK'
    BY TypeStep
  <2>2. ASSUME NEW k \in Keys
        PROVE  /\ zombies'[k] = {}
               /\ resp'[k] # NoResponse => resp'[k].start <= started'[k]
               /\ resp[k] # NoResponse /\ resp'[k] # NoResponse => resp[k].start <= resp'[k].start
    <3>1. /\ zombies'[k] = {}
          /\ \/ resp'[k] = NoResponse
             \/ resp'[k] = resp[k] /\ started'[k] >= started[k]
             \/ resp'[k].start = started[k] /\ started'[k] = started[k]
      BY <1>2, ResponseSteps
    <3>2. started[k] \in Int /\ started'[k] \in Int
      BY <2>1 DEF TypeOK
    <3>3. resp[k] # NoResponse => resp[k].start \in Int /\ resp[k].start <= started[k]
      BY <1>2 DEF TypeOK, Responses, ResultsArePast
    <3>. QED  BY <3>1, <3>2, <3>3
  <2>. QED  BY <2>2 DEF ResultsArePast, ResultNotOlder
<1>. QED  BY <1>1, <1>2

-----------------------------------------------------------------------------
(* Whatever its handlers do, an object holds only results of its own runs.     *)

\* A run begins at a reading of the clock, which no unstarted object holds.
TickIsPresent == pc \in {"get", "tick", "wait"} => now >= 0

\* The start of every run of an object, given up or not, is one it has had.
RunsAreOwn ==
  \A k \in Keys :
    /\ run[k] # "idle" => started[k] # Epoch
    /\ \A s \in zombies[k] : started[k] # Epoch /\ s <= started[k]

\* In waitDone, the check that is waited for has not been settled.
WaitsForRun ==
  pc = "wait" => \A k \in todo : (\A j \in todo \ {k} : Before(k, j)) => run[k] # "idle"

LEMMA WaitStep == TypeOK /\ WaitsForRun /\ [Next]_vars => WaitsForRun'
<1>. SUFFICES ASSUME TypeOK, WaitsForRun, [Next]_vars PROVE WaitsForRun'
  OBVIOUS
<1>1. ASSUME pc' = "wait", pc = "wait", todo' = todo, update' = update, status' = status,
             \A k \in Keys : run'[k] = "idle" => run[k] = "idle"
      PROVE  WaitsForRun'
  <2>1. \A j, k : Before(j, k)' <=> Before(j, k)
    BY <1>1 DEF Before, Overdue, Repeat
  <2>2. todo \subseteq Keys
    BY KindTypes DEF TypeOK
  <2>. QED  BY <1>1, <2>1, <2>2 DEF WaitsForRun
<1>2. CASE Quiet
  <2>1. CASE \E k \in Keys : TickCancel(k)
    <3>1. PICK k \in Keys : TickCancel(k)
      BY <2>1
    <3>2. /\ todo' = todo /\ update' = update /\ status' = status /\ run' = run
          /\ k \in todo /\ run[k] # "idle" /\ \A j \in todo \ {k} : Before(k, j)
      BY <3>1 DEF TickCancel, IsNext, TimedOut, checkVars
    <3>3. \A j, i : Before(j, i)' <=> Before(j, i)
      BY <3>2 DEF Before, Overdue, Repeat
    <3>4. ASSUME NEW i \in todo, \A j \in todo \ {i} : Before(i, j) PROVE i = k
      <4>1. SUFFICES ASSUME i # k PROVE FALSE
        OBVIOUS
      <4>2. Before(i, k) /\ Before(k, i)
        BY <3>2, <3>4, <4>1
      <4>a. i \in Keys
        BY <3>4, KindTypes DEF TypeOK
      <4>3. i \in Int /\ k \in Int
        BY <3>1, <4>a, WorkerAssumption DEF Keys
      <4>b. /\ Repeat(i) \in Int /\ Repeat(k) \in Int
            /\ update[i] \in Int /\ update[k] \in Int
        BY <3>1, <4>a, RawTypes DEF TypeOK
      <4>4. Overdue(i) \in Int /\ Overdue(k) \in Int
        BY <4>b, ScheduleAssumption DEF Overdue, NextDue, OrderingRepeat
      <4>. QED  BY <4>2, <4>3, <4>4 DEF Before
    <3>. QED  BY <3>2, <3>3, <3>4 DEF WaitsForRun
  <2>2. CASE \E k \in Keys : TickSkip(k) \/ TickUnsupported(k)
    BY <2>2 DEF TickSkip, TickUnsupported, IsNext, WaitsForRun
  <2>3. CASE BeginUpdate \/ UpdateInstalled \/ UpdateFailed \/ Leave \/ TurnToGet \/ TurnToTick \/ GetFail
    BY <2>3 DEF BeginUpdate, UpdateInstalled, UpdateFailed, Leave, TurnToGet, TurnToTick, GetFail,
                EnterMap, WaitsForRun
  <2>4. CASE TickDockers \/ DrainBegin \/ SendNothing \/ SendBatch \/ PostReturns \/ PostOK
             \/ PostFail \/ DrainEnd \/ Wake
    BY <2>4 DEF TickDockers, EnterMap, DrainBegin, SendNothing, SendBatch, PostReturns, PostOK,
                PostFail, DrainEnd, Wake, WaitsForRun
  <2>5. CASE TimePasses \/ UNCHANGED vars
    <3>1. pc' = pc /\ todo' = todo /\ update' = update /\ status' = status /\ run' = run
      BY <2>5 DEF TimePasses, vars, loopVars, checkVars
    <3>. QED  BY <1>1, <3>1 DEF WaitsForRun
  <2>. QED  BY <1>2, <2>1, <2>2, <2>3, <2>4, <2>5 DEF Quiet, Drain
<1>3. CASE ServerAnswers \/ Reboot
  BY <1>3 DEF ServerAnswers, GetOK, EnterMap, Reboot, WaitsForRun
<1>4. ASSUME NEW k \in Keys, TickTimeout(k) \/ TickFinish(k) \/ TickRemove(k) \/ TickStart(k)
      PROVE  WaitsForRun'
  BY <1>4 DEF TickTimeout, TickFinish, TickRemove, TickStart, IsNext, WaitsForRun
<1>5. ASSUME NEW k \in Keys, Finish(k) \/ FinishLate(k) \/ FinishLost(k) PROVE WaitsForRun'
  <2>1. /\ pc' = pc /\ todo' = todo /\ update' = update /\ status' = status
        /\ \A j \in Keys : run'[j] = "idle" => run[j] = "idle"
    BY <1>5 DEF Finish, FinishLate, FinishLost, loopVars, TypeOK
  <2>. QED  BY <1>1, <2>1 DEF WaitsForRun
<1>. QED  BY NextCases, <1>2, <1>3, <1>4, <1>5

LEMMA PresentStep == TypeOK /\ TickIsPresent /\ [Next]_vars => TickIsPresent'
<1>. SUFFICES ASSUME TypeOK, TickIsPresent, [Next]_vars PROVE TickIsPresent'
  OBVIOUS
<1>0. clock \in Nat
  BY DEF TypeOK
<1>1. CASE Quiet
  <2>1. CASE BeginUpdate \/ UpdateInstalled \/ UpdateFailed \/ Leave
    BY <2>1 DEF BeginUpdate, UpdateInstalled, UpdateFailed, Leave, TickIsPresent
  <2>2. CASE TurnToGet \/ TurnToTick
    BY <1>0, <2>2 DEF TurnToGet, TurnToTick, TickIsPresent
  <2>3. CASE GetFail
    BY <2>3 DEF GetFail, TickIsPresent
  <2>4. CASE \E k \in Keys : TickCancel(k) \/ TickSkip(k) \/ TickUnsupported(k)
    BY <2>4 DEF TickCancel, TickSkip, TickUnsupported, IsNext, TickIsPresent
  <2>5. CASE TickDockers \/ TimePasses \/ UNCHANGED vars
    BY <2>5 DEF TickDockers, TimePasses, vars, loopVars, TickIsPresent
  <2>6. CASE DrainBegin \/ SendNothing \/ SendBatch \/ PostReturns \/ PostOK \/ PostFail \/ DrainEnd \/ Wake
    BY <2>6 DEF DrainBegin, SendNothing, SendBatch, PostReturns, PostOK, PostFail, DrainEnd, Wake,
                TickIsPresent
  <2>. QED  BY <1>1, <2>1, <2>2, <2>3, <2>4, <2>5, <2>6 DEF Quiet, Drain
<1>2. CASE ServerAnswers
  BY <1>2 DEF ServerAnswers, GetOK, TickIsPresent
<1>3. ASSUME NEW k \in Keys, TickTimeout(k) \/ TickFinish(k) \/ TickRemove(k) \/ TickStart(k)
      PROVE  TickIsPresent'
  BY <1>3 DEF TickTimeout, TickFinish, TickRemove, TickStart, IsNext, TickIsPresent
<1>4. ASSUME NEW k \in Keys, Finish(k) \/ FinishLate(k) \/ FinishLost(k) PROVE TickIsPresent'
  BY <1>4 DEF Finish, FinishLate, FinishLost, loopVars, TickIsPresent
<1>5. CASE Reboot
  BY <1>5 DEF Reboot, TickIsPresent
<1>. QED  BY NextCases, <1>1, <1>2, <1>3, <1>4, <1>5

\* What a step does to the runs of one object, and to its response: it stays, is
\* dropped, or becomes that of a run of the object.
LEMMA OwnStep ==
  TypeOK /\ StartsArePast /\ TickIsPresent /\ WaitsForRun /\ RunsAreOwn /\ ResultOfOwnObject
  /\ [Next]_vars => RunsAreOwn' /\ ResultOfOwnObject'
<1>. SUFFICES ASSUME TypeOK, StartsArePast, TickIsPresent, WaitsForRun, RunsAreOwn,
                     ResultOfOwnObject, [Next]_vars
              PROVE  RunsAreOwn' /\ ResultOfOwnObject'
  OBVIOUS
<1>. DEFINE Own(j) ==
       /\ run'[j] # "idle" => started'[j] # Epoch
       /\ \A s \in zombies'[j] : started'[j] # Epoch /\ s <= started'[j]
       /\ resp'[j] # NoResponse => started'[j] # Epoch /\ resp'[j].start <= started'[j]
            Same(j) == /\ run'[j] = run[j] \/ (run'[j] = "idle")
                                        \/ run[j] # "idle"
                       /\ started'[j] = started[j] /\ zombies'[j] \subseteq zombies[j]
                       /\ resp'[j] = resp[j] \/ resp'[j] = NoResponse
<1>a. Epoch \in Int /\ Epoch < 0 /\ now \in Int
  BY ScheduleAssumption, WorkerAssumption DEF Epoch, TypeOK
<1>b. /\ DOMAIN run = Keys /\ DOMAIN resp = Keys /\ DOMAIN started = Keys
      /\ DOMAIN zombies = Keys /\ \A j \in Keys : started[j] \in Int /\ zombies[j] \subseteq Int
  BY DEF TypeOK
<1>c. \A j \in Keys : resp[j] # NoResponse => resp[j].start \in Int
  BY DEF TypeOK, Responses
<1>d. \A j \in Keys : /\ run[j] # "idle" => started[j] # Epoch
                      /\ \A s \in zombies[j] : started[j] # Epoch /\ s <= started[j]
  BY DEF RunsAreOwn
<1>e. \A j \in Keys : resp[j] # NoResponse => started[j] # Epoch /\ resp[j].start <= started[j]
  BY DEF ResultOfOwnObject
<1>0. ASSUME NEW j \in Keys, Same(j) PROVE Own(j)
  BY <1>0, <1>d, <1>e
<1>1. CASE Quiet
  <2>1. \A j \in Keys : resp'[j] = resp[j] \/ resp'[j] = NoResponse
    BY <1>1, QuietResponses
  <2>2. \A j \in Keys : Same(j)
    BY <1>1, <2>1, QuietLeavesRuns
  <2>3. \A j \in Keys : Own(j)
    BY <1>0, <2>2
  <2>. QED  BY <2>3 DEF RunsAreOwn, ResultOfOwnObject
<1>2. CASE ServerAnswers
  <2>1. \A j \in Keys : Same(j)
    BY <1>2 DEF ServerAnswers, GetOK, SyncTracked
  <2>2. \A j \in Keys : Own(j)
    BY <1>0, <2>1
  <2>. QED  BY <2>2 DEF RunsAreOwn, ResultOfOwnObject
<1>3. ASSUME NEW k \in Keys,
             \/ TickTimeout(k) \/ TickFinish(k) \/ TickRemove(k) \/ TickStart(k)
             \/ Finish(k) \/ FinishLate(k) \/ FinishLost(k)
      PROVE  \A j \in Keys : Own(j)
  <2>1. ASSUME NEW j \in Keys \ {k} PROVE Own(j)
    <3>1. /\ run'[j] = run[j] /\ started'[j] = started[j] /\ zombies'[j] = zombies[j]
          /\ resp'[j] = resp[j]
      <4>1. CASE TickTimeout(k) \/ TickFinish(k)
        BY <1>b, <4>1 DEF TickTimeout, TickFinish
      <4>2. CASE TickRemove(k) \/ TickStart(k)
        BY <1>b, <4>2 DEF TickRemove, TickStart
      <4>3. CASE Finish(k) \/ FinishLate(k) \/ FinishLost(k)
        BY <1>b, <4>3 DEF Finish, FinishLate, FinishLost
      <4>. QED  BY <1>3, <4>1, <4>2, <4>3
    <3>. QED  BY <1>0, <3>1
  <2>2. ASSUME TickTimeout(k) PROVE Own(k)
    <3>1. /\ run'[k] = "idle" /\ started'[k] = started[k] /\ zombies'[k] = AtWork(k)
          /\ resp'[k] = IF resp[k] = NoResponse
                        THEN [start |-> started[k], ok |-> FALSE, by |-> "loop"] ELSE resp[k]
      BY <1>b, <2>2 DEF TickTimeout
    <3>2. AtWork(k) \subseteq zombies[k] \cup {started[k]}
      BY DEF AtWork
    <3>3. started[k] # Epoch
      BY <1>d, <2>2 DEF TickTimeout, WaitsForRun
    <3>. QED  BY <1>b, <1>d, <1>e, <3>1, <3>2, <3>3
  <2>3. ASSUME TickFinish(k) \/ FinishLost(k) PROVE Own(k)
    <3>1. Same(k)
      BY <1>b, <2>3 DEF TickFinish, FinishLost
    <3>. QED  BY <1>0, <3>1
  <2>4. ASSUME TickRemove(k) PROVE Own(k)
    BY <1>b, <2>4 DEF TickRemove
  <2>5. ASSUME TickStart(k) PROVE Own(k)
    <3>1. /\ started'[k] = now /\ zombies'[k] = zombies[k] /\ resp'[k] = resp[k]
          /\ pc = "tick"
      BY <1>b, <2>5 DEF TickStart, IsNext
    <3>2. now >= 0 /\ started[k] <= now
      BY <3>1 DEF TickIsPresent, StartsArePast
    <3>. QED  BY <1>a, <1>b, <1>c, <1>d, <1>e, <3>1, <3>2
  <2>6. ASSUME Finish(k) PROVE Own(k)
    <3>1. PICK ok \in BOOLEAN :
            resp' = [resp EXCEPT ![k] = [start |-> started[k], ok |-> ok, by |-> "handler"]]
      BY <2>6 DEF Finish
    <3>2. /\ resp'[k].start = started[k] /\ run[k] = "busy"
          /\ started'[k] = started[k] /\ zombies'[k] = zombies[k]
      BY <1>b, <2>6, <3>1 DEF Finish
    <3>. QED  BY <1>b, <1>d, <3>2
  <2>7. ASSUME FinishLate(k) PROVE Own(k)
    <3>1. PICK s \in zombies[k], ok \in BOOLEAN :
            /\ resp' = [resp EXCEPT ![k] = [start |-> s, ok |-> ok, by |-> "handler"]]
            /\ zombies' = [zombies EXCEPT ![k] = @ \ {s}]
      BY <2>7 DEF FinishLate
    <3>2. /\ resp'[k].start = s /\ run'[k] = run[k]
          /\ started'[k] = started[k] /\ zombies'[k] \subseteq zombies[k]
      BY <1>b, <2>7, <3>1 DEF FinishLate
    <3>. QED  BY <1>d, <3>1, <3>2
  <2>. QED  BY <1>3, <2>1, <2>2, <2>3, <2>4, <2>5, <2>6, <2>7
<1>4. CASE Reboot
  BY <1>4 DEF Reboot, RunsAreOwn, ResultOfOwnObject
<1>. QED
  <2>1. ASSUME \A j \in Keys : Own(j) PROVE RunsAreOwn' /\ ResultOfOwnObject'
    BY <2>1 DEF RunsAreOwn, ResultOfOwnObject
  <2>. HIDE DEF Own
  <2>. QED  BY NextCases, <1>1, <1>2, <1>3, <1>4, <2>1

-----------------------------------------------------------------------------
(* Without immediate retry the cursor of a check that is not running is never  *)
(* behind its last start, but for a deleted check that this turn will remove.  *)

Leaving(k) ==
  /\ status[k] = "deleted" /\ pc \in {"tick", "wait"}
  /\ k \in todo \/ (cur = "jobs" /\ k \in DockerKeys)

CursorKept ==
  /\ \A k \in Keys : status[k] = "absent" => started[k] = Epoch
  /\ pc = "init" => \A k \in Keys : status[k] = "absent"
  /\ ~ImmediateErrorRetry =>
       \A k \in Keys : run[k] = "idle" /\ ~Leaving(k) => started[k] <= update[k]

\* A step that changes no cursor keeps the invariant if it keeps every Leaving.
LEMMA CursorSame ==
  ASSUME CursorKept, UNCHANGED <<status, run, started, update>>, pc' = "init" => pc = "init",
         \A k \in Keys : Leaving(k) /\ run[k] = "idle" => Leaving(k)'
  PROVE  CursorKept'
BY DEF CursorKept

LEMMA CursorQuiet ==
  ASSUME TypeOK, StartsArePast, CursorKept, Quiet
  PROVE  CursorKept'
<1>0. UNCHANGED <<status, run, started>>
  BY QuietLeavesRuns
<1>1. CASE BeginUpdate \/ UpdateInstalled \/ UpdateFailed \/ Leave \/ TurnToGet \/ TurnToTick
           \/ GetFail
  <2>1. update' = update /\ pc \notin {"tick", "wait"} /\ pc' # "init"
    BY <1>1 DEF BeginUpdate, UpdateInstalled, UpdateFailed, Leave, TurnToGet, TurnToTick,
                GetFail, EnterMap, checkVars
  <2>. QED  BY <1>0, <2>1, CursorSame DEF Leaving
<1>2. ASSUME NEW k \in Keys, TickCancel(k) PROVE CursorKept'
  <2>1. update' = update /\ pc = "tick" /\ pc' = "wait" /\ todo' = todo /\ cur' = cur
    BY <1>2 DEF TickCancel, IsNext, checkVars
  <2>. QED  BY <1>0, <2>1, CursorSame DEF Leaving
<1>3. ASSUME NEW k \in Keys, TickSkip(k) PROVE CursorKept'
  <2>1. /\ update' = update /\ pc = "tick" /\ pc' = pc /\ todo' = todo \ {k} /\ cur' = cur
        /\ run[k] = "busy" \/ status[k] = "live"
    BY <1>3 DEF TickSkip, IsNext, checkVars
  <2>. QED  BY <1>0, <2>1, CursorSame DEF Leaving
<1>4. ASSUME NEW k \in Keys, TickUnsupported(k) PROVE CursorKept'
  <2>1. /\ update' = [update EXCEPT ![k] = now + Postpone] /\ status[k] = "live"
        /\ pc = "tick" /\ pc' = pc /\ todo' = todo \ {k} /\ cur' = cur
    BY <1>4 DEF TickUnsupported, IsNext
  <2>2. started[k] <= now + Postpone
    BY <2>1, WorkerAssumption DEF StartsArePast, TypeOK
  <2>3. \A j \in Keys \ {k} : update'[j] = update[j] /\ Leaving(j)' = Leaving(j)
    BY <1>0, <2>1 DEF TypeOK, Leaving
  <2>4. update'[k] = now + Postpone
    BY <2>1 DEF TypeOK
  <2>5. \A j \in Keys : ~ImmediateErrorRetry /\ run'[j] = "idle" /\ ~Leaving(j)'
                          => started'[j] <= update'[j]
    BY <1>0, <2>2, <2>3, <2>4 DEF CursorKept
  <2>. QED  BY <1>0, <2>1, <2>5 DEF CursorKept
<1>5. CASE TickDockers
  <2>1. /\ update' = update /\ pc' = "tick" /\ todo = {} /\ cur' = "dockers"
        /\ todo' = {k \in DockerKeys : status[k] # "absent"}
    BY <1>5 DEF TickDockers, EnterMap, Tracked, KeysOf, checkVars
  <2>. QED  BY <1>0, <2>1, CursorSame DEF Leaving
<1>6. CASE DrainBegin
  <2>1. update' = update /\ cur = "dockers" /\ todo = {} /\ pc' = "drain"
    BY <1>6 DEF DrainBegin, checkVars
  <2>. QED  BY <1>0, <2>1, CursorSame DEF Leaving
<1>7. CASE SendNothing \/ SendBatch \/ PostReturns \/ PostOK \/ PostFail \/ DrainEnd \/ Wake
  <2>1. update' = update /\ pc \notin {"tick", "wait"} /\ pc' # "init"
    BY <1>7 DEF SendNothing, SendBatch, PostReturns, PostOK, PostFail, DrainEnd, Wake, checkVars
  <2>. QED  BY <1>0, <2>1, CursorSame DEF Leaving
<1>8. CASE TimePasses \/ UNCHANGED vars
  <2>1. update' = update /\ pc' = pc /\ todo' = todo /\ cur' = cur
    BY <1>8 DEF TimePasses, vars, loopVars, checkVars
  <2>. QED  BY <1>0, <2>1, CursorSame DEF Leaving
<1>. QED  BY <1>1, <1>2, <1>3, <1>4, <1>5, <1>6, <1>7, <1>8 DEF Quiet, Drain

LEMMA CursorSync ==
  ASSUME TypeOK, CursorKept, ServerAnswers
  PROVE  CursorKept'
<1>1. PICK listed \in Lists, recent \in RecentChoices, t \in ThreadChoices \cup {threads},
           r \in RestartOrders, u \in UpdateOrders :
        GetOK(listed, [k \in Keys |-> IF k \in recent THEN clock ELSE Epoch], t, r, u)
  BY DEF ServerAnswers
<1>. DEFINE sent == [k \in Keys |-> IF k \in recent THEN clock ELSE Epoch]
<1>2. /\ \A k \in Keys : sent[k] \in Int
      /\ Epoch \in Int
  BY ScheduleTypes DEF TypeOK
<1>. HIDE DEF sent
<1>3. /\ run' = run /\ started' = started
      /\ \A k \in Keys : /\ status'[k] = IF k \in listed THEN "live"
                                         ELSE IF status[k] = "absent" THEN "absent"
                                         ELSE "deleted"
                         /\ update'[k] = IF k \in listed THEN MergeCursor(update[k], sent[k])
                                         ELSE Epoch
  <2>1. SyncTracked(listed, sent)
    BY <1>1 DEF GetOK, sent
  <2>2. run' = run /\ started' = started
    BY <2>1 DEF SyncTracked
  <2>3. \A k \in Keys : update'[k] = IF k \in listed THEN MergeCursor(update[k], sent[k])
                                     ELSE Epoch
    BY <2>1 DEF SyncTracked
  <2>4. \A k \in Keys : status'[k] = IF k \in listed THEN "live"
                                     ELSE IF status[k] = "absent" THEN "absent"
                                     ELSE "deleted"
    BY <2>1 DEF SyncTracked
  <2>. QED  BY <2>2, <2>3, <2>4
<1>4. pc \in {"init", "get"} /\ pc' # "init"
  BY <1>1 DEF GetOK, EnterMap
<1>5. pc = "get" => /\ pc' = "tick" /\ cur' = "jobs"
                    /\ todo' = {k \in JobKeys : status'[k] # "absent"}
  BY <1>1 DEF GetOK, EnterMap
<1>6. ASSUME NEW k \in Keys, ~ImmediateErrorRetry, run'[k] = "idle", ~Leaving(k)'
      PROVE  started'[k] <= update'[k]
  <2>1. started[k] <= update[k] /\ started[k] \in Int /\ update[k] \in Int
    BY <1>3, <1>4, <1>6 DEF CursorKept, Leaving, TypeOK
  <2>2. CASE k \in listed
    <3>1. update'[k] = MergeCursor(update[k], sent[k]) /\ sent[k] \in Int
      BY <1>2, <1>3, <2>2
    <3>. QED  BY <1>3, <2>1, <3>1 DEF MergeCursor
  <2>3. CASE k \notin listed /\ status[k] = "absent"
    BY <1>2, <1>3, <2>3 DEF CursorKept
  <2>4. CASE k \notin listed /\ status[k] # "absent"
    <3>1. pc = "get" /\ status'[k] = "deleted"
      BY <1>3, <1>4, <2>4 DEF CursorKept
    <3>2. Leaving(k)'
      BY <1>5, <3>1 DEF Leaving, Keys
    <3>. QED  BY <1>6, <3>2
  <2>. QED  BY <2>2, <2>3, <2>4
<1>7. \A k \in Keys : status'[k] = "absent" => started'[k] = Epoch
  BY <1>3 DEF CursorKept
<1>. QED  BY <1>4, <1>6, <1>7 DEF CursorKept

\* A step that ends a run, or removes a check, leaves its cursor at or after
\* its last start, and no other check is touched.
LEMMA CursorOne ==
  ASSUME TypeOK, CursorKept, NEW k \in Keys, pc' = "tick", pc \in {"tick", "wait"},
         cur' = cur, todo' = todo \ {k},
         \A j \in Keys \ {k} : /\ status'[j] = status[j] /\ run'[j] = run[j]
                               /\ started'[j] = started[j] /\ update'[j] = update[j],
         status'[k] = "absent" => started'[k] = Epoch,
         ~ImmediateErrorRetry /\ run'[k] = "idle" => started'[k] <= update'[k]
  PROVE  CursorKept'
<1>1. \A j \in Keys \ {k} : Leaving(j)' = Leaving(j)
  BY DEF Leaving
<1>. QED  BY <1>1 DEF CursorKept

LEMMA CursorStep == TypeOK /\ StartsArePast /\ CursorKept /\ [Next]_vars => CursorKept'
<1>. SUFFICES ASSUME TypeOK, StartsArePast, CursorKept, [Next]_vars PROVE CursorKept'
  OBVIOUS
<1>0. /\ Epoch \in Int /\ now \in Int /\ started \in [Keys -> Int] /\ update \in [Keys -> Int]
      /\ run \in [Keys -> {"idle", "busy", "done"}]
      /\ status \in [Keys -> {"absent", "live", "deleted"}]
  BY ScheduleTypes DEF TypeOK
<1>1. CASE Quiet
  BY <1>1, CursorQuiet
<1>2. CASE ServerAnswers
  BY <1>2, CursorSync
<1>3. ASSUME NEW k \in Keys, TickTimeout(k) PROVE CursorKept'
  <2>1. /\ run' = [run EXCEPT ![k] = "idle"] /\ status' = status /\ started' = started
        /\ update' = [update EXCEPT ![k] = Bump(now, Repeat(k))]
        /\ pc = "wait" /\ pc' = "tick" /\ cur' = cur /\ todo' = todo \ {k}
    BY <1>3 DEF TickTimeout
  <2>2. ~ImmediateErrorRetry => Bump(now, Repeat(k)) = now
    BY <1>0, RawTypes, ScheduleTypes
  <2>3. started[k] <= now
    BY <2>1 DEF StartsArePast
  <2>. QED  BY <1>0, <2>1, <2>2, <2>3, CursorOne DEF CursorKept
<1>4. ASSUME NEW k \in Keys, TickFinish(k) PROVE CursorKept'
  <2>1. /\ run' = [run EXCEPT ![k] = "idle"] /\ status' = status /\ started' = started
        /\ update' = [update EXCEPT ![k] = IF Failed(resp[k]) THEN Bump(now, Repeat(k))
                                                              ELSE started[k]]
        /\ pc = "tick" /\ pc' = "tick" /\ cur' = cur /\ todo' = todo \ {k}
    BY <1>4 DEF TickFinish, IsNext
  <2>2. ~ImmediateErrorRetry => Bump(now, Repeat(k)) = now
    BY <1>0, RawTypes, ScheduleTypes
  <2>3. started[k] <= now
    BY <2>1 DEF StartsArePast
  <2>. QED  BY <1>0, <2>1, <2>2, <2>3, CursorOne DEF CursorKept
<1>5. ASSUME NEW k \in Keys, TickRemove(k) PROVE CursorKept'
  <2>1. /\ run' = run /\ status' = [status EXCEPT ![k] = "absent"]
        /\ started' = [started EXCEPT ![k] = Epoch] /\ update' = [update EXCEPT ![k] = Epoch]
        /\ pc = "tick" /\ pc' = "tick" /\ cur' = cur /\ todo' = todo \ {k}
    <3>1. run' = run
      BY <1>5 DEF TickRemove, Removable, TypeOK
    <3>. QED  BY <3>1, <1>5 DEF TickRemove, IsNext
  <2>. QED  BY <1>0, <2>1, CursorOne
<1>6. ASSUME NEW k \in Keys, TickStart(k) PROVE CursorKept'
  <2>1. /\ run' = [run EXCEPT ![k] = "busy"] /\ status' = status /\ status[k] = "live"
        /\ started' = [started EXCEPT ![k] = now] /\ update' = update
        /\ pc = "tick" /\ pc' = "tick" /\ cur' = cur /\ todo' = todo \ {k}
    BY <1>6 DEF TickStart, IsNext
  <2>. QED  BY <1>0, <2>1, CursorOne
<1>7. ASSUME NEW k \in Keys, Finish(k) \/ FinishLate(k) \/ FinishLost(k) PROVE CursorKept'
  <2>1. /\ status' = status /\ started' = started /\ update' = update
        /\ pc' = pc /\ cur' = cur /\ todo' = todo
        /\ \A j \in Keys : run'[j] = "idle" => run[j] = "idle"
    BY <1>0, <1>7 DEF Finish, FinishLate, FinishLost, loopVars
  <2>2. \A j \in Keys : Leaving(j)' = Leaving(j)
    BY <2>1 DEF Leaving
  <2>. QED  BY <2>1, <2>2 DEF CursorKept
<1>8. CASE Reboot
  <2>1. /\ status' = [k \in Keys |-> "absent"] /\ started' = [k \in Keys |-> Epoch]
        /\ update' = [k \in Keys |-> Epoch]
    BY <1>8 DEF Reboot
  <2>. QED  BY <1>0, <2>1 DEF CursorKept
<1>. QED  BY NextCases, <1>1, <1>2, <1>3, <1>4, <1>5, <1>6, <1>7, <1>8

LEMMA RepeatRespected ==
  ASSUME TypeOK, CursorKept, [Next]_vars
  PROVE  StartWaitedRepeat
<1>. SUFFICES ASSUME NEW k \in Keys, Starts(k), ~ImmediateErrorRetry
              PROVE  started'[k] - started[k] >= ClampRepeat(RawRepeat[k])
  BY DEF StartWaitedRepeat
<1>1. TickStart(k)
  BY StartsAreTickStarts
<1>2. /\ run[k] = "idle" /\ status[k] = "live" /\ started'[k] = now
      /\ update[k] + ClampRepeat(RawRepeat[k]) <= now
  BY <1>1 DEF TickStart, Eligible, IsDue, Repeat, TypeOK
<1>3. started[k] <= update[k]
  BY <1>2 DEF CursorKept, Leaving
<1>4. /\ started[k] \in Int /\ update[k] \in Int /\ now \in Int
      /\ ClampRepeat(RawRepeat[k]) \in Int
  BY ScheduleTypes, WorkerAssumption DEF TypeOK
<1>. QED  BY <1>2, <1>3, <1>4

-----------------------------------------------------------------------------
(* What the tick has passed over cannot start, or fell due no earlier than     *)
(* now: that a check's timeout is never longer than its period is needed here. *)

VisitedSettled ==
  pc \in {"tick", "wait"} =>
    \A j \in KeysOf(cur) \ todo : Startable(j) => threads <= slots \/ now <= Overdue(j)

\* The order of the checks uses the period the start test uses, and no run
\* within its timeout is already due again.
LEMMA PeriodFacts ==
  /\ \A r \in Int : OrderingRepeat(r) = ClampRepeat(r)
  /\ \A r \in Int, t \in Int : ClampTimeout(t) \in Nat /\ ClampTimeout(t) <= ClampRepeat(r)
BY ScheduleAssumption DEF OrderingRepeat, ClampRepeat, ClampTimeout, AtMost, AtLeast

\* A check that has just ended is due now at the earliest.
LEMMA EndedIsNotOverdue ==
  ASSUME TypeOK, NEW k \in Keys, status' = status, now' = now,
         \/ update'[k] = Bump(now, Repeat(k))
         \/ update'[k] = started[k] /\ run[k] # "idle" /\ ~TimedOut(k)
  PROVE  now <= Overdue(k)'
<1>1. now \in Int /\ started[k] \in Int /\ Repeat(k) \in Int /\ Timeout(k) \in Int
  BY RawTypes DEF TypeOK
<1>2. /\ ClampRepeat(Repeat(k)) \in Nat /\ OrderingRepeat(Repeat(k)) = ClampRepeat(Repeat(k))
      /\ ClampTimeout(Timeout(k)) \in Nat
      /\ ClampTimeout(Timeout(k)) <= ClampRepeat(Repeat(k))
  BY <1>1, ScheduleTypes, PeriodFacts
<1>3. Overdue(k)' = update'[k] + OrderingRepeat(Repeat(k))
  BY DEF Overdue, NextDue, Repeat
<1>4. CASE update'[k] = Bump(now, Repeat(k))
  BY <1>1, <1>2, <1>3, <1>4 DEF Bump
<1>5. CASE update'[k] = started[k] /\ run[k] # "idle" /\ ~TimedOut(k)
  <2>1. ~(now > started[k] + ClampTimeout(Timeout(k)))
    BY <1>5 DEF TimedOut, IsOverdue
  <2>. QED  BY <1>1, <1>2, <1>3, <1>5, <2>1
<1>. QED  BY <1>4, <1>5

\* One check is ticked, the others of its map stay as they are.
LEMMA SettledOne ==
  ASSUME TypeOK, VisitedSettled, NEW k \in Keys, pc \in {"tick", "wait"},
         cur' = cur, now' = now, threads' = threads, todo' = todo \ {k},
         slots' \in Nat, slots <= slots',
         \A j \in Keys \ {k} : /\ status'[j] = status[j] /\ run'[j] = run[j]
                               /\ update'[j] = update[j],
         Startable(k)' => threads <= slots' \/ now <= Overdue(k)'
  PROVE  VisitedSettled'
<1>1. \A j \in Keys \ {k} : Startable(j)' = Startable(j) /\ Overdue(j)' = Overdue(j)
  BY DEF Startable, Eligible, IsDue, Overdue, NextDue, Repeat
<1>2. KeysOf(cur) \subseteq Keys /\ slots \in Nat /\ threads \in Nat
  BY KindTypes DEF TypeOK
<1>3. ASSUME NEW j \in KeysOf(cur) \ todo', Startable(j)'
      PROVE  threads' <= slots' \/ now' <= Overdue(j)'
  <2>1. CASE j = k
    BY <1>3, <2>1
  <2>2. CASE j # k
    <3>1. j \in Keys /\ j \notin todo
      BY <1>2, <1>3, <2>2
    <3>2. threads <= slots \/ now <= Overdue(j)
      BY <1>1, <1>3, <2>2, <3>1 DEF VisitedSettled
    <3>. QED  BY <1>1, <1>2, <2>2, <3>1, <3>2
  <2>. QED  BY <2>1, <2>2
<1>. QED  BY <1>3 DEF VisitedSettled, KeysOf

\* A map has just been entered: what is not to be ticked is not in it.
LEMMA SettledOnEntry ==
  ASSUME cur' \in Kinds,
         todo' = {k \in KeysOf(cur') : status'[k] # "absent"}
  PROVE  VisitedSettled'
BY DEF VisitedSettled, Startable, KeysOf

LEMMA SettledStep == TypeOK /\ VisitedSettled /\ [Next]_vars => VisitedSettled'
<1>. SUFFICES ASSUME TypeOK, VisitedSettled, [Next]_vars PROVE VisitedSettled'
  OBVIOUS
<1>0. /\ slots \in Nat /\ update \in [Keys -> Int]
      /\ run \in [Keys -> {"idle", "busy", "done"}]
      /\ status \in [Keys -> {"absent", "live", "deleted"}]
  BY DEF TypeOK
<1>1. CASE BeginUpdate \/ UpdateInstalled \/ UpdateFailed \/ Leave \/ TurnToGet
           \/ DrainBegin \/ SendNothing \/ SendBatch \/ PostReturns \/ PostOK \/ PostFail \/ DrainEnd \/ Wake
           \/ Reboot
  BY <1>1 DEF BeginUpdate, UpdateInstalled, UpdateFailed, Leave, TurnToGet, DrainBegin,
              SendNothing, SendBatch, PostReturns, PostOK, PostFail, DrainEnd, Wake, Reboot, VisitedSettled
<1>2. CASE TurnToTick \/ TickDockers
  <2>1. cur' \in Kinds /\ todo' = {k \in KeysOf(cur') : status'[k] # "absent"}
    BY <1>2 DEF TurnToTick, TickDockers, EnterMap, Tracked, Kinds, checkVars
  <2>. QED  BY <2>1, SettledOnEntry
<1>3. CASE GetFail
  <2>1. pc' = "top" \/ (cur' \in Kinds /\ todo' = {k \in KeysOf(cur') : status'[k] # "absent"})
    BY <1>3 DEF GetFail, EnterMap, Tracked, Kinds, checkVars
  <2>2. CASE pc' = "top"
    BY <2>2 DEF VisitedSettled
  <2>. QED  BY <2>1, <2>2, SettledOnEntry
<1>4. CASE ServerAnswers
  <2>1. pc' = "top" \/ (cur' \in Kinds /\ todo' = {k \in KeysOf(cur') : status'[k] # "absent"})
    BY <1>4 DEF ServerAnswers, GetOK, EnterMap, Kinds, KeysOf
  <2>2. CASE pc' = "top"
    BY <2>2 DEF VisitedSettled
  <2>. QED  BY <2>1, <2>2, SettledOnEntry
<1>5. ASSUME NEW k \in Keys, TickCancel(k) PROVE VisitedSettled'
  <2>1. /\ cur' = cur /\ now' = now /\ threads' = threads /\ todo' = todo /\ slots' = slots
        /\ UNCHANGED <<status, run, update>> /\ pc = "tick"
    BY <1>5 DEF TickCancel, IsNext, confVars, checkVars
  <2>. QED  BY <2>1 DEF VisitedSettled, Startable, Eligible, IsDue, Overdue, NextDue, Repeat
<1>6. ASSUME NEW k \in Keys, TickTimeout(k) PROVE VisitedSettled'
  <2>1. /\ cur' = cur /\ now' = now /\ threads' = threads /\ todo' = todo \ {k}
        /\ slots' = slots /\ pc = "wait" /\ status' = status
        /\ run' = [run EXCEPT ![k] = "idle"]
        /\ update' = [update EXCEPT ![k] = Bump(now, Repeat(k))]
    BY <1>6 DEF TickTimeout, confVars
  <2>2. now <= Overdue(k)'
    BY <1>0, <2>1, EndedIsNotOverdue
  <2>. QED  BY <1>0, <2>1, <2>2, SettledOne
<1>7. ASSUME NEW k \in Keys, TickFinish(k) PROVE VisitedSettled'
  <2>1. /\ cur' = cur /\ now' = now /\ threads' = threads /\ todo' = todo \ {k}
        /\ slots' = slots /\ pc = "tick" /\ status' = status
        /\ run[k] = "done" /\ ~TimedOut(k) /\ run' = [run EXCEPT ![k] = "idle"]
        /\ update' = [update EXCEPT ![k] = IF Failed(resp[k]) THEN Bump(now, Repeat(k))
                                                              ELSE started[k]]
    BY <1>7 DEF TickFinish, IsNext, confVars
  <2>2. now <= Overdue(k)'
    BY <1>0, <2>1, EndedIsNotOverdue
  <2>. QED  BY <1>0, <2>1, <2>2, SettledOne
<1>8. ASSUME NEW k \in Keys, TickSkip(k) PROVE VisitedSettled'
  <2>1. /\ cur' = cur /\ now' = now /\ threads' = threads /\ todo' = todo \ {k}
        /\ slots' = slots /\ pc = "tick" /\ UNCHANGED <<status, run, update>>
        /\ run[k] = "idle" => ~(Eligible(k) /\ HasSlot)
    BY <1>8 DEF TickSkip, IsNext, confVars, checkVars
  <2>2. Startable(k)' = Startable(k)
    BY <2>1 DEF Startable, Eligible, IsDue, Repeat
  <2>3. Startable(k) => threads <= slots
    BY <2>1 DEF Startable, HasSlot, TypeOK
  <2>. QED  BY <1>0, <2>1, <2>2, <2>3, SettledOne
<1>9. ASSUME NEW k \in Keys, TickRemove(k) \/ TickUnsupported(k) PROVE VisitedSettled'
  <2>1. /\ cur' = cur /\ now' = now /\ threads' = threads /\ todo' = todo \ {k}
        /\ slots' = slots /\ pc = "tick" /\ run' = run
    <3>1. run' = run
      BY <1>9 DEF TickRemove, TickUnsupported, Removable, TypeOK
    <3>. QED  BY <3>1, <1>9 DEF TickRemove, TickUnsupported, IsNext, confVars
  <2>2. /\ \A j \in Keys \ {k} : status'[j] = status[j] /\ update'[j] = update[j]
        /\ status'[k] = "absent" \/ k \in UnsupportedKeys
    BY <1>0, <1>9 DEF TickRemove, TickUnsupported
  <2>3. ~Startable(k)'
    BY <2>2 DEF Startable
  <2>. QED  BY <1>0, <2>1, <2>2, <2>3, SettledOne
<1>10. ASSUME NEW k \in Keys, TickStart(k) PROVE VisitedSettled'
  <2>1. /\ cur' = cur /\ now' = now /\ threads' = threads /\ todo' = todo \ {k}
        /\ slots' = slots + 1 /\ pc = "tick" /\ status' = status /\ update' = update
        /\ run' = [run EXCEPT ![k] = "busy"]
    BY <1>10 DEF TickStart, IsNext, confVars
  <2>2. ~Startable(k)'
    BY <1>0, <2>1 DEF Startable
  <2>. QED  BY <1>0, <2>1, <2>2, SettledOne
<1>11. ASSUME NEW k \in Keys, Finish(k) \/ FinishLate(k) \/ FinishLost(k) PROVE VisitedSettled'
  <2>1. /\ pc' = pc /\ cur' = cur /\ now' = now /\ threads' = threads /\ todo' = todo
        /\ slots' = slots /\ status' = status /\ update' = update
        /\ \A j \in Keys : run'[j] = "idle" => run[j] = "idle"
    BY <1>0, <1>11 DEF Finish, FinishLate, FinishLost, loopVars, confVars
  <2>2. \A j \in Keys : /\ Startable(j)' => Startable(j)
                        /\ Overdue(j)' = Overdue(j)
    BY <2>1 DEF Startable, Eligible, IsDue, Overdue, NextDue, Repeat
  <2>3. pc \in {"tick", "wait"} => KeysOf(cur) \subseteq Keys
    BY KindTypes DEF TypeOK
  <2>. QED  BY <2>1, <2>2, <2>3 DEF VisitedSettled, KeysOf
<1>12. CASE TimePasses \/ UNCHANGED vars
  <2>1. /\ pc' = pc /\ cur' = cur /\ now' = now /\ threads' = threads /\ todo' = todo
        /\ slots' = slots /\ UNCHANGED <<status, run, update>>
    BY <1>12 DEF TimePasses, vars, loopVars, confVars, checkVars
  <2>. QED  BY <2>1 DEF VisitedSettled, Startable, Eligible, IsDue, Overdue, NextDue, Repeat,
                        KeysOf
<1>. QED  BY <1>1, <1>2, <1>3, <1>4, <1>5, <1>6, <1>7, <1>8, <1>9, <1>10, <1>11, <1>12
          DEF Next, LoopStep, Turn, Tick, Drain

LEMMA OrderRespected ==
  ASSUME TypeOK, VisitedSettled, [Next]_vars
  PROVE  StartIsMostOverdue
<1>. SUFFICES ASSUME NEW k \in Keys, Starts(k), NEW j \in KeysOf(KindOf(k)), Startable(j)
              PROVE  Overdue(k) <= Overdue(j)
  BY DEF StartIsMostOverdue
<1>1. TickStart(k)
  BY StartsAreTickStarts
<1>2. /\ pc = "tick" /\ k \in todo /\ Eligible(k) /\ slots < threads
      /\ \A i \in todo \ {k} : Before(k, i)
  BY <1>1 DEF TickStart, IsNext, HasSlot
<1>3. KeysOf(KindOf(k)) = KeysOf(cur)
  BY <1>2, WorkerAssumption DEF TypeOK, KindOf, KeysOf, Kinds
<1>4. j \in Keys
  BY KindTypes
<1>5. /\ now \in Int /\ slots \in Nat /\ threads \in Nat
      /\ Overdue(k) \in Int /\ Overdue(j) \in Int /\ Overdue(k) <= now
  <2>1. Repeat(k) \in Int /\ Repeat(j) \in Int
    BY <1>4, RawTypes
  <2>2. /\ ClampRepeat(Repeat(k)) \in Int /\ ClampRepeat(Repeat(j)) \in Int
        /\ OrderingRepeat(Repeat(k)) = ClampRepeat(Repeat(k))
        /\ OrderingRepeat(Repeat(j)) = ClampRepeat(Repeat(j))
    BY <2>1, ScheduleTypes, PeriodFacts
  <2>. QED  BY <1>2, <1>4, <2>2 DEF TypeOK, Overdue, NextDue, Eligible, IsDue
<1>6. CASE j \in todo
  BY <1>2, <1>5, <1>6 DEF Before
<1>7. CASE j \notin todo
  <2>1. threads <= slots \/ now <= Overdue(j)
    BY <1>2, <1>3, <1>7 DEF VisitedSettled
  <2>. QED  BY <1>2, <1>5, <2>1
<1>. QED  BY <1>6, <1>7

-----------------------------------------------------------------------------
(* The theorems. *)

\* In a process that has just started nothing is tracked and nothing has run.
LEMMA InvariantsInit ==
  Init => /\ HandlersAreCounted /\ SlotsCover /\ StartsArePast /\ ResultsArePast
          /\ CursorKept /\ VisitedSettled
          /\ TickIsPresent /\ WaitsForRun /\ RunsAreOwn /\ ResultOfOwnObject
<1>. SUFFICES ASSUME Init
              PROVE  /\ HandlersAreCounted /\ SlotsCover /\ StartsArePast /\ ResultsArePast
                     /\ CursorKept /\ VisitedSettled
                     /\ TickIsPresent /\ WaitsForRun /\ RunsAreOwn /\ ResultOfOwnObject
  OBVIOUS
<1>1. /\ pc = "init" /\ clock = 0
      /\ status = [k \in Keys |-> "absent"] /\ run = [k \in Keys |-> "idle"]
      /\ started = [k \in Keys |-> Epoch] /\ update = [k \in Keys |-> Epoch]
      /\ resp = [k \in Keys |-> NoResponse]
      /\ zombies = [k \in Keys |-> {}] /\ lost = [k \in Keys |-> {}]
  BY DEF Init
<1>2. Epoch \in Int /\ Epoch <= 0
  BY ScheduleTypes
<1>3. HandlersAreCounted /\ SlotsCover /\ VisitedSettled
  BY <1>1 DEF HandlersAreCounted, SlotsCover, VisitedSettled
<1>6. TickIsPresent /\ WaitsForRun /\ RunsAreOwn /\ ResultOfOwnObject
  BY <1>1 DEF TickIsPresent, WaitsForRun, RunsAreOwn, ResultOfOwnObject
<1>4. StartsArePast /\ ResultsArePast
  BY <1>1, <1>2 DEF StartsArePast, ResultsArePast
<1>5. CursorKept
  BY <1>1, <1>2 DEF CursorKept, Leaving
<1>. QED  BY <1>3, <1>4, <1>5, <1>6

\* While handlers obey their cancellation, none is at work that the count of
\* running checks misses: the loop waits for its end before it lets go of a run,
\* and lets go of an object only between runs.
THEOREM ObedientAreCounted == Spec => []HandlersAreCounted
<1>. QED  BY InvariantsInit, CountedStep, TypeCorrect, PTL DEF Spec

\* Even of a handler that never obeys, the result reaches no object but the one it
\* was started for: neither a given up run nor a job dropped and listed again
\* brings a foreign result into the map.
THEOREM ResultsAreOwn == Spec => []ResultOfOwnObject
<1>. QED  BY InvariantsInit, PresentStep, WaitStep, OwnStep, PastStep, TypeCorrect, PTL DEF Spec

\* No start of a check brings the running checks above worker_threads.
THEOREM ThreadsBoundStarts == Spec => StartsWithinThreads
<1>1. TypeOK /\ SlotsCover /\ [Next]_vars => [StartHasThread]_vars
  BY SlotsRespected DEF StartHasThread
<1>. QED  BY <1>1, InvariantsInit, SlotsStep, TypeCorrect, PTL DEF Spec, StartsWithinThreads

\* A check that has run is not started again before its repeat period is over.
THEOREM PeriodsRespected == Spec => NextRunWaitsRepeat
<1>1. TypeOK /\ StartsArePast /\ CursorKept /\ [Next]_vars => [StartWaitedRepeat]_vars
  BY RepeatRespected
<1>. QED  BY <1>1, InvariantsInit, PastStep, CursorStep, TypeCorrect, PTL
          DEF Spec, NextRunWaitsRepeat

\* Within its kind, the check that starts is the one that has been due longest.
THEOREM MostOverdueStarts == Spec => MostOverdueFirst
<1>1. TypeOK /\ VisitedSettled /\ [Next]_vars => [StartIsMostOverdue]_vars
  BY OrderRespected
<1>. QED  BY <1>1, InvariantsInit, SettledStep, TypeCorrect, PTL DEF Spec, MostOverdueFirst

\* With obedient handlers, a result never gives way to that of an earlier run.
THEOREM ResultsKeepRunOrder == Spec => ResultsInRunOrder
<1>1. /\ TypeOK /\ StartsArePast /\ ResultsArePast /\ [Next]_vars
        => ResultsArePast' /\ [ResultNotOlder]_vars
  BY ResultsStep
<1>. QED  BY <1>1, InvariantsInit, PastStep, TypeCorrect, PTL DEF Spec, ResultsInRunOrder
=============================================================================
