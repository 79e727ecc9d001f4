-------------------------- MODULE DockerTLSProofs --------------------------
(***************************************************************************)
(* The PEM cache, for every number of hosts and jobs: its types, that no   *)
(* job holds PEM it cannot use, and that no claim of the worker is false.  *)
(***************************************************************************)
EXTENDS DockerTLS, TLAPS

USE DEF Unlisted

\* Two hosts are not listed under one job, nor one host under two.
OnePlace == \A d, e \in Hosts : place[d] = place[e] /\ place[d] # Unlisted => d = e
OneJob(jobs) == \A k, l \in JobIds : jobs[k].id = jobs[l].id /\ jobs[k].id # 0 => k = l

\* No revision lies in the future, for the server or for the worker.
Dated(j) == j.id # 0 => j.rev <= revision[j.id]
Dates ==
  /\ \A d \in Hosts : 1 <= edited[d] /\ edited[d] <= revision[d] /\ revision[d] <= time
  /\ \A k \in JobIds : Dated(docker[k]) /\ Dated(answer[k])

\* PEM of its own host, certificate and key of one upload.
Sound(pem, d) ==
  /\ pem["tls_certificate"] = pem["tls_key"]
  /\ \A f \in Fields : pem[f] # NoPEM => pem[f].host = d
SoundPEM ==
  /\ \A d \in Hosts : Sound(uploaded[d], d)
  /\ \A k \in JobIds : Sound(docker[k].pem, docker[k].id) /\ Sound(answer[k].pem, answer[k].id)

\* A job whose revision is not older than the last edit of its host has TLS as
\* the host has it, and if the worker would claim it, all PEM of the host.
UpToDate(j) == j.id # 0 /\ j.rev >= edited[j.id]
JobsCurrent ==
  \A k \in JobIds : UpToDate(docker[k]) =>
     /\ docker[k].tls = tls[docker[k].id]
     /\ docker[k].tls /\ HasCachedTLS(docker[k]) => Has(docker[k], docker[k].id)

\* An answer under way that will make its job up to date was given after the last
\* edit: with all PEM of the host, or without any because of a claim that holds.
WorkerUpToDate(d) == \E l \in JobIds : docker[l].id = d /\ docker[l].rev >= edited[d]
Answered(a, d) ==
  /\ a.tls = tls[d]
  /\ tls[d] => \/ a.pem = uploaded[d]
               \/ a.pem = Empty /\ \E l \in Claimants(d) : docker[l].rev >= edited[d]
AnswerCurrent ==
  \A k \in JobIds : answer[k].id # 0 =>
     (UpToDate(answer[k]) \/ WorkerUpToDate(answer[k].id) => Answered(answer[k], answer[k].id))

Inv ==
  /\ TypeOK /\ OnePlace /\ OneJob(docker) /\ OneJob(answer) /\ Dates /\ SoundPEM
  /\ JobsCurrent /\ AnswerCurrent

-----------------------------------------------------------------------------
LEMMA NoJobFacts ==
  /\ NoJob \in Job /\ NoJob.id = 0 /\ NoJob.rev = 0 /\ NoJob.tls = FALSE
  /\ NoJob.pem = Empty /\ Empty \in Settings /\ \A f \in Fields : Empty[f] = NoPEM
BY DEF NoJob, Job, Empty, Settings

\* The zero Job says nothing that could be wrong.
LEMMA NoJobSound == ASSUME NEW d PROVE Sound(Empty, d)
BY DEF Sound, Empty, Fields, KeyPair

LEMMA InitHolds == Init => Inv
<1> SUFFICES ASSUME Init PROVE Inv
  OBVIOUS
<1> USE NoJobFacts, DockerTLSAssumption
<1>1. PICK given \in [Hosts -> InitialUploads] :
        uploaded = [d \in Hosts |-> [f \in Fields |->
          IF f \in UNION given[d] THEN [host |-> d, rev |-> 1] ELSE NoPEM]]
  BY DEF Init
<1>2. \A d \in Hosts : [host |-> d, rev |-> 1] \in PEM
  BY DEF PEM
<1>3. uploaded \in [Hosts -> Settings]
  BY <1>1, <1>2 DEF Settings
<1>4. TypeOK
  BY <1>3 DEF Init, TypeOK
<1>5. SoundPEM
  <2>1. ASSUME NEW d \in Hosts PROVE Sound(uploaded[d], d)
    <3>1. given[d] \subseteq Uploads
      BY DEF Uploads
    <3>2. "tls_certificate" \in UNION given[d] <=> "tls_key" \in UNION given[d]
      BY <3>1 DEF Uploads, KeyPair
    <3>3. QED
      BY <1>1, <3>2 DEF Sound, Fields, KeyPair
  <2>2. QED
    BY <2>1, NoJobSound DEF SoundPEM, Init
<1>6. QED
  BY <1>4, <1>5 DEF Init, Inv, OnePlace, OneJob, Dates, Dated, JobsCurrent, UpToDate,
     AnswerCurrent

-----------------------------------------------------------------------------
LEMMA MergeFacts ==
  ASSUME NEW prev \in Job, NEW new \in Job
  PROVE  /\ Merge(prev, new) \in Job
         /\ Merge(prev, new).id = new.id /\ Merge(prev, new).tls = new.tls
         /\ prev.id # 0 /\ new.id # 0 /\ prev.id # new.id => Merge(prev, new) = new
         /\ ~(prev.id # 0 /\ new.id # 0 /\ prev.id # new.id) =>
              /\ Merge(prev, new).rev = IF new.rev = 0 THEN prev.rev ELSE new.rev
              /\ \A f \in Fields : Merge(prev, new).pem[f] =
                   IF new.pem[f] = NoPEM THEN prev.pem[f] ELSE new.pem[f]
<1> DEFINE kept == [new EXCEPT
      !.pem = [f \in Fields |-> IF @[f] = NoPEM THEN prev.pem[f] ELSE @[f]],
      !.rev = IF @ <= 0 THEN prev.rev ELSE @]
<1>1. new.rev \in Nat /\ prev.rev \in Nat /\ new.pem \in Settings /\ prev.pem \in Settings
  BY DEF Job
<1>2. [f \in Fields |-> IF new.pem[f] = NoPEM THEN prev.pem[f] ELSE new.pem[f]] \in Settings
  BY <1>1 DEF Settings
<1>3. new.rev <= 0 <=> new.rev = 0
  BY <1>1
<1>4. /\ kept \in Job /\ kept.id = new.id /\ kept.tls = new.tls
      /\ kept.rev = IF new.rev = 0 THEN prev.rev ELSE new.rev
      /\ \A f \in Fields : kept.pem[f] = IF new.pem[f] = NoPEM THEN prev.pem[f] ELSE new.pem[f]
  BY <1>1, <1>2, <1>3 DEF Job
<1>5. QED
  BY <1>4 DEF Merge

LEMMA ClaimedFacts ==
  ASSUME TypeOK, NEW d \in Hosts
  PROVE  /\ Claimed[d] \in Nat
         /\ Claimed[d] > 0 => \E k \in Claimants(d) : docker[k].rev = Claimed[d]
<1>1. CASE Claimants(d) = {}
  BY <1>1 DEF Claimed
<1>2. CASE Claimants(d) # {}
  <2>1. PICK k : k = CHOOSE l \in Claimants(d) : TRUE
    OBVIOUS
  <2>2. k \in Claimants(d)
    BY <1>2, <2>1
  <2>3. Claimed[d] = docker[k].rev
    BY <1>2, <2>1 DEF Claimed
  <2>4. docker[k].rev \in Nat
    BY <2>2 DEF Claimants, TypeOK, Job
  <2>5. QED
    BY <2>2, <2>3, <2>4
<1>3. QED
  BY <1>1, <1>2

\* Edits and switches: the host's revision is now later than any the worker has
\* or is about to have, so nothing of it counts as up to date.
LEMMA EditKeeps ==
  ASSUME Inv, NEW d \in Hosts, Save(d), edited' = [edited EXCEPT ![d] = time + 1],
         UNCHANGED <<place, docker, answered, answer>>,
         uploaded' \in [Hosts -> Settings], tls' \in [Hosts -> BOOLEAN],
         \A e \in Hosts : Sound(uploaded'[e], e),
         \A e \in Hosts \ {d} : uploaded'[e] = uploaded[e] /\ tls'[e] = tls[e]
  PROVE  Inv'
<1> USE DEF Inv
<1>1. time \in Nat /\ revision \in [Hosts -> Nat] /\ edited \in [Hosts -> Nat]
  BY DEF TypeOK
<1>2. revision' \in [Hosts -> Nat] /\ edited' \in [Hosts -> Nat] /\ time' \in Nat
  BY <1>1 DEF Save
<1>3. TypeOK'
  BY <1>2 DEF TypeOK
<1>4. /\ revision'[d] = time + 1 /\ edited'[d] = time + 1 /\ time' = time + 1
      /\ \A e \in Hosts \ {d} : revision'[e] = revision[e] /\ edited'[e] = edited[e]
  BY <1>1 DEF Save
<1>5. \A k \in JobIds : /\ docker[k] \in Job /\ answer[k] \in Job
                        /\ docker[k].id \in Hosts \cup {0} /\ answer[k].id \in Hosts \cup {0}
                        /\ docker[k].rev \in Nat /\ answer[k].rev \in Nat
  BY DEF TypeOK, Job
<1>6. Dates'
  BY <1>1, <1>4, <1>5 DEF Dates, Dated
<1>7. \A k \in JobIds : /\ docker[k].id = d => docker[k].rev < edited'[d]
                        /\ answer[k].id = d => answer[k].rev < edited'[d]
  BY <1>1, <1>4, <1>5, DockerTLSAssumption DEF Dates, Dated
<1>8. JobsCurrent'
  <2> SUFFICES ASSUME NEW k \in JobIds, UpToDate(docker[k])'
               PROVE  /\ docker[k].tls = tls'[docker[k].id]
                      /\ docker[k].tls /\ HasCachedTLS(docker[k]) => Has(docker[k], docker[k].id)'
    BY DEF JobsCurrent, HasCachedTLS
  <2>1. docker[k].id \in Hosts \ {d}
    BY <1>2, <1>5, <1>7 DEF UpToDate
  <2>2. UpToDate(docker[k])
    BY <1>4, <2>1 DEF UpToDate
  <2>3. QED
    BY <2>1, <2>2 DEF JobsCurrent, Has
<1>9. AnswerCurrent'
  <2> SUFFICES ASSUME NEW k \in JobIds, answer[k].id # 0,
                      (UpToDate(answer[k]) \/ WorkerUpToDate(answer[k].id))'
               PROVE  Answered(answer[k], answer[k].id)'
    BY DEF AnswerCurrent
  <2> DEFINE e == answer[k].id
  <2>1. e \in Hosts \ {d}
    BY <1>2, <1>5, <1>7 DEF UpToDate, WorkerUpToDate
  <2>2. UpToDate(answer[k]) \/ WorkerUpToDate(e)
    BY <1>4, <2>1 DEF UpToDate, WorkerUpToDate
  <2>3. Answered(answer[k], e)
    BY <2>2 DEF AnswerCurrent
  <2>4. Claimants(e)' = Claimants(e)
    BY DEF Claimants, HasCachedTLS
  <2>5. QED
    BY <1>4, <2>1, <2>3, <2>4 DEF Answered
<1>10. SoundPEM'
  BY DEF SoundPEM, Sound
<1>11. QED
  BY <1>3, <1>6, <1>8, <1>9, <1>10 DEF OnePlace, OneJob

LEMMA StateSavedKeeps == ASSUME Inv, NEW d \in Hosts, StateSaved(d) PROVE Inv'
<1> USE DEF Inv
<1>1. time \in Nat /\ revision \in [Hosts -> Nat] /\ edited \in [Hosts -> Nat]
  BY DEF TypeOK
<1>2. revision' \in [Hosts -> Nat] /\ time' \in Nat /\ revision'[d] = time + 1
      /\ time' = time + 1 /\ \A e \in Hosts \ {d} : revision'[e] = revision[e]
  BY <1>1 DEF StateSaved, Save
<1>3. UNCHANGED <<uploaded, tls, edited, place, docker, answered, answer>>
  BY DEF StateSaved, getVars
<1>4. TypeOK'
  BY <1>2, <1>3 DEF TypeOK
<1>5. \A k \in JobIds : docker[k].rev \in Nat /\ answer[k].rev \in Nat
                        /\ docker[k].id \in Hosts \cup {0} /\ answer[k].id \in Hosts \cup {0}
  BY DEF TypeOK, Job
<1>6. Dates'
  BY <1>1, <1>2, <1>3, <1>5 DEF Dates, Dated
<1>7. QED
  BY <1>3, <1>4, <1>6 DEF OnePlace, OneJob, SoundPEM, Sound, JobsCurrent, UpToDate,
     AnswerCurrent, WorkerUpToDate, Answered, Claimants, HasCachedTLS, Has

LEMMA RelistKeeps == ASSUME Inv, NEW d \in Hosts, Relist(d) PROVE Inv'
<1> USE DEF Inv
<1>1. PICK k \in (JobIds \ {place[e] : e \in Hosts}) \cup {Unlisted} :
        place' = [place EXCEPT ![d] = k]
  BY DEF Relist
<1>2. UNCHANGED <<time, uploaded, tls, revision, edited, docker, answered, answer>>
  BY DEF Relist, getVars
<1>3. TypeOK' /\ OnePlace'
  BY <1>1, <1>2, DockerTLSAssumption DEF TypeOK, OnePlace
<1>4. QED
  BY <1>2, <1>3 DEF OneJob, Dates, Dated, SoundPEM, Sound, JobsCurrent, UpToDate,
     AnswerCurrent, WorkerUpToDate, Answered, Claimants, HasCachedTLS, Has

-----------------------------------------------------------------------------
LEMMA AnswersKeep == ASSUME Inv, ServerAnswers PROVE Inv'
<1> USE DEF Inv
<1>1. PICK brief \in SUBSET {d \in Hosts : MayOmit(d)}, undated \in SUBSET Hosts :
        answer' = [k \in JobIds |->
          IF \A d \in Hosts : place[d] # k THEN NoJob
          ELSE LET d == CHOOSE e \in Hosts : place[e] = k
               IN  Listing(d, IF d \in undated THEN 0 ELSE revision[d],
                              IF d \in brief THEN Empty ELSE uploaded[d])]
  BY DEF ServerAnswers
<1>2. UNCHANGED <<time, uploaded, tls, revision, edited, place, docker>> /\ answered' = TRUE
  BY DEF ServerAnswers, serverVars
<1>3. time \in Nat /\ revision \in [Hosts -> Nat] /\ edited \in [Hosts -> Nat]
      /\ tls \in [Hosts -> BOOLEAN] /\ uploaded \in [Hosts -> Settings]
  BY DEF TypeOK
<1>4. ASSUME NEW k \in JobIds
      PROVE  \/ answer'[k] = NoJob
             \/ \E d \in Hosts :
                  /\ place[d] = k /\ answer'[k].id = d /\ answer'[k].tls = tls[d]
                  /\ answer'[k] \in Job
                  /\ answer'[k].rev <= revision[d]
                  /\ answer'[k].pem = uploaded[d] \/ (answer'[k].pem = Empty /\ MayOmit(d))
  <2>1. CASE \A d \in Hosts : place[d] # k
    BY <1>1, <2>1
  <2>2. CASE \E d \in Hosts : place[d] = k
    <3>1. PICK d : d = CHOOSE e \in Hosts : place[e] = k
      OBVIOUS
    <3>2. d \in Hosts /\ place[d] = k
      BY <2>2, <3>1
    <3>3. answer'[k] = Listing(d, IF d \in undated THEN 0 ELSE revision[d],
                                  IF d \in brief THEN Empty ELSE uploaded[d])
      BY <1>1, <2>2, <3>1
    <3>4. revision[d] \in Nat /\ uploaded[d] \in Settings /\ tls[d] \in BOOLEAN
      BY <1>3, <3>2
    <3>5. QED
      BY <3>2, <3>3, <3>4, NoJobFacts DEF Listing, Job
  <2>3. QED
    BY <2>1, <2>2
<1>5. TypeOK'
  <2>1. answer' \in [JobIds -> Job]
    <3>1. \A k \in JobIds : answer'[k] \in Job
      BY <1>4, NoJobFacts
    <3>2. QED
      BY <1>1, <3>1
  <2>2. QED
    BY <1>2, <2>1 DEF TypeOK
<1>6. OneJob(answer')
  BY <1>4, NoJobFacts DEF OneJob
<1>7. Dates'
  BY <1>2, <1>3, <1>4, NoJobFacts DEF Dates, Dated
<1>8. SoundPEM'
  <2>1. \A k \in JobIds : Sound(answer'[k].pem, answer'[k].id)
    BY <1>4, NoJobFacts, NoJobSound DEF SoundPEM
  <2>2. QED
    BY <1>2, <2>1 DEF SoundPEM, Sound
<1>9. AnswerCurrent'
  <2> SUFFICES ASSUME NEW k \in JobIds, answer'[k].id # 0
               PROVE  Answered(answer[k], answer[k].id)'
    BY DEF AnswerCurrent
  <2>1. PICK d \in Hosts :
          /\ answer'[k].id = d /\ answer'[k].tls = tls[d]
          /\ answer'[k].pem = uploaded[d] \/ (answer'[k].pem = Empty /\ MayOmit(d))
    BY <1>4, NoJobFacts
  <2>2. ASSUME tls[d], MayOmit(d) PROVE \E l \in Claimants(d) : docker[l].rev >= edited[d]
    BY <2>2, ClaimedFacts DEF MayOmit
  <2>3. Claimants(d)' = Claimants(d)
    BY <1>2 DEF Claimants, HasCachedTLS
  <2>4. QED
    BY <1>2, <2>1, <2>2, <2>3 DEF Answered
<1>10. QED
  BY <1>2, <1>5, <1>6, <1>7, <1>8, <1>9 DEF OnePlace, OneJob, JobsCurrent, UpToDate,
     HasCachedTLS, Has

\* The heart of the matter: whatever the answer omits, the job that results is up
\* to date only with all that it would claim to have.
LEMMA ArrivalKeeps == ASSUME Inv, AnswerArrives PROVE Inv'
<1> USE DEF Inv
<1>1. /\ UNCHANGED <<time, uploaded, tls, revision, edited, place>>
      /\ answered' = FALSE /\ answer' = [k \in JobIds |-> NoJob]
      /\ docker' = [k \in JobIds |-> IF answer[k].id = 0 THEN NoJob
                                     ELSE Merge(docker[k], answer[k])]
  BY DEF AnswerArrives, Forget, Unlist, serverVars
<1>2. revision \in [Hosts -> Nat] /\ edited \in [Hosts -> Nat]
  BY DEF TypeOK
<1>3. ASSUME NEW k \in JobIds
      PROVE  /\ docker[k] \in Job /\ answer[k] \in Job /\ docker'[k] \in Job
             /\ docker'[k].id = answer[k].id
             /\ answer[k].id = 0 => docker'[k] = NoJob
             /\ answer[k].id # 0 => docker'[k] = Merge(docker[k], answer[k])
  <2>1. docker[k] \in Job /\ answer[k] \in Job
    BY DEF TypeOK
  <2>2. QED
    BY <1>1, <2>1, MergeFacts, NoJobFacts
<1>4. \A k \in JobIds : docker[k].id = 0 => docker[k].rev = 0 /\ docker[k].pem = Empty
  BY NoJobFacts DEF TypeOK
<1>5. TypeOK'
  BY <1>1, <1>3, NoJobFacts DEF TypeOK
<1>6. OneJob(docker') /\ OneJob(answer') /\ OnePlace'
  BY <1>1, <1>3, NoJobFacts DEF OneJob, OnePlace
<1>7. ASSUME NEW k \in JobIds, answer[k].id # 0
      PROVE  \/ /\ docker[k].id # answer[k].id
                /\ docker'[k].rev = answer[k].rev
                /\ \A f \in Fields : docker'[k].pem[f] = answer[k].pem[f]
             \/ /\ docker[k].id = answer[k].id
                /\ docker'[k].rev = IF answer[k].rev = 0 THEN docker[k].rev ELSE answer[k].rev
                /\ \A f \in Fields : docker'[k].pem[f] =
                     IF answer[k].pem[f] = NoPEM THEN docker[k].pem[f] ELSE answer[k].pem[f]
  <2>1. CASE docker[k].id = 0
    <3>1. /\ docker'[k].rev = IF answer[k].rev = 0 THEN docker[k].rev ELSE answer[k].rev
          /\ \A f \in Fields : docker'[k].pem[f] =
               IF answer[k].pem[f] = NoPEM THEN docker[k].pem[f] ELSE answer[k].pem[f]
      BY <1>3, <1>7, <2>1, MergeFacts
    <3>2. docker[k].rev = 0 /\ \A f \in Fields : docker[k].pem[f] = NoPEM
      BY <1>4, <2>1, NoJobFacts
    <3>3. QED
      BY <1>7, <2>1, <3>1, <3>2
  <2>2. CASE docker[k].id # 0 /\ docker[k].id # answer[k].id
    BY <1>3, <1>7, <2>2, MergeFacts
  <2>3. CASE docker[k].id = answer[k].id
    BY <1>3, <1>7, <2>3, MergeFacts
  <2>4. QED
    BY <2>1, <2>2, <2>3
<1>8. Dates'
  <2>1. ASSUME NEW k \in JobIds PROVE Dated(docker[k])'
    <3>1. CASE answer[k].id = 0
      BY <1>3, <3>1, NoJobFacts DEF Dated
    <3>2. CASE answer[k].id # 0
      BY <1>1, <1>3, <1>7, <3>2 DEF Dates, Dated
    <3>3. QED
      BY <3>1, <3>2
  <2>2. QED
    BY <1>1, <2>1, NoJobFacts DEF Dates, Dated
<1>9. SoundPEM'
  <2>1. ASSUME NEW k \in JobIds PROVE Sound(docker'[k].pem, docker'[k].id)
    <3>1. CASE answer[k].id = 0
      BY <1>3, <3>1, NoJobFacts, NoJobSound
    <3>2. CASE answer[k].id # 0
      BY <1>3, <1>7, <3>2 DEF SoundPEM, Sound, Fields, KeyPair
    <3>3. QED
      BY <3>1, <3>2
  <2>2. QED
    BY <1>1, <2>1, NoJobFacts, NoJobSound DEF SoundPEM, Sound
<1>10. JobsCurrent'
  <2> SUFFICES ASSUME NEW k \in JobIds, UpToDate(docker[k])'
               PROVE  /\ docker'[k].tls = tls[docker'[k].id]
                      /\ docker'[k].tls /\ HasCachedTLS(docker'[k])
                           => \A f \in Fields : uploaded[docker'[k].id][f] # NoPEM =>
                                docker'[k].pem[f] = uploaded[docker'[k].id][f]
    BY <1>1 DEF JobsCurrent, Has
  <2> DEFINE d == answer[k].id
  <2>1. d # 0 /\ docker'[k].id = d /\ d \in Hosts
    BY <1>3 DEF UpToDate, Job
  <2>2. docker'[k].rev >= edited[d]
    BY <1>1, <2>1 DEF UpToDate
  <2>3. edited[d] \in Nat /\ answer[k].rev \in Nat /\ docker[k].rev \in Nat
    BY <1>2, <1>3, <2>1 DEF Job
  <2>4. UpToDate(answer[k]) \/ (docker[k].id = d /\ docker[k].rev >= edited[d])
    BY <1>7, <2>1, <2>2, <2>3 DEF UpToDate
  <2>5. Answered(answer[k], d)
    BY <2>1, <2>4 DEF AnswerCurrent, WorkerUpToDate
  <2>6. docker'[k].tls = tls[d]
    BY <1>3, <2>1, <2>5, MergeFacts DEF Answered
  <2>7. ASSUME tls[d], HasCachedTLS(docker'[k]), NEW f \in Fields, uploaded[d][f] # NoPEM
        PROVE  docker'[k].pem[f] = uploaded[d][f]
    <3>1. CASE answer[k].pem = uploaded[d]
      BY <1>7, <2>1, <2>7, <3>1
    <3>2. CASE answer[k].pem = Empty /\ \E l \in Claimants(d) : docker[l].rev >= edited[d]
      <4>1. PICK l \in Claimants(d) : docker[l].rev >= edited[d]
        BY <3>2
      <4>2. l \in JobIds /\ docker[l].id = d /\ HasCachedTLS(docker[l])
        BY <4>1 DEF Claimants
      <4>3. docker[l].tls = tls[d] /\ Has(docker[l], d)
        BY <2>1, <2>7, <4>1, <4>2 DEF JobsCurrent, UpToDate
      <4>4. CASE docker[k].id = d
        <5>1. k = l
          BY <2>1, <4>2, <4>4 DEF OneJob
        <5>2. docker'[k].pem[f] = docker[k].pem[f]
          BY <1>7, <2>1, <3>2, <4>4, NoJobFacts
        <5>3. QED
          BY <2>7, <4>3, <5>1, <5>2 DEF Has
      <4>5. CASE docker[k].id # d
        <5>1. docker'[k].pem["tls_ca_file"] = NoPEM
          BY <1>7, <2>1, <3>2, <4>5, NoJobFacts DEF Fields
        <5>2. QED
          BY <2>6, <2>7, <5>1 DEF HasCachedTLS
      <4>6. QED
        BY <4>4, <4>5
    <3>3. QED
      BY <2>5, <2>7, <3>1, <3>2 DEF Answered
  <2>8. QED
    BY <2>1, <2>6, <2>7
<1>11. AnswerCurrent'
  BY <1>1, NoJobFacts DEF AnswerCurrent
<1>12. QED
  BY <1>5, <1>6, <1>8, <1>9, <1>10, <1>11

LEMMA LossKeeps == ASSUME Inv, AnswerLost PROVE Inv'
<1> USE DEF Inv
<1>1. /\ UNCHANGED <<time, uploaded, tls, revision, edited, place, docker>>
      /\ answered' = FALSE /\ answer' = [k \in JobIds |-> NoJob]
  BY DEF AnswerLost, Forget, serverVars
<1>2. QED
  BY <1>1, NoJobFacts, NoJobSound DEF TypeOK, OnePlace, OneJob, Dates, Dated, SoundPEM, Sound,
     JobsCurrent, UpToDate, HasCachedTLS, Has, AnswerCurrent

LEMMA RestartKeeps == ASSUME Inv, Restart PROVE Inv'
<1> USE DEF Inv
<1>1. /\ UNCHANGED <<time, uploaded, tls, revision, edited, place>>
      /\ answered' = FALSE /\ answer' = [k \in JobIds |-> NoJob]
      /\ docker' = [k \in JobIds |-> NoJob]
  BY DEF Restart, Forget, serverVars
<1>2. QED
  BY <1>1, NoJobFacts, NoJobSound DEF TypeOK, OnePlace, OneJob, Dates, Dated, SoundPEM, Sound,
     JobsCurrent, UpToDate, AnswerCurrent

-----------------------------------------------------------------------------
LEMMA StepKeeps == ASSUME Inv, [Next]_vars PROVE Inv'
<1>1. ASSUME NEW d \in Hosts, Edit(d) PROVE Inv'
  <2>1. PICK fields \in Uploads, new \in {NoPEM, [host |-> d, rev |-> time + 1]} :
          uploaded' = [uploaded EXCEPT ![d] =
                         [f \in Fields |-> IF f \in fields THEN new ELSE @[f]]]
    BY <1>1 DEF Edit
  <2>2. time \in Nat /\ uploaded \in [Hosts -> Settings]
    BY DEF Inv, TypeOK
  <2>3. new \in PEM \cup {NoPEM}
    BY <2>2 DEF PEM
  <2>4. uploaded' \in [Hosts -> Settings]
    BY <2>1, <2>2, <2>3 DEF Settings
  <2>5. /\ \A e \in Hosts \ {d} : uploaded'[e] = uploaded[e]
        /\ uploaded'[d] = [f \in Fields |-> IF f \in fields THEN new ELSE uploaded[d][f]]
    BY <2>1, <2>2
  <2>6. Sound(uploaded'[d], d)
    <3>1. "tls_certificate" \in fields <=> "tls_key" \in fields
      BY DEF Uploads, KeyPair
    <3>2. Sound(uploaded[d], d)
      BY DEF Inv, SoundPEM
    <3>3. QED
      BY <2>5, <3>1, <3>2 DEF Sound, Fields, KeyPair
  <2>7. \A e \in Hosts : Sound(uploaded'[e], e)
    BY <2>5, <2>6 DEF Inv, SoundPEM
  <2>8. QED
    BY <1>1, <2>4, <2>5, <2>7, EditKeeps DEF Edit, getVars, Inv, TypeOK
<1>2. ASSUME NEW d \in Hosts, SwitchTLS(d) PROVE Inv'
  <2>1. tls' \in [Hosts -> BOOLEAN] /\ \A e \in Hosts \ {d} : tls'[e] = tls[e]
    BY <1>2 DEF SwitchTLS, Inv, TypeOK
  <2>2. uploaded' = uploaded /\ UNCHANGED <<place, docker, answered, answer>>
    BY <1>2 DEF SwitchTLS, getVars
  <2>3. \A e \in Hosts : Sound(uploaded'[e], e)
    BY <2>2 DEF Inv, SoundPEM
  <2>4. QED
    BY <1>2, <2>1, <2>2, <2>3, EditKeeps DEF SwitchTLS, Inv, TypeOK
<1>3. CASE UNCHANGED vars
  BY <1>3 DEF vars, serverVars, getVars, Inv, TypeOK, OnePlace, OneJob, Dates, Dated, SoundPEM,
     Sound, JobsCurrent, UpToDate, HasCachedTLS, Has, AnswerCurrent, WorkerUpToDate, Answered,
     Claimants
<1>4. QED
  BY <1>1, <1>2, <1>3, StateSavedKeeps, RelistKeeps, AnswersKeep, ArrivalKeeps, LossKeeps,
     RestartKeeps DEF Next

THEOREM CacheInvariant == Spec => []Inv
<1>1. Init => Inv
  BY InitHolds
<1>2. Inv /\ [Next]_vars => Inv'
  BY StepKeeps
<1>3. QED
  BY <1>1, <1>2, PTL DEF Spec

\* The variables have their types, and a job that is not listed has nothing left
\* (syncDockersLocked replaces it by model.Job{}).
THEOREM CacheTypeCorrect == Spec => []TypeOK
<1>1. Inv => TypeOK
  BY DEF Inv
<1>2. QED
  BY <1>1, CacheInvariant, PTL

\* The worker's docker_tls_sync is true of every host with TLS.
THEOREM ClaimsAreTruthful == Spec => []ClaimIsTruthful
<1>1. Inv => ClaimIsTruthful
  <2> SUFFICES ASSUME Inv, NEW d \in Hosts, NEW k \in Claimants(d), tls[d],
                      docker[k].rev >= edited[d]
               PROVE  Has(docker[k], d)
    BY DEF ClaimIsTruthful
  <2>1. k \in JobIds /\ docker[k].id = d /\ HasCachedTLS(docker[k]) /\ d # 0
    BY DockerTLSAssumption DEF Claimants
  <2>2. QED
    BY <2>1 DEF Inv, JobsCurrent, UpToDate
<1>2. QED
  BY <1>1, CacheInvariant, PTL

\* A check never meets half a key pair, a mixed one, or the PEM of another host.
THEOREM CachedPEMIsUsable == Spec => []PEMIsUsable
<1>1. Inv => PEMIsUsable
  <2> SUFFICES ASSUME Inv, NEW k \in JobIds
               PROVE  /\ ClientCertificate(docker[k]) # "refused"
                      /\ \A f \in Fields : docker[k].pem[f] # NoPEM =>
                           docker[k].pem[f].host = docker[k].id
    BY DEF PEMIsUsable
  <2>1. Sound(docker[k].pem, docker[k].id)
    BY DEF Inv, SoundPEM
  <2>2. PICK p : p = docker[k].pem["tls_key"]
    OBVIOUS
  <2>3. {docker[k].pem[f] : f \in KeyPair} = {p}
    BY <2>1, <2>2 DEF Sound, KeyPair
  <2>4. ClientCertificate(docker[k]) # "refused"
    BY <2>3 DEF ClientCertificate
  <2>5. QED
    BY <2>1, <2>4 DEF Sound
<1>2. QED
  BY <1>1, CacheInvariant, PTL
=============================================================================
