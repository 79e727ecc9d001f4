------------------------------ MODULE DockerTLS ------------------------------
(***************************************************************************)
(* The PEM of docker hosts: the server keeps it, the worker caches it in   *)
(* its docker jobs, and says in every get/ which revision of each host it  *)
(* has (docker_tls_sync), so that the server may leave the PEM out of its  *)
(* answer.  The server is external: what is assumed of it stands in        *)
(* MayOmit and Edit.  Jobs are named by job id, docker hosts by docker id; *)
(* the server decides under which job a host is listed, and may change it. *)
(***************************************************************************)
EXTENDS Integers

CONSTANTS
  Hosts,    \* docker ids
  JobIds,   \* job ids
  NoPEM,    \* an empty field
  InitialUploads, InitialTLS,  \* what a host may have when the worker starts
  MaxTime   \* per host: bound on the server's clock when it is saved last

Unlisted == 0

\* The certificate and its key are uploaded together, the CA by itself.
KeyPair == {"tls_certificate", "tls_key"}
Fields  == {"tls_ca_file"} \cup KeyPair
Uploads == {{"tls_ca_file"}, KeyPair}

ASSUME DockerTLSAssumption ==
  /\ Hosts \subseteq Nat \ {0} /\ JobIds \subseteq Nat \ {0} /\ MaxTime \in [Hosts -> Nat]
  /\ InitialUploads \subseteq SUBSET Uploads /\ InitialTLS \subseteq BOOLEAN
  /\ NoPEM \notin [host : Hosts, rev : Nat]

VARIABLES
  time,      \* the server's clock, in seconds at which something is saved
  uploaded,  \* per host and field: the PEM the server keeps
  tls,       \* per host: is TLS on?
  revision,  \* per host: dockers.update_time
  edited,    \* per host: the revision its settings were last edited at
  place,     \* per host: the job it is listed under
  docker,    \* per job id: the docker job the worker has
  answered,  \* has the server answered a get/ whose answer is under way?
  answer     \* the dockers of that answer

serverVars == <<time, uploaded, tls, revision, edited, place>>
getVars    == <<answered, answer>>
vars == <<serverVars, docker, getVars>>

PEM == [host : Hosts, rev : Nat]
Settings == [Fields -> PEM \cup {NoPEM}]
Empty == [f \in Fields |-> NoPEM]

Job  == [id : Hosts \cup {0}, rev : Nat, tls : BOOLEAN, pem : Settings]
NoJob == [id |-> 0, rev |-> 0, tls |-> FALSE, pem |-> Empty]

Init ==
  /\ time = 1
  /\ \E given \in [Hosts -> InitialUploads] :
       uploaded = [d \in Hosts |-> [f \in Fields |->
         IF f \in UNION given[d] THEN [host |-> d, rev |-> 1] ELSE NoPEM]]
  /\ tls \in [Hosts -> InitialTLS]
  /\ revision = [d \in Hosts |-> 1] /\ edited = [d \in Hosts |-> 1]
  /\ place = [d \in Hosts |-> Unlisted]
  /\ docker = [k \in JobIds |-> NoJob]
  /\ answered = FALSE /\ answer = [k \in JobIds |-> NoJob]

-----------------------------------------------------------------------------
(* The claims of the worker (dockerTLSSyncLocked). *)

\* dockerJobHasCachedTLS
HasCachedTLS_Always(j) == TRUE
HasCachedTLS(j) == j.tls => j.pem["tls_ca_file"] # NoPEM

\* The jobs dockerTLSSyncLocked speaks of, and what it says.
Claimants(d) ==
  {k \in JobIds : docker[k].id = d /\ docker[k].rev > 0 /\ HasCachedTLS(docker[k])}
Claimed ==
  [d \in Hosts |-> IF Claimants(d) = {} THEN 0
                   ELSE docker[CHOOSE k \in Claimants(d) : TRUE].rev]

-----------------------------------------------------------------------------
(* The server.  An edit and the save of a host's state both give the host the *)
(* time as its revision; no two fall into one second.                         *)

Save(d) ==
  /\ time < MaxTime[d] /\ time' = time + 1
  /\ revision' = [revision EXCEPT ![d] = time + 1]

\* One upload replaces the PEM of its fields, or takes it away.
Edit(d) ==
  /\ Save(d) /\ edited' = [edited EXCEPT ![d] = time + 1]
  /\ \E fields \in Uploads, new \in {NoPEM, [host |-> d, rev |-> time + 1]} :
       uploaded' = [uploaded EXCEPT ![d] =
                      [f \in Fields |-> IF f \in fields THEN new ELSE @[f]]]
  /\ UNCHANGED <<tls, place, docker, getVars>>

SwitchTLS(d) ==
  /\ Save(d) /\ edited' = [edited EXCEPT ![d] = time + 1]
  /\ tls' = [tls EXCEPT ![d] = ~@]
  /\ UNCHANGED <<uploaded, place, docker, getVars>>

StateSaved(d) ==
  /\ Save(d)
  /\ UNCHANGED <<uploaded, tls, edited, place, docker, getVars>>

\* A host is listed under another job, or no longer; never two under one job.
Relist(d) ==
  /\ \E k \in (JobIds \ {place[e] : e \in Hosts}) \cup {Unlisted} :
       place' = [place EXCEPT ![d] = k]
  /\ UNCHANGED <<time, uploaded, tls, revision, edited, docker, getVars>>

\* The server may leave out PEM that it does not need to send: TLS is off, or
\* the worker has claimed a revision not older than the last edit.
MayOmit(d) == ~tls[d] \/ (Claimed[d] > 0 /\ Claimed[d] >= edited[d])

\* The job the server lists for host d; `rev` is 0 when it names no revision.
Listing(d, rev, pem) == [id |-> d, rev |-> rev, tls |-> tls[d], pem |-> pem]

\* getJobs sends its claims and the server answers.  The worker's cache stays as
\* it is while the request is under way, so the two are one step.
ServerAnswers ==
  /\ ~answered /\ answered' = TRUE
  /\ \E brief \in SUBSET {d \in Hosts : MayOmit(d)}, undated \in SUBSET Hosts :
       answer' = [k \in JobIds |->
         IF \A d \in Hosts : place[d] # k THEN NoJob
         ELSE LET d == CHOOSE e \in Hosts : place[e] = k
              IN  Listing(d, IF d \in undated THEN 0 ELSE revision[d],
                             IF d \in brief THEN Empty ELSE uploaded[d])]
  /\ UNCHANGED <<serverVars, docker>>

-----------------------------------------------------------------------------
(* The worker. *)

\* MergeDockerTLS: what the answer leaves out is kept, for the same host.
Merge_AnyHost(prev, new) ==
  [new EXCEPT !.pem = [f \in Fields |-> IF @[f] = NoPEM THEN prev.pem[f] ELSE @[f]],
              !.rev = IF @ <= 0 THEN prev.rev ELSE @]
Merge_CacheWins(prev, new) ==
  IF prev.id # 0 /\ new.id # 0 /\ prev.id # new.id THEN new
  ELSE [new EXCEPT !.pem = [f \in Fields |-> IF prev.pem[f] # NoPEM THEN prev.pem[f] ELSE @[f]],
                   !.rev = IF @ <= 0 THEN prev.rev ELSE @]
Merge(prev, new) ==
  IF prev.id # 0 /\ new.id # 0 /\ prev.id # new.id THEN new
  ELSE [new EXCEPT !.pem = [f \in Fields |-> IF @[f] = NoPEM THEN prev.pem[f] ELSE @[f]],
                   !.rev = IF @ <= 0 THEN prev.rev ELSE @]

Forget == answered' = FALSE /\ answer' = [k \in JobIds |-> NoJob]

\* What becomes of a job that is no longer listed.
Unlist_ClearsId(j) == [j EXCEPT !.id = 0]
Unlist(j) == NoJob

\* syncDockersLocked
AnswerArrives ==
  /\ answered /\ Forget
  /\ docker' = [k \in JobIds |-> IF answer[k].id = 0 THEN Unlist(docker[k])
                              ELSE Merge(docker[k], answer[k])]
  /\ UNCHANGED serverVars

\* getJobs ends without a list.
AnswerLost ==
  /\ answered /\ Forget
  /\ UNCHANGED <<serverVars, docker>>

\* A new process has nothing cached.
Restart ==
  /\ docker' = [k \in JobIds |-> NoJob] /\ Forget
  /\ UNCHANGED serverVars

Next ==
  \/ \E d \in Hosts : Edit(d) \/ SwitchTLS(d) \/ StateSaved(d) \/ Relist(d)
  \/ ServerAnswers \/ AnswerArrives \/ AnswerLost \/ Restart

Spec == Init /\ [][Next]_vars

-----------------------------------------------------------------------------
(* What a check of the job sends (RunDocker). *)

\* loadMTLSKeyPair takes a certificate and a key only as a pair.
ClientCertificate(j) ==
  LET pair == {j.pem[f] : f \in KeyPair}
  IN  IF pair = {NoPEM} THEN "none"
      ELSE IF NoPEM \in pair \/ \E p, q \in pair : p # q THEN "refused" ELSE "sent"

-----------------------------------------------------------------------------
(* Safety. *)

\* The types of the variables; nothing is left of a job that is not listed, which
\* a later job in its place would take over.
TypeOK ==
  /\ time \in Nat /\ uploaded \in [Hosts -> Settings] /\ tls \in [Hosts -> BOOLEAN]
  /\ revision \in [Hosts -> Nat] /\ edited \in [Hosts -> Nat]
  /\ place \in [Hosts -> JobIds \cup {Unlisted}]
  /\ docker \in [JobIds -> Job] /\ answer \in [JobIds -> Job]
  /\ \A k \in JobIds : docker[k].id = 0 => docker[k] = NoJob
  /\ answered \in BOOLEAN

Has(j, d) == \A f \in Fields : uploaded[d][f] # NoPEM => j.pem[f] = uploaded[d][f]

\* What the worker would claim is true: if it names a revision not older than
\* the last edit of a host with TLS, on the strength of which the server may
\* leave the PEM out, the job has every PEM the server has for that host.
ClaimIsTruthful ==
  \A d \in Hosts : \A k \in Claimants(d) :
     tls[d] /\ docker[k].rev >= edited[d] => Has(docker[k], d)

\* Whatever answers leave out, a job never holds PEM of another host, nor half
\* of a key pair, nor a certificate with the key of another upload.
PEMIsUsable ==
  \A k \in JobIds :
     /\ ClientCertificate(docker[k]) # "refused"
     /\ \A f \in Fields : docker[k].pem[f] # NoPEM => docker[k].pem[f].host = docker[k].id

-----------------------------------------------------------------------------
(* Liveness.  getJobs is called again and again (LoopTurns of Worker), and    *)
(* some of its answers get through.                                          *)

Fairness == WF_vars(ServerAnswers) /\ SF_vars(AnswerArrives)
FairSpec == Spec /\ Fairness

\* Every listed host with TLS has its PEM.
AllHavePEM ==
  \A d \in Hosts : place[d] # Unlisted /\ tls[d] =>
     docker[place[d]].id = d /\ Has(docker[place[d]], d)

Disturbed == Restart \/ \E d \in Hosts : Relist(d)

\* Once hosts stay where they are listed, and the process lives, each host with
\* TLS has the PEM the server has for it, for good: no claim keeps the server
\* from sending what is missing.
HostsGetTheirPEM == <>[][~Disturbed]_vars => <>[]AllHavePEM
=============================================================================
