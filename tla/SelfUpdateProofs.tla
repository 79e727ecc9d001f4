-------------------------- MODULE SelfUpdateProofs --------------------------
(***************************************************************************)
(* What holds of the self-update for all versions, and for every sequence  *)
(* of failures and crashes, to any depth of backups.                       *)
(***************************************************************************)
EXTENDS SelfUpdate, TLAPS

Attempting == {"check", "download", "verify", "clear", "aside", "install", "restore",
               "failed", "cleanup"}
Verified == {"clear", "aside", "install"}
Replaced == {"cleanup", "exit", "down"}

\* The first name that holds a version.
Kept(n) == file[n] # None /\ \A m \in Names : m < n => file[m] = None

\* The process's own file is the first that is left, until the new one takes its
\* place under the name before it.
Files ==
  /\ pc \in Verified => tmp = cmd
  /\ pc \in {"clear", "aside"} => own < MaxBackups
  /\ pc \in {"install", "restore", "cleanup"} => own > 0
  /\ pc \notin Replaced => Kept(own) /\ file[own] = running
  /\ pc = "cleanup" => Kept(own - 1) /\ file[own - 1] = cmd
  /\ pc \in {"exit", "down"} => \E n \in Names : Kept(n)

Process ==
  /\ running = None <=> pc = "down"
  /\ pc \in Attempting => cmd # None
  /\ pc \in {"top", "get", "down"} => cmd = None

Reports ==
  /\ pc # "top" => pending = None
  /\ pending # None \/ cmd # None => ~report
  /\ pc = "exit" /\ report => restart

UInv == TypeOK /\ Process /\ Files /\ Reports

LEMMA UpdateInit == Init => UInv
<1>. SUFFICES ASSUME Init PROVE UInv
  OBVIOUS
<1>1. 0 \in Names
  BY SelfUpdateAssumption DEF Names
<1>2. TypeOK
  BY <1>1, SelfUpdateAssumption DEF Init, TypeOK, PCs
<1>3. Kept(0) /\ file[0] = running
  BY <1>1, SelfUpdateAssumption DEF Init, Kept, Names
<1>4. Process /\ Reports
  BY SelfUpdateAssumption DEF Init, Process, Reports, Attempting
<1>5. Files
  BY <1>3 DEF Init, Files, Verified, Replaced
<1>. QED  BY <1>2, <1>4, <1>5 DEF UInv

-----------------------------------------------------------------------------
(* One lemma for each part of the invariant. *)

LEMMA UpdateTypes == UInv /\ [Next]_vars => TypeOK'
<1>. SUFFICES ASSUME UInv, [Next]_vars PROVE TypeOK'
  OBVIOUS
<1>. USE DEF UInv, TypeOK, PCs, Goes, orders, files
<1>1. CASE TakeOrder \/ NoAnswer \/ Answered
  BY <1>1 DEF TakeOrder, NoAnswer, Answered, AfterUpdate
<1>2. CASE Accept \/ Download \/ Verify \/ Fails
  BY <1>2 DEF Accept, Download, Verify, Fails
<1>3. CASE ClearBackup \/ CleanUp
  BY <1>3 DEF ClearBackup, CleanUp
<1>4. CASE MoveAside
  <2>1. own + 1 \in Names
    BY <1>4, SelfUpdateAssumption DEF MoveAside, Files, Names
  <2>. QED  BY <1>4, <2>1 DEF MoveAside
<1>5. CASE InstallNew
  <2>1. tmp \in Versions
    BY <1>5 DEF InstallNew, Files, Verified, Process, Attempting
  <2>. QED  BY <1>5, <2>1 DEF InstallNew
<1>6. CASE InstallFails \/ Failed
  BY <1>6 DEF InstallFails, Failed, AfterUpdate
<1>7. CASE Restore
  <2>1. own - 1 \in Names
    BY <1>7, SelfUpdateAssumption DEF Restore, Files, Names
  <2>. QED  BY <1>7, <2>1 DEF Restore
<1>8. CASE Ends
  BY <1>8 DEF Ends
<1>9. CASE Boot
  <2>1. 0 \in Names
    BY SelfUpdateAssumption DEF Names
  <2>. QED  BY <1>9, <2>1 DEF Boot
<1>10. CASE UNCHANGED vars
  BY <1>10 DEF vars
<1>. QED  BY <1>1, <1>2, <1>3, <1>4, <1>5, <1>6, <1>7, <1>8, <1>9, <1>10 DEF Next, Apply

LEMMA UpdateProcess == UInv /\ [Next]_vars => Process' /\ Reports'
<1>. SUFFICES ASSUME UInv, [Next]_vars PROVE Process' /\ Reports'
  OBVIOUS
<1>. USE SelfUpdateAssumption DEF UInv, TypeOK, PCs, Goes, orders, files, Process, Reports, Attempting
<1>1. CASE TakeOrder
  BY <1>1 DEF TakeOrder, AfterUpdate
<1>2. CASE NoAnswer \/ Answered
  BY <1>2 DEF NoAnswer, Answered
<1>3. CASE Accept \/ Download \/ Verify \/ ClearBackup \/ Fails
  BY <1>3 DEF Accept, Download, Verify, ClearBackup, Fails
<1>4. CASE MoveAside \/ InstallNew \/ InstallFails \/ Restore
  BY <1>4 DEF MoveAside, InstallNew, InstallFails, Restore
<1>5. CASE Failed
  BY <1>5 DEF Failed, AfterUpdate
<1>6. CASE CleanUp \/ Ends
  BY <1>6 DEF CleanUp, Ends
<1>7. CASE Boot
  <2>1. file[0] \in Versions
    BY <1>7 DEF Boot, Names
  <2>. QED  BY <1>7, <2>1 DEF Boot
<1>8. CASE UNCHANGED vars
  BY <1>8 DEF vars
<1>. QED  BY <1>1, <1>2, <1>3, <1>4, <1>5, <1>6, <1>7, <1>8 DEF Next, Apply

LEMMA UpdateFiles == UInv /\ [Next]_vars => Files'
<1>. SUFFICES ASSUME UInv, [Next]_vars PROVE Files'
  OBVIOUS
<1>. USE DEF UInv, TypeOK, Goes, orders, files, Files, Verified, Replaced
<1>0. own \in Nat /\ own \in Names /\ Names \subseteq Nat /\ None \notin Versions
  BY SelfUpdateAssumption DEF Names
<1>1. CASE TakeOrder \/ Failed
  <2>1. Kept(own) /\ file[own] = running
    BY <1>1 DEF TakeOrder, Failed
  <2>2. Kept(own)' /\ (file[own] = running)'
    BY <1>1, <2>1 DEF TakeOrder, Failed, Kept
  <2>. QED  BY <1>0, <1>1, <2>2 DEF TakeOrder, Failed, AfterUpdate
<1>2. CASE NoAnswer \/ Answered \/ Accept \/ Download \/ Verify \/ Fails
  BY <1>2 DEF NoAnswer, Answered, Accept, Download, Verify, Fails, Kept
<1>3. CASE ClearBackup
  <2>1. file'[own] = file[own] /\ \A m \in Names : m < own => file'[m] = file[m]
    BY <1>0, <1>3 DEF ClearBackup
  <2>. QED  BY <1>3, <2>1 DEF ClearBackup, Kept
<1>4. CASE MoveAside
  <2>1. own + 1 \in Names
    BY <1>0, <1>4, SelfUpdateAssumption DEF MoveAside, Names
  <2>2. /\ file'[own + 1] = file[own] /\ file'[own] = None
        /\ \A m \in Names : m < own => file'[m] = file[m]
    BY <1>0, <1>4, <2>1 DEF MoveAside
  <2>3. Kept(own)'
    BY <1>0, <1>4, <2>1, <2>2 DEF MoveAside, Kept
  <2>. QED  BY <1>0, <1>4, <2>2, <2>3 DEF MoveAside
<1>5. CASE InstallNew
  <2>1. own - 1 \in Names /\ tmp = cmd /\ cmd \in Versions
    BY <1>0, <1>5, SelfUpdateAssumption DEF InstallNew, Names, Process, Attempting
  <2>2. file'[own - 1] = cmd /\ \A m \in Names : m < own - 1 => file'[m] = file[m]
    BY <1>0, <1>5, <2>1 DEF InstallNew
  <2>3. Kept(own - 1)'
    BY <1>0, <1>5, <2>1, <2>2 DEF InstallNew, Kept
  <2>. QED  BY <1>5, <2>2, <2>3 DEF InstallNew
<1>6. CASE InstallFails
  BY <1>6 DEF InstallFails, Kept
<1>7. CASE Restore
  <2>1. CASE UNCHANGED <<file, own>>
    BY <1>7, <2>1 DEF Restore, Kept
  <2>2. CASE file' = [file EXCEPT ![own - 1] = file[own], ![own] = None] /\ own' = own - 1
    <3>1. own - 1 \in Names
      BY <1>0, <1>7, SelfUpdateAssumption DEF Restore, Names
    <3>2. file'[own - 1] = file[own] /\ \A m \in Names : m < own - 1 => file'[m] = file[m]
      BY <1>0, <2>2, <3>1
    <3>3. Kept(own)'
      BY <1>0, <1>7, <2>2, <3>1, <3>2 DEF Restore, Kept
    <3>. QED  BY <1>7, <2>2, <3>2, <3>3 DEF Restore
  <2>. QED  BY <1>7, <2>1, <2>2 DEF Restore
<1>8. CASE CleanUp
  <2>1. own - 1 \in Names
    BY <1>0, <1>8, SelfUpdateAssumption DEF CleanUp, Names
  <2>2. \A m \in Names : m <= own - 1 => file'[m] = file[m]
    BY <1>0, <1>8 DEF CleanUp
  <2>3. Kept(own - 1)'
    BY <1>0, <1>8, <2>1, <2>2 DEF CleanUp, Kept
  <2>. QED  BY <1>8, <2>1, <2>3 DEF CleanUp
<1>9. CASE Ends
  <2>1. \E n \in Names : Kept(n)
    <3>1. CASE pc \notin Replaced
      BY <1>0, <3>1
    <3>2. CASE pc = "cleanup"
      <4>1. own - 1 \in Names
        BY <1>0, <3>2, SelfUpdateAssumption DEF Names
      <4>. QED  BY <3>2, <4>1
    <3>3. CASE pc = "exit"
      BY <3>3
    <3>. QED  BY <1>9, <3>1, <3>2, <3>3 DEF Ends
  <2>. QED  BY <1>9, <2>1 DEF Ends, Kept
<1>10. CASE Boot
  <2>1. 0 \in Names /\ \A m \in Names : ~(m < 0)
    BY <1>0, SelfUpdateAssumption DEF Names
  <2>2. Kept(0)'
    BY <1>10, <2>1 DEF Boot, Kept
  <2>. QED  BY <1>10, <2>2 DEF Boot
<1>11. CASE UNCHANGED vars
  BY <1>11 DEF vars, Kept
<1>. QED  BY <1>1, <1>2, <1>3, <1>4, <1>5, <1>6, <1>7, <1>8, <1>9, <1>10, <1>11 DEF Next, Apply

LEMMA UpdateInvariant == Spec => []UInv
<1>1. UInv /\ [Next]_vars => UInv'
  BY UpdateTypes, UpdateProcess, UpdateFiles DEF UInv
<1>. QED  BY <1>1, UpdateInit, PTL DEF Spec

-----------------------------------------------------------------------------
(* The results. *)

\* Every variable keeps its type; no file but the download is ever in part.
THEOREM UpdateTypeCorrect == Spec => []TypeOK
BY UpdateInvariant, PTL DEF UInv

\* No failure and no crash leaves the directory without a whole version.
THEOREM UpdateKeepsBinary == Spec => []BinaryIsKept
<1>1. UInv => BinaryIsKept
  <2>. SUFFICES ASSUME UInv PROVE BinaryIsKept
    OBVIOUS
  <2>1. \E n \in Names : Kept(n)
    <3>1. CASE pc = "cleanup"
      <4>1. own - 1 \in Names
        BY <3>1, SelfUpdateAssumption DEF UInv, TypeOK, Files, Names
      <4>. QED  BY <3>1, <4>1 DEF UInv, Files
    <3>. QED  BY <3>1 DEF UInv, TypeOK, Files, Replaced
  <2>. QED  BY <2>1 DEF UInv, Files, Replaced, BinaryIsKept, Kept
<1>. QED  BY <1>1, UpdateInvariant, PTL

\* No failure gives way to a later attempt, and none is left unsent by the loop
\* but for a restart.
THEOREM ErrorsWait == Spec => []ErrorWaitsForGet
<1>1. UInv => ErrorWaitsForGet
  BY DEF UInv, Reports, ErrorWaitsForGet
<1>. QED  BY <1>1, UpdateInvariant, PTL

-----------------------------------------------------------------------------
(* SelfUpdate implements BinarySwap: the unit's name is the first of the names, *)
(* so it is the process's own, or empty.                                       *)

LEMMA UnitName ==
  ASSUME UInv
  PROVE  /\ 0 \in Names /\ own \in Nat /\ own \in Names
         /\ pc \notin Replaced => file[0] \in {running, None}
         /\ pc \notin Replaced /\ own = 0 => file[0] = running
         /\ pc \notin Replaced /\ own > 0 => file[0] = None
<1>1. 0 \in Names /\ own \in Nat /\ own \in Names
  BY SelfUpdateAssumption DEF Names, UInv, TypeOK
<1>2. ASSUME pc \notin Replaced PROVE IF own = 0 THEN file[0] = running ELSE file[0] = None
  BY <1>1, <1>2 DEF UInv, Files, Kept
<1>. QED  BY <1>1, <1>2

LEMMA SwapStep == UInv /\ [Next]_vars => [Swap!SwapNext]_Swap!swapVars
<1>. SUFFICES ASSUME UInv, [Next]_vars PROVE [Swap!SwapNext]_Swap!swapVars
  OBVIOUS
<1>. DEFINE Same == file'[0] = file[0]
<1>0. /\ 0 \in Names /\ own \in Nat /\ own \in Names /\ file \in [Names -> Versions \cup {None}]
      /\ Same /\ running' = running /\ cmd' = cmd => UNCHANGED Swap!swapVars
  BY UnitName DEF Swap!swapVars, UInv, TypeOK
<1>1. CASE TakeOrder \/ Failed
  <2>1. file[0] \in {running, None} /\ running # None
    BY <1>1, UnitName DEF TakeOrder, Failed, Goes, UInv, Process, Replaced
  <2>2. cmd' \in Versions \cup {None} /\ running' = running /\ UNCHANGED file
    BY <1>1 DEF TakeOrder, Failed, files, UInv, TypeOK
  <2>. QED  BY <2>1, <2>2 DEF Swap!SwapNext, Swap!Order
<1>2. CASE NoAnswer \/ Answered \/ Accept \/ Download \/ Verify \/ Fails \/ InstallFails
  BY <1>0, <1>2 DEF NoAnswer, Answered, Accept, Download, Verify, Fails, InstallFails, files
<1>3. CASE ClearBackup
  BY <1>0, <1>3 DEF ClearBackup
<1>4. CASE MoveAside
  <2>1. running' = running /\ cmd' = cmd /\ cmd # None
    BY <1>4 DEF MoveAside, Goes, UInv, Process, Attempting
  <2>2. CASE own = 0
    <3>1. file[0] = running /\ file'[0] = None
      BY <1>0, <1>4, <2>2, UnitName DEF MoveAside, Goes, Replaced
    <3>. QED  BY <2>1, <3>1 DEF Swap!SwapNext, Swap!Empty
  <2>3. CASE own # 0
    BY <1>0, <1>4, <2>1, <2>3 DEF MoveAside
  <2>. QED  BY <2>2, <2>3
<1>5. CASE InstallNew
  <2>1. running' = running /\ cmd' = cmd /\ cmd # None /\ tmp = cmd /\ own > 0
    BY <1>5 DEF InstallNew, Goes, UInv, Process, Attempting, Files, Verified
  <2>2. CASE own = 1
    <3>1. file[0] = None /\ file'[0] = cmd
      BY <1>0, <1>5, <2>1, <2>2, UnitName DEF InstallNew, Goes, Replaced
    <3>. QED  BY <2>1, <3>1 DEF Swap!SwapNext, Swap!Install
  <2>3. CASE own # 1
    <3>1. Same
      BY <1>0, <1>5, <2>1, <2>3 DEF InstallNew
    <3>. QED  BY <1>0, <2>1, <3>1
  <2>. QED  BY <2>2, <2>3
<1>6. CASE Restore
  <2>1. running' = running /\ cmd' = cmd /\ cmd # None /\ own > 0 /\ file[own] = running
    BY <1>6 DEF Restore, Goes, UInv, Process, Attempting, Files, Replaced
  <2>2. CASE own = 1 /\ file' # file
    <3>1. file[0] = None /\ file'[0] = running
      BY <1>0, <1>6, <2>1, <2>2, UnitName DEF Restore, Goes, Replaced
    <3>. QED  BY <2>1, <3>1 DEF Swap!SwapNext, Swap!PutBack
  <2>3. CASE ~(own = 1 /\ file' # file)
    <3>1. Same
      BY <1>0, <1>6, <2>1, <2>3 DEF Restore
    <3>. QED  BY <1>0, <2>1, <3>1
  <2>. QED  BY <2>2, <2>3
<1>7. CASE CleanUp
  <2>1. own > 0 /\ running' = running /\ cmd' = cmd
    BY <1>7 DEF CleanUp, Goes, UInv, Files
  <2>2. Same
    BY <1>0, <1>7, <2>1 DEF CleanUp
  <2>. QED  BY <1>0, <2>1, <2>2
<1>8. CASE Ends
  BY <1>8 DEF Ends, files, UInv, Process, Swap!SwapNext, Swap!Stop
<1>9. CASE Boot
  BY <1>9 DEF Boot, Goes, UInv, Process, Swap!SwapNext, Swap!Start
<1>10. CASE UNCHANGED vars
  BY <1>0, <1>10 DEF vars, files
<1>. QED  BY <1>1, <1>2, <1>3, <1>4, <1>5, <1>6, <1>7, <1>8, <1>9, <1>10 DEF Next, Apply

\* For any failures and crashes: the name systemd starts holds the process's
\* program or none until the version ordered is put there, whole, and then the
\* process only ends.
THEOREM UpdateImplementsSwap == Spec => SwapsUnderUnitName
<1>1. Init => Swap!SwapInit
  BY SelfUpdateAssumption DEF Init, Names, Swap!SwapInit
<1>. QED  BY <1>1, SwapStep, UpdateInvariant, PTL DEF Spec, SwapsUnderUnitName, Swap!SwapSpec
=============================================================================
