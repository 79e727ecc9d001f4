---------------------------- MODULE SelfUpdate ----------------------------
(***************************************************************************)
(* The self-update: the order that comes with the configuration, each step *)
(* of selfupdate.Apply on the files beside the binary, the error that is   *)
(* reported with the next get, and the process that ends and is started    *)
(* again, by the update, by an order to restart or by a crash at any step. *)
(* AUTO_UPDATE is on; without it an order has no effect.                   *)
(***************************************************************************)
EXTENDS Naturals

CONSTANTS
  Versions,      \* what the server may order
  First,         \* the version installed by hand
  Junk,          \* any content that is not that of a version
  None,
  MaxBackups     \* a bound: how many ".bak" a name may end in

ASSUME SelfUpdateAssumption ==
  /\ First \in Versions
  /\ Junk \notin Versions /\ None \notin Versions /\ Junk # None
  /\ MaxBackups \in Nat

VARIABLES
  pc,        \* where the loop, or Apply, is
  running,   \* the version of the process, None while there is none
  pending,   \* pendingUpdate
  cmd,       \* the command Apply was called with
  restart,   \* restartFromServer
  report,    \* is LastUpdateError set?
  file,      \* file[n]: what the unit's binary's name with n times ".bak" holds
  own,       \* the n whose file the process was started from
  tmp        \* the downloaded file

files == <<file, own, tmp>>
orders == <<pending, restart>>
vars == <<pc, running, pending, cmd, restart, report, file, own, tmp>>

Names == 0 .. MaxBackups

Init ==
  /\ pc = "top" /\ running = First
  /\ pending = None /\ cmd = None /\ restart = FALSE /\ report = FALSE
  /\ file = [n \in Names |-> IF n = 0 THEN First ELSE None] /\ own = 0 /\ tmp = None

Goes(from, to) == pc = from /\ pc' = to

-----------------------------------------------------------------------------
(* The loop. *)

\* After the update: break for a restart, or the rest of the turn.
AfterUpdate == IF restart THEN "exit" ELSE "get"

TakeOrder ==
  /\ Goes("top", IF pending # None THEN "check" ELSE AfterUpdate)
  /\ cmd' = pending /\ pending' = None
  /\ UNCHANGED <<running, restart, report, files>>

\* getJobs fails, or the turn has no get.
NoAnswer ==
  /\ Goes("get", "top")
  /\ UNCHANGED <<running, orders, cmd, report, files>>

\* The server has the error, if there was one, and may give orders.
Answered_KeepsReport ==
  /\ Goes("get", "top")
  /\ pending' \in Versions \cup {None} /\ restart' \in BOOLEAN
  /\ UNCHANGED <<running, cmd, report, files>>
Answered ==
  /\ Goes("get", "top")
  /\ report' = FALSE
  /\ pending' \in Versions \cup {None} /\ restart' \in BOOLEAN
  /\ UNCHANGED <<running, cmd, files>>

-----------------------------------------------------------------------------
(* Apply.  os.Executable reads /proc/self/exe, which follows a file through    *)
(* its renames: Apply works on the name `own` at its call, and keeps it.      *)

\* The command is for this architecture, and names an asset it may fetch.
Accept ==
  /\ Goes("check", "download") /\ UNCHANGED <<running, orders, cmd, report, files>>

\* What arrives may be another file than was ordered, or a part of it.
Download ==
  /\ Goes("download", "verify")
  /\ tmp' \in Versions \cup {Junk}
  /\ UNCHANGED <<running, orders, cmd, report, file, own>>

\* The checksum is that of the version ordered.  (MaxBackups bounds the model.)
Verify_Unchecked ==
  /\ Goes("verify", "clear") /\ own < MaxBackups /\ UNCHANGED <<running, orders, cmd, report, files>>
Verify ==
  /\ Goes("verify", "clear") /\ tmp = cmd /\ own < MaxBackups
  /\ UNCHANGED <<running, orders, cmd, report, files>>

\* An old backup is removed, if that succeeds.
ClearBackup ==
  /\ Goes("clear", "aside")
  /\ file' \in {file, [file EXCEPT ![own + 1] = None]}
  /\ UNCHANGED <<running, orders, cmd, report, own, tmp>>

\* The binary is renamed to its backup: own is now the backup.
MoveAside_Removes ==
  /\ Goes("aside", "install")
  /\ file' = [file EXCEPT ![own] = None]
  /\ own' = own + 1
  /\ UNCHANGED <<running, orders, cmd, report, tmp>>
MoveAside ==
  /\ Goes("aside", "install")
  /\ file' = [file EXCEPT ![own + 1] = file[own], ![own] = None]
  /\ own' = own + 1
  /\ UNCHANGED <<running, orders, cmd, report, tmp>>

\* An error before anything was replaced; a part of the download may be there.
Fails ==
  /\ \E step \in {"check", "download", "verify", "aside"} : Goes(step, "failed")
  /\ tmp' \in {tmp, IF pc = "download" THEN Junk ELSE tmp}
  /\ UNCHANGED <<running, orders, cmd, report, file, own>>

InstallNew ==
  /\ Goes("install", "cleanup")
  /\ file' = [file EXCEPT ![own - 1] = tmp] /\ tmp' = None
  /\ UNCHANGED <<running, orders, cmd, report, own>>

InstallFails ==
  /\ Goes("install", "restore") /\ UNCHANGED <<running, orders, cmd, report, files>>

\* The backup is renamed back; an error of that is ignored.
Restore ==
  /\ Goes("restore", "failed")
  /\ \/ /\ file' = [file EXCEPT ![own - 1] = file[own], ![own] = None]
        /\ own' = own - 1
     \/ UNCHANGED <<file, own>>
  /\ UNCHANGED <<running, orders, cmd, report, tmp>>

\* The deferred removal of the download, and what the loop does with the error.
Failed ==
  /\ Goes("failed", AfterUpdate)
  /\ tmp' \in {tmp, None}
  /\ cmd' = None /\ report' = TRUE
  /\ UNCHANGED <<running, orders, file, own>>

\* The update is in place; the process will do no more.
CleanUp_GoesOn ==
  /\ Goes("cleanup", AfterUpdate) /\ cmd' = None
  /\ file' \in {file, [file EXCEPT ![own] = None]}
  /\ UNCHANGED <<running, orders, report, own, tmp>>
CleanUp ==
  /\ Goes("cleanup", "exit")
  /\ file' \in {file, [file EXCEPT ![own] = None]}
  /\ UNCHANGED <<running, orders, cmd, report, own, tmp>>

-----------------------------------------------------------------------------
(* The process. *)

\* The process ends: by itself where the loop is left, or by a crash anywhere.
\* Only the files outlive it.
Ends ==
  /\ pc # "down" /\ pc' = "down" /\ running' = None
  /\ pending' = None /\ cmd' = None /\ restart' = FALSE /\ report' = FALSE
  /\ UNCHANGED files

\* systemd starts what it finds under the name of the unit.  The new process
\* overwrites the old download only if it happens to have the same pid.
Boot ==
  /\ Goes("down", "top") /\ file[0] # None
  /\ running' = file[0] /\ own' = 0 /\ tmp' \in {tmp, None}
  /\ UNCHANGED <<orders, cmd, report, file>>

Apply == Accept \/ Download \/ Verify \/ ClearBackup \/ MoveAside \/ Fails
         \/ InstallNew \/ InstallFails \/ Restore \/ Failed \/ CleanUp
Next == TakeOrder \/ NoAnswer \/ Answered \/ Apply \/ Ends \/ Boot
Spec == Init /\ [][Next]_vars

-----------------------------------------------------------------------------
(* Properties. *)

PCs == {"top", "get", "check", "download", "verify", "clear", "aside", "install",
        "restore", "failed", "cleanup", "exit", "down"}

\* Every variable keeps its type; no file but the download is ever less than a
\* whole version (worker.go runs Apply beside the binary systemd will start).
TypeOK ==
  /\ pc \in PCs /\ running \in Versions \cup {None}
  /\ pending \in Versions \cup {None} /\ cmd \in Versions \cup {None}
  /\ restart \in BOOLEAN /\ report \in BOOLEAN
  /\ file \in [Names -> Versions \cup {None}]
  /\ own \in Names /\ tmp \in Versions \cup {Junk, None}

\* Whatever step of Apply fails or is cut off by a crash, a version is left under
\* one of the names: while the process runs and has installed nothing, its own.
BinaryIsKept ==
  /\ \E n \in Names : file[n] # None
  /\ pc \notin {"cleanup", "exit", "down"} => file[own] = running

\* LastUpdateError waits for the next get.  In the life of a process no later
\* attempt begins, to overwrite it or to succeed over it, before a get has carried
\* it; and the loop leaves with it unsent only for a restart, which the answer
\* with the order must have asked for too.  (config.go promises the next get
\* without exception: that restart, like a crash, loses the error.)
ErrorWaitsForGet ==
  /\ cmd # None => ~report
  /\ pc = "exit" /\ report => restart

Swap == INSTANCE BinarySwap WITH
  Releases <- Versions, Initial <- First, Nothing <- None,
  installed <- file[0], process <- running, ordered <- cmd

\* Of the name systemd starts, with a failure or a crash between any two renames:
\* Apply empties it, and puts there only the version ordered, whole, or the
\* process's own; once it has, the process ends.  What Apply installs under the
\* name of a backup is no installation.
SwapsUnderUnitName == Swap!SwapSpec
=============================================================================
