--------------------------- MODULE WorkspaceLock ---------------------------
(***************************************************************************)
(* The per-workspace lock of internal/runtime/runtime.go: lock(), the      *)
(* closure it returns to release the lock, and isLiveLock().  The lock is  *)
(* an advisory flock on the file found at a fixed path, plus a marker      *)
(* "pid time startTicks token" written into that file.  The flock belongs  *)
(* to the INODE that was opened, isLiveLock and release look at the PATH:  *)
(* the two are kept apart here because the release unlinks the path.       *)
(* Every system call is a step of its own; a process may be killed between *)
(* any two of them, and a later process may be given the same pid with     *)
(* other start ticks.                                                      *)
(***************************************************************************)
EXTENDS Naturals

CONSTANTS Procs,       \* pids
          Inodes,      \* inodes the lock file may be created with
          NoInode, NoProc, NoMarker,
          MaxCalls,    \* bound: calls of lock() over all the processes
          MaxCrashes   \* bound: processes killed

ASSUME NoInodeAssumption == NoInode \notin Inodes
ASSUME NoProcAssumption == NoProc \notin Procs
ASSUME BoundsAssumption == MaxCalls \in Nat /\ MaxCrashes \in Nat

VARIABLES
  path,     \* the inode linked at lockPath, or NoInode
  marker,   \* what each inode contains
  holder,   \* the process whose open file holds the flock of each inode
  used,     \* inodes ever allocated (a freed inode number is not reused)
  lpc,      \* where each process is in lock() / release()
  fd,       \* the inode each process has open
  token,    \* the token of each process's latest call (number of the call)
  ticks,    \* start ticks of the process now running under each pid
  calls,    \* calls of lock() so far
  crashes,
  leftBehind \* history: tokens whose marker stays at the path after an I/O error

lockVars == <<path, marker, holder, used, lpc, fd, token, ticks, calls, crashes,
              leftBehind>>

(***************************************************************************)
(* A marker's creation time is left out: it only matters where start ticks *)
(* cannot be read, i.e. off Linux.                                         *)
(***************************************************************************)
Marker == [pid : Procs, ticks : Nat, token : Nat]

ASSUME NoMarkerAssumption == NoMarker \notin Marker

PCs == {"idle", "opened", "flocked", "checked", "truncated", "held",
        "matched", "unlock"}

LockTypeOK ==
  /\ path \in Inodes \cup {NoInode}
  /\ marker \in [Inodes -> Marker \cup {NoMarker}]
  /\ holder \in [Inodes -> Procs \cup {NoProc}]
  /\ used \in SUBSET Inodes
  /\ lpc \in [Procs -> PCs]
  /\ fd \in [Procs -> Inodes \cup {NoInode}]
  /\ token \in [Procs -> Nat]
  /\ ticks \in [Procs -> Nat]
  /\ calls \in Nat
  /\ crashes \in Nat
  /\ leftBehind \in SUBSET Nat

LockInit ==
  /\ path = NoInode
  /\ marker = [i \in Inodes |-> NoMarker]
  /\ holder = [i \in Inodes |-> NoProc]
  /\ used = {}
  /\ lpc = [p \in Procs |-> "idle"]
  /\ fd = [p \in Procs |-> NoInode]
  /\ token = [p \in Procs |-> 0]
  /\ ticks = [p \in Procs |-> 0]
  /\ calls = 0
  /\ crashes = 0
  /\ leftBehind = {}

(* Mutant: a marker is believed on its pid alone.                          *)
SameProcess_PidOnly(m) == m.pid \in Procs

(***************************************************************************)
(* processStartTicks agrees with the marker only for the very process that *)
(* wrote it: a recycled pid has other ticks.                               *)
(***************************************************************************)
SameProcess(m) == m.ticks = ticks[m.pid]

(* isLiveLock(p): reads the file at the path, whatever inode that is now.  *)
IsLiveLock ==
  /\ path # NoInode
  /\ marker[path] # NoMarker
  /\ SameProcess(marker[path])

(* os.OpenFile(p, O_CREATE|O_RDWR): the linked inode, or a new one.        *)
Open(p) ==
  /\ lpc[p] = "idle"
  /\ calls < MaxCalls
  /\ calls' = calls + 1
  /\ token' = [token EXCEPT ![p] = calls + 1]
  /\ lpc' = [lpc EXCEPT ![p] = "opened"]
  /\ \/ /\ path # NoInode
        /\ fd' = [fd EXCEPT ![p] = path]
        /\ UNCHANGED <<path, used>>
     \/ /\ path = NoInode
        /\ \E i \in Inodes \ used :
             /\ path' = i
             /\ used' = used \cup {i}
             /\ fd' = [fd EXCEPT ![p] = i]
  /\ UNCHANGED <<marker, holder, ticks, crashes,
                 leftBehind>>

(* Mutant: the result of flock is not looked at.                           *)
Flock_NoCheck(p) ==
  /\ lpc[p] = "opened"
  /\ holder' = [holder EXCEPT ![fd[p]] = p]
  /\ lpc' = [lpc EXCEPT ![p] = "flocked"]
  /\ UNCHANGED <<path, marker, used, fd, token, ticks, calls, crashes,
                 leftBehind>>

(* flock(LOCK_EX|LOCK_NB) on the open inode; EWOULDBLOCK closes the file.  *)
Flock(p) ==
  /\ lpc[p] = "opened"
  /\ \/ /\ holder[fd[p]] = NoProc
        /\ holder' = [holder EXCEPT ![fd[p]] = p]
        /\ lpc' = [lpc EXCEPT ![p] = "flocked"]
        /\ UNCHANGED fd
     \/ /\ holder[fd[p]] # NoProc
        /\ lpc' = [lpc EXCEPT ![p] = "idle"]
        /\ fd' = [fd EXCEPT ![p] = NoInode]
        /\ UNCHANGED holder
  /\ UNCHANGED <<path, marker, used, token, ticks, calls, crashes,
                 leftBehind>>

(* The deferred close and LOCK_UN of an error return of lock().            *)
DropFlock(p) ==
  /\ holder' = [holder EXCEPT ![fd[p]] = NoProc]
  /\ fd' = [fd EXCEPT ![p] = NoInode]
  /\ lpc' = [lpc EXCEPT ![p] = "idle"]

(* A live marker at the path is honoured even though its flock was free.   *)
CheckLive(p) ==
  /\ lpc[p] = "flocked"
  /\ \/ /\ IsLiveLock
        /\ DropFlock(p)
     \/ /\ ~IsLiveLock
        /\ lpc' = [lpc EXCEPT ![p] = "checked"]
        /\ UNCHANGED <<holder, fd>>
  /\ UNCHANGED <<path, marker, used, token, ticks, calls, crashes,
                 leftBehind>>

(* f.Truncate(0) of the open inode, or its failure.                        *)
Truncate(p) ==
  /\ lpc[p] = "checked"
  /\ \/ /\ marker' = [marker EXCEPT ![fd[p]] = NoMarker]
        /\ lpc' = [lpc EXCEPT ![p] = "truncated"]
        /\ UNCHANGED <<holder, fd>>
     \/ /\ DropFlock(p)
        /\ UNCHANGED marker
  /\ UNCHANGED <<path, used, token, ticks, calls, crashes,
                 leftBehind>>

(***************************************************************************)
(* Writing the marker and syncing it.  When the write fails the file stays *)
(* empty; when f.Sync fails, or the write does after the ticks, the marker *)
(* is already in the file as lock() returns an error.  A write cut before  *)
(* the ticks, which isLiveLock judges by pid or age alone, is left out.    *)
(***************************************************************************)
MyMarker(p) == [pid |-> p, ticks |-> ticks[p], token |-> token[p]]

WriteMarker(p) ==
  /\ lpc[p] = "truncated"
  /\ marker' = [marker EXCEPT ![fd[p]] = MyMarker(p)]
  /\ lpc' = [lpc EXCEPT ![p] = "held"]
  /\ UNCHANGED <<path, holder, used, fd, token, ticks, calls, crashes,
                 leftBehind>>

WriteFails(p) ==
  /\ lpc[p] = "truncated"
  /\ DropFlock(p)
  /\ UNCHANGED <<path, marker, used, token, ticks, calls, crashes,
                 leftBehind>>

SyncFails(p) ==
  /\ lpc[p] = "truncated"
  /\ marker' = [marker EXCEPT ![fd[p]] = MyMarker(p)]
  /\ DropFlock(p)
  /\ leftBehind' = leftBehind \cup {token[p]}
  /\ UNCHANGED <<path, used, token, ticks, calls, crashes>>

(* Mutant: release() unlinks without comparing the token.                  *)
ReleaseRead_NoToken(p) ==
  /\ lpc[p] = "held"
  /\ lpc' = [lpc EXCEPT ![p] = IF path # NoInode THEN "matched" ELSE "unlock"]
  /\ UNCHANGED <<path, marker, holder, used, fd, token, ticks, calls, crashes,
                 leftBehind>>

(* release(): read the path, compare the token (a failed read leaves the   *)
(* file where it is), ...                                                  *)
TokenAtPath(p) ==
  path # NoInode /\ marker[path] # NoMarker /\ marker[path].token = token[p]

ReleaseRead(p) ==
  /\ lpc[p] = "held"
  /\ \/ TokenAtPath(p) /\ lpc' = [lpc EXCEPT ![p] = "matched"] /\ UNCHANGED leftBehind
     \/ ~TokenAtPath(p) /\ lpc' = [lpc EXCEPT ![p] = "unlock"] /\ UNCHANGED leftBehind
     \/ lpc' = [lpc EXCEPT ![p] = "unlock"] /\ leftBehind' = leftBehind \cup {token[p]}
  /\ UNCHANGED <<path, marker, holder, used, fd, token, ticks, calls, crashes>>

(* ... unlink it (an error of os.Remove is ignored), ...                   *)
ReleaseRemove(p) ==
  /\ lpc[p] = "matched"
  /\ lpc' = [lpc EXCEPT ![p] = "unlock"]
  /\ \/ path' = NoInode /\ UNCHANGED leftBehind
     \/ leftBehind' = leftBehind \cup {token[p]} /\ UNCHANGED path
  /\ UNCHANGED <<marker, holder, used, fd, token, ticks, calls, crashes>>

(* ... and give the flock back.                                            *)
ReleaseUnlock(p) ==
  /\ lpc[p] = "unlock"
  /\ DropFlock(p)
  /\ UNCHANGED <<path, marker, used, token, ticks, calls, crashes,
                 leftBehind>>

(***************************************************************************)
(* The process is killed: the kernel closes its files, which frees its     *)
(* flock; the marker stays.  The pid is later that of a new process.       *)
(***************************************************************************)
Dies(p) ==
  /\ lpc[p] # "idle"
  /\ crashes < MaxCrashes
  /\ crashes' = crashes + 1
  /\ holder' = [i \in Inodes |-> IF holder[i] = p THEN NoProc ELSE holder[i]]
  /\ fd' = [fd EXCEPT ![p] = NoInode]
  /\ lpc' = [lpc EXCEPT ![p] = "idle"]
  /\ ticks' = [ticks EXCEPT ![p] = @ + 1]
  /\ UNCHANGED <<path, marker, used, token, calls, leftBehind>>

Step(p) ==
  \/ Open(p) \/ Flock(p) \/ CheckLive(p) \/ Truncate(p)
  \/ WriteMarker(p) \/ WriteFails(p) \/ SyncFails(p)
  \/ ReleaseRead(p) \/ ReleaseRemove(p) \/ ReleaseUnlock(p)

LockNext == \E p \in Procs : Step(p) \/ Dies(p)

LockSpec == LockInit /\ [][LockNext]_lockVars

-----------------------------------------------------------------------------
(* The flock is held from Flock to the unlock of release().                *)
Flocked == {"flocked", "checked", "truncated", "held", "matched", "unlock"}

(* The marker of a process is in its file from WriteMarker on.             *)
Marked == {"held", "matched", "unlock"}

(* lock() returned nil to the process and release() did not unlink yet.    *)
Holds(p) == lpc[p] \in {"held", "matched"}

(***************************************************************************)
(* The inductive invariant: who holds which inode, and whose marker is in  *)
(* which file, agree with where every process is in lock() and release().  *)
(***************************************************************************)
FilesAgree ==
  /\ path # NoInode => path \in used
  /\ \A p \in Procs : fd[p] # NoInode => fd[p] \in used
  /\ \A p \in Procs : lpc[p] = "idle" <=> fd[p] = NoInode

FlocksAgree ==
  /\ \A p \in Procs : lpc[p] \in Flocked => holder[fd[p]] = p
  /\ \A i \in Inodes : holder[i] # NoProc =>
       lpc[holder[i]] \in Flocked /\ fd[holder[i]] = i

TokensAgree ==
  /\ \A p \in Procs : token[p] <= calls
  /\ \A p, q \in Procs : p # q /\ token[p] = token[q] => token[p] = 0
  /\ \A p \in Procs : lpc[p] # "idle" => token[p] > 0
  /\ \A i \in Inodes : marker[i] # NoMarker => marker[i].token <= calls

MarkersAgree ==
  /\ \A i \in Inodes : marker[i] # NoMarker =>
       /\ i \in used
       /\ marker[i].ticks <= ticks[marker[i].pid]
  /\ \A p \in Procs : lpc[p] \in Marked => marker[fd[p]] = MyMarker(p)
  /\ \A p \in Procs, i \in Inodes :
       /\ lpc[p] # "idle"
       /\ marker[i] # NoMarker
       /\ marker[i].token = token[p]
       => lpc[p] \in Marked /\ fd[p] = i

ReleasesAgree ==
  /\ \A p \in Procs : lpc[p] = "matched" => path = fd[p]
  /\ \A p \in Procs : lpc[p] = "unlock" =>
       path # fd[p] \/ token[p] \in leftBehind

(***************************************************************************)
(* Reclaim after a crash: a marker at the path keeps new runs out only     *)
(* while the process that wrote it is inside the lock, or left it behind   *)
(* on an I/O error of lock() or release() (it then stays until it exits).  *)
(* A killed process, even one whose pid was recycled, never blocks a new   *)
(* run, and recovery (lockIsLive) never mistakes its run for a live one.   *)
(***************************************************************************)
LiveMarkerHasHolder ==
  IsLiveLock =>
    \/ marker[path].token \in leftBehind
    \/ /\ Holds(marker[path].pid)
       /\ fd[marker[path].pid] = path
       /\ holder[path] = marker[path].pid

(***************************************************************************)
(* The books kept by the kernel (flock), the file system (path, marker)    *)
(* and the processes (where each is in lock() and release()) never         *)
(* disagree, across crashes and failed writes.                             *)
(***************************************************************************)
LockInv ==
  LockTypeOK /\ FilesAgree /\ FlocksAgree /\ TokensAgree /\ MarkersAgree
  /\ ReleasesAgree

(***************************************************************************)
(* The path is only ever unlinked by the process whose marker is in it and *)
(* whose flock is on it: release() reads the token and unlinks in two      *)
(* steps, and a process that lost its place cannot delete another's lock.  *)
(***************************************************************************)
OnlyOwnerUnlinks ==
  [][path # NoInode /\ path' = NoInode =>
       \E p \in Procs : /\ Holds(p)
                        /\ marker[path] = MyMarker(p)
                        /\ holder[path] = p]_lockVars

(***************************************************************************)
(* What internal/runtime/repair.go says of the lock: a run holds it        *)
(* exclusively, so two processes are never both past lock() and before     *)
(* their release().                                                        *)
(***************************************************************************)
Exclusive == \A p, q \in Procs : Holds(p) /\ Holds(q) => p = q

=============================================================================
