----------------------------- MODULE FileProofs ------------------------------
(***************************************************************************)
(* Proofs about what the controller reads, executes and puts back while    *)
(* others change files, for any contents, any number of changes, any tools *)
(* and enrolling processes, any snapshots and any artifacts.  Each part    *)
(* has an inductive invariant of its own; the properties of the run follow *)
(* from them.                                                              *)
(***************************************************************************)
EXTENDS MCFiles, WellFoundedInduction, TLAPS

FileType == [path : Inodes \cup {0}, data : [Inodes -> Bytes]]

(* A file stays a file under all that can happen to it.                    *)
LEMMA FileChanges ==
  ASSUME NEW f \in FileType, NEW i \in Inodes
  PROVE  /\ Renamed(f, i) \cup Unlinked(f) \cup Written(f, i) \subseteq FileType
         /\ \A g \in Renamed(f, i) : g.path = i /\ \A j \in Inodes \ {i} : g.data[j] = f.data[j]
         /\ \A g \in Unlinked(f) : g.path = 0 /\ g.data = f.data
         /\ \A g \in Written(f, i) : g.path = f.path /\ \A j \in Inodes \ {i} : g.data[j] = f.data[j]
<1>1. \A v \in Bytes : [f.data EXCEPT ![i] = v] \in [Inodes -> Bytes]
  BY DEF FileType
<1>2. ASSUME NEW g \in Renamed(f, i)
      PROVE  g \in FileType /\ g.path = i /\ \A j \in Inodes \ {i} : g.data[j] = f.data[j]
  <2>1. PICK v \in Bytes : g = [f EXCEPT !.path = i, !.data[i] = v]
    BY <1>2 DEF Renamed
  <2>2. g = [path |-> i, data |-> [f.data EXCEPT ![i] = v]]
    BY <2>1 DEF FileType
  <2> QED BY <1>1, <2>2 DEF FileType
<1>3. ASSUME NEW g \in Unlinked(f) PROVE g \in FileType /\ g.path = 0 /\ g.data = f.data
  BY <1>3 DEF Unlinked, FileType
<1>4. ASSUME NEW g \in Written(f, i)
      PROVE  g \in FileType /\ g.path = f.path /\ \A j \in Inodes \ {i} : g.data[j] = f.data[j]
  <2>1. PICK v \in Bytes : g = [f EXCEPT !.data[i] = v]
    BY <1>4 DEF Written
  <2>2. g = [path |-> f.path, data |-> [f.data EXCEPT ![i] = v]]
    BY <2>1 DEF FileType
  <2> QED BY <1>1, <2>2 DEF FileType
<1> QED BY <1>2, <1>3, <1>4

(* A new file, and the next inode nobody names yet.                        *)
LEMMA FileBegins ==
  /\ 1 \in Inodes
  /\ \A v \in Bytes : NewFile(v) \in FileType /\ NewFile(v).path = 1 /\ NewFile(v).data[1] = v
  /\ \A n \in 1..MaxChanges : MaxChanges - n + 2 \in Inodes
  BY FileAssumption DEF Inodes, NewFile, FileType

-----------------------------------------------------------------------------
(* Backends                                                                *)

Closures == [entry : Nat, dep : Nat]
Verifying == {"stat", "read", "exec"}
Handles ==
  [pc : {"resolve", "refused", "hash", "copyEntry", "copyDeps", "hashFrozen", "launch", "ran",
         "postStat", "postRead", "close", "closed"} \cup Verifying,
   fd : Inodes \cup {0}, sha : Nat, closure : Closures, proven : BOOLEAN, post : {"none", "same", "changed"}]

ExecTypes ==
  /\ xFs \in FileType /\ xh \in Handles /\ xSince \subseteq {"path", "held", "dep", "frozen"}
  /\ xLeft \in 0..MaxChanges /\ xDep \in Nat /\ xFrozen \in Closures
  /\ xh.pc \in {"hash", "copyEntry", "copyDeps", "hashFrozen", "launch", "ran"} \cup Verifying => xh.fd # 0

Disturbed == IF Frozen THEN "frozen" \in xSince ELSE xSince \cap {"held", "path"} # {}

(* How far the verification of a launch has got, unless it was disturbed.  *)
Verified ==
  /\ xh.pc \in {"read", "exec"} /\ ~Disturbed =>
       IF Frozen THEN xFrozen = xh.closure ELSE xFs.path = xh.fd
  /\ xh.pc = "exec" /\ ~Disturbed =>
       IF Frozen THEN xFrozen.entry = xh.sha ELSE xFs.data[xh.fd] = xh.sha

ExecInv == ExecTypes /\ Verified /\ BackendIsVerified

(* Nothing is verified, and nothing was executed, at first.                *)
LEMMA ExecBegins == ExecInit => ExecInv
<1> SUFFICES ASSUME ExecInit PROVE ExecInv
  OBVIOUS
<1>1. xFs \in FileType /\ xDep \in Nat /\ xLeft \in 0..MaxChanges
  BY FileAssumption, FileBegins DEF ExecInit, Escaping
<1>2. xh.pc = "resolve" /\ xh \in Handles /\ xFrozen \in Closures
  BY DEF ExecInit, NoHandle, Nothing, Handles, Closures, Verifying
<1> QED BY <1>1, <1>2 DEF ExecInit, ExecInv, ExecTypes, Verified, BackendIsVerified, Verifying

(* Whatever somebody else does shows as a disturbance of what is verified. *)
LEMMA ExecDisturbed == ASSUME ExecInv, Somebody PROVE ExecInv'
<1> DEFINE Types0 == xFs' \in FileType /\ xDep' \in Nat /\ xFrozen' \in Closures
<1>1. /\ UNCHANGED <<xh, xRan>> /\ xLeft' \in 0..MaxChanges
      /\ xSince' \subseteq {"path", "held", "dep", "frozen"} /\ xSince \subseteq xSince'
  <2>1. PICK what \in {"path", "held", "dep", "frozen"} : Changed(what)
    BY DEF Somebody, Replace, Overwrite, ChangeDep, WriteFrozen
  <2>2. UNCHANGED <<xh, xRan>>
    BY DEF Somebody, Replace, Overwrite, ChangeDep, WriteFrozen
  <2> QED BY <2>1, <2>2, FileAssumption DEF Changed, ExecInv, ExecTypes
<1>2. CASE Replace
  <2>1. xFs' \in FileType
    <3>1. MaxChanges - xLeft + 2 \in Inodes
      BY <1>2, FileBegins DEF Replace, Changed, ExecInv, ExecTypes
    <3> QED BY <1>2, <3>1, FileChanges DEF Replace, ExecInv, ExecTypes
  <2>2. Types0 /\ "path" \in xSince' /\ xFrozen' = xFrozen
    BY <1>2, <2>1 DEF Replace, Changed, ExecInv, ExecTypes
  <2> QED BY <1>1, <2>2 DEF ExecInv, ExecTypes, Verified, BackendIsVerified, Disturbed, Frozen
<1>3. CASE Overwrite
  <2>1. PICK i \in {xFs.path, xh.fd} \ {0} : xFs' \in Written(xFs, i) /\ Changed(IF i = xh.fd THEN "held" ELSE "path")
    BY <1>3 DEF Overwrite
  <2>2. i \in Inodes
    BY DEF ExecInv, ExecTypes, FileType, Handles
  <2>3. xFs' \in FileType
    BY <2>1, <2>2, FileChanges DEF ExecInv, ExecTypes
  <2>4. Types0 /\ xSince' \cap {"held", "path"} # {} /\ xFrozen' = xFrozen
    BY <1>3, <2>1, <2>3 DEF Overwrite, Changed, ExecInv, ExecTypes
  <2> QED BY <1>1, <2>4 DEF ExecInv, ExecTypes, Verified, BackendIsVerified, Disturbed, Frozen
<1>4. CASE ChangeDep
  <2>1. Types0 /\ UNCHANGED <<xFs, xFrozen>> /\ xh.pc \in {"resolve", "hash", "copyEntry", "copyDeps"}
    BY <1>4, FileAssumption DEF ChangeDep, ExecInv, ExecTypes, Escaping
  <2> QED BY <1>1, <2>1 DEF ExecInv, ExecTypes, Verified, BackendIsVerified, Disturbed, Frozen, Verifying
<1>5. CASE WriteFrozen
  <2>1. PICK f \in {"entry", "dep"}, v \in Bytes : xFrozen' = [xFrozen EXCEPT ![f] = v]
    BY <1>5 DEF WriteFrozen
  <2>2. xFrozen' \in Closures
    BY <2>1, FileAssumption DEF ExecInv, ExecTypes, Closures
  <2>3. Types0 /\ "frozen" \in xSince' /\ xFs' = xFs
    BY <1>5, <2>2 DEF WriteFrozen, Changed, ExecInv, ExecTypes
  <2> QED BY <1>1, <2>3 DEF ExecInv, ExecTypes, Verified, BackendIsVerified, Disturbed, Frozen
<1> QED BY <1>2, <1>3, <1>4, <1>5 DEF Somebody

(* The bytes at a path and behind a descriptor.                            *)
LEMMA ContentType ==
  /\ \A f \in FileType : Content(f) \in Nat
  /\ \A f \in FileType, i \in Inodes : f.data[i] \in Nat /\ f.data[i] # 0
  BY FileAssumption DEF Content, FileType

(* A handle that falls back to its descriptor.                             *)
LEMMA UnprovenHandle ==
  ASSUME NEW h \in Handles
  PROVE  Unproven(h) \in Handles /\ Unproven(h).pc = "launch" /\ Unproven(h).fd = h.fd /\ Nothing \in Closures
  BY DEF Unproven, Handles, Closures, Nothing

(* The verdict of a verification on the next step and nothing else.        *)
LEMMA VerdictEffect ==
  ASSUME xh \in Handles, NEW ok \in BOOLEAN
  PROVE  /\ Verdict(ok) \in Handles
         /\ Verdict(ok).closure = xh.closure /\ Verdict(ok).sha = xh.sha /\ Verdict(ok).fd = xh.fd
         /\ Verdict(ok).pc = IF xh.pc \in {"stat", "read"} THEN IF ok THEN "exec" ELSE "refused" ELSE "close"
  BY DEF Verdict, Handles, Verifying

(* The handle's own steps that come before a launch is verified.           *)
LEMMA ExecPrepares ==
  ASSUME ExecInv, OpenExecutable \/ HashOpen \/ copyVerifiedFD \/ copyTreeHashed \/ hashFrozenNodeClosure \/ Close
  PROVE  ExecInv'
<1>1. UNCHANGED <<xFs, xDep, xLeft, xSince, xRan>>
  BY DEF OpenExecutable, HashOpen, copyVerifiedFD, copyTreeHashed, hashFrozenNodeClosure, Close, Handle
<1>2. xh \in Handles /\ xFs \in FileType /\ xFrozen \in Closures /\ xDep \in Nat
  BY DEF ExecInv, ExecTypes
<1> DEFINE Quiet == {"refused", "hash", "copyEntry", "copyDeps", "hashFrozen", "launch", "closed"}
<1>3. SUFFICES xh' \in Handles /\ xFrozen' \in Closures /\ xh'.pc \in Quiet
               /\ (xh'.pc \in Quiet \ {"refused", "closed"} => xh'.fd # 0)
  BY <1>1 DEF ExecInv, ExecTypes, Verified, BackendIsVerified, Verifying
<1>4. CASE OpenExecutable
  BY <1>2, <1>4 DEF OpenExecutable, Handle, Handles, FileType, Verifying
<1>5. CASE HashOpen
  <2>1. xFs.data[xh.fd] \in Nat /\ xh.fd # 0
    BY <1>2, <1>5, ContentType DEF HashOpen, ExecInv, ExecTypes, Handles
  <2> QED BY <1>2, <1>5, <2>1 DEF HashOpen, Handle, Handles, Verifying
<1>6. CASE copyVerifiedFD
  <2>1. xFs.data[xh.fd] \in Nat /\ xh.fd # 0
    BY <1>2, <1>6, ContentType DEF copyVerifiedFD, ExecInv, ExecTypes, Handles
  <2> QED BY <1>2, <1>6, <2>1 DEF copyVerifiedFD, Handle, Handles, Closures, Verifying
<1>7. CASE copyTreeHashed
  <2>1. xh.pc = "copyDeps" /\ xh.fd # 0
    BY <1>7 DEF copyTreeHashed, ExecInv, ExecTypes
  <2>2. CASE xFrozen' = Nothing /\ Handle(Unproven(xh))
    BY <1>2, <2>1, <2>2, UnprovenHandle DEF Handle
  <2>3. CASE xFrozen' = [xFrozen EXCEPT !.dep = xDep] /\ Handle([xh EXCEPT !.pc = "hashFrozen"])
    BY <1>2, <2>1, <2>3 DEF Handle, Handles, Closures
  <2> QED BY <1>7, <2>2, <2>3 DEF copyTreeHashed
<1>8. CASE hashFrozenNodeClosure
  <2>1. xh.pc = "hashFrozen" /\ xh.fd # 0
    BY <1>8 DEF hashFrozenNodeClosure, ExecInv, ExecTypes
  <2>2. CASE xFrozen' = Nothing /\ Handle(Unproven(xh))
    BY <1>2, <2>1, <2>2, UnprovenHandle DEF Handle
  <2>3. CASE Handle([xh EXCEPT !.pc = "launch", !.closure = xFrozen, !.proven = TRUE]) /\ UNCHANGED xFrozen
    BY <1>2, <2>1, <2>3 DEF Handle, Handles
  <2> QED BY <1>8, <2>2, <2>3 DEF hashFrozenNodeClosure
<1>9. CASE Close
  BY <1>2, <1>9 DEF Close, Handle, Handles, Closures, Verifying, Nothing
<1> QED BY <1>4, <1>5, <1>6, <1>7, <1>8, <1>9

(* The verification, and what it lets run.                                 *)
LEMMA ExecVerifies ==
  ASSUME ExecInv, BeginVerify \/ VerifyIdentity \/ VerifyContent \/ Exec
  PROVE  ExecInv'
<1>1. UNCHANGED <<xFs, xDep, xLeft, xFrozen>>
  BY DEF BeginVerify, VerifyIdentity, VerifyContent, Exec, Handle
<1>2. xh \in Handles /\ xFs \in FileType /\ xFrozen \in Closures /\ xh.closure \in Closures
  BY DEF ExecInv, ExecTypes, Handles
<1>3. CASE BeginVerify
  BY <1>1, <1>2, <1>3 DEF BeginVerify, Handle, Handles, ExecInv, ExecTypes, Verified, BackendIsVerified, Verifying
<1>4. CASE VerifyIdentity
  <2>1. xSince' = xSince /\ xRan' = xRan
    BY <1>4 DEF VerifyIdentity
  <2>2. /\ xh' \in Handles /\ UNCHANGED <<xh.closure, xh.sha, xh.fd>>
        /\ xh.pc \in {"stat", "postStat"} /\ xh'.pc \in {"read", "postRead", "refused", "close"}
        /\ xh'.pc = "read" => IF Frozen THEN xFrozen = xh.closure ELSE xFs.path = xh.fd
        /\ xh'.pc = "read" => xh.fd # 0
    <3> DEFINE ok == IF Frozen THEN xFrozen = xh.closure ELSE xFs.path = xh.fd
               next == IF xh.pc = "stat" THEN "read" ELSE "postRead"
    <3>1. xh.pc \in {"stat", "postStat"} /\ (xh.pc = "stat" => xh.fd # 0)
          /\ xh' = IF ok THEN [xh EXCEPT !.pc = next] ELSE Verdict(FALSE)
      BY <1>4 DEF VerifyIdentity, Handle, ExecInv, ExecTypes, Verifying
    <3>2. CASE ok
      BY <1>2, <3>1, <3>2 DEF Handles, Verifying
    <3>3. CASE ~ok
      BY <1>2, <3>1, <3>3, VerdictEffect
    <3> QED BY <3>2, <3>3
  <2> QED BY <1>1, <1>2, <2>1, <2>2 DEF ExecInv, ExecTypes, Verified, BackendIsVerified, Disturbed, Frozen, Verifying
<1>5. CASE VerifyContent
  <2>1. xSince' = xSince /\ xRan' = xRan
    BY <1>5 DEF VerifyContent
  <2>2. /\ xh' \in Handles /\ UNCHANGED <<xh.closure, xh.sha, xh.fd>>
        /\ xh.pc \in {"read", "postRead"} /\ xh'.pc \in {"exec", "refused", "close"}
        /\ xh'.pc = "exec" => /\ xh.pc = "read"
                              /\ (IF Frozen THEN xFrozen.entry ELSE Content(xFs)) = xh.sha
        /\ xh'.pc = "exec" => xh.fd # 0
    <3> DEFINE ok == (IF Frozen THEN xFrozen.entry ELSE Content(xFs)) = xh.sha
    <3>1. xh.pc \in {"read", "postRead"} /\ (xh.pc = "read" => xh.fd # 0) /\ xh' = Verdict(ok)
      BY <1>5 DEF VerifyContent, Handle, ExecInv, ExecTypes, Verifying
    <3> HIDE DEF ok
    <3>2. xh' \in Handles /\ UNCHANGED <<xh.closure, xh.sha, xh.fd>>
          /\ (xh.pc = "read" => xh'.pc = IF ok THEN "exec" ELSE "refused")
          /\ (xh.pc = "postRead" => xh'.pc = "close")
      <4>1. ok \in BOOLEAN
        BY DEF ok
      <4> QED BY <1>2, <3>1, <4>1, VerdictEffect
    <3> QED BY <3>1, <3>2 DEF ok
  <2> QED BY <1>1, <1>2, <2>1, <2>2 DEF ExecInv, ExecTypes, Verified, BackendIsVerified, Disturbed, Frozen, Verifying, Content
<1>6. CASE Exec
  <2>1. /\ xh.pc = "exec" /\ xh' = [xh EXCEPT !.pc = "ran"] /\ xSince' = xSince
    BY <1>6 DEF Exec, Handle
  <2>2. xh' \in Handles /\ xh'.pc = "ran" /\ UNCHANGED <<xh.closure, xh.sha, xh.fd>> /\ xh.fd # 0
    BY <1>2, <2>1 DEF Handles, ExecInv, ExecTypes, Verifying
  <2>3. ~Disturbed => xRan'.entry = xh.sha /\ (Frozen => xRan' = xh.closure)
    <3>1. CASE Frozen
      <4>1. xRan' = xFrozen
        BY <1>6, <3>1 DEF Exec, ByPath
      <4> QED BY <2>1, <3>1, <4>1 DEF ExecInv, Verified
    <3>2. CASE ~Frozen
      BY <1>6, <2>1, <2>2, <3>2 DEF Exec, ExecInv, Verified, Content
    <3> QED BY <3>1, <3>2
  <2> QED BY <1>1, <1>2, <2>1, <2>2, <2>3 DEF ExecInv, ExecTypes, Verified, BackendIsVerified, Disturbed, Frozen, Verifying
<1> QED BY <1>3, <1>4, <1>5, <1>6

(* What the backends' part keeps at every step.                            *)
LEMMA ExecKeeps == ExecInv /\ (ExecNext \/ UNCHANGED xVars) => ExecInv'
<1>1. ASSUME ExecInv, UNCHANGED xVars PROVE ExecInv'
  BY <1>1 DEF xVars, ExecInv, ExecTypes, Verified, BackendIsVerified, Disturbed, Frozen
<1> QED BY <1>1, ExecDisturbed, ExecPrepares, ExecVerifies DEF ExecNext, ExecStep

-----------------------------------------------------------------------------
(* Controller tools                                                        *)

Entries == [ino : Inodes \cup {0}, sha : Nat, kind : Kinds]
Registers == [state : {"ok", "absent", "unfit"}, gen : Nat, tools : [Tools -> Entries]]
Enrolling ==
  [pc : {"idle", "inspect", "lock", "read", "write", "done", "failed"}, name : Tools \cup {0},
   entry : Entries, buf : [gen : Nat, tools : [Tools -> Entries] \cup {<<>>}]]
ToolHandles ==
  [pc : {"load", "refused", "inspect", "open", "hash", "held", "sealed", "stat", "verified", "ran", "ranCopy",
         "closed"},
   entry : Entries, fd : Inodes \cup {0}, copy : Nat, kept : Nat, sum : Nat, same : BOOLEAN]

(* Inodes that have been given out so far.                                 *)
Given == 0..(MaxChanges - tLeft + 1)

ToolTypes ==
  /\ reg \in Registers /\ en \in [Enrollers -> Enrolling] /\ th \in ToolHandles
  /\ tFs \in [Tools -> [file : FileType, trusted : BOOLEAN]]
  /\ tLeft \in 0..MaxChanges /\ tSince \subseteq {"path", "held", "copy"}
  /\ th.fd \in Given /\ \A n \in Tools : tFs[n].file.path \in Given
  /\ th.pc \in {"hash", "held"} => th.fd # 0
  /\ th.pc = "open" => th.entry.ino # 0
  /\ \A e \in Enrollers : en[e].pc = "inspect" => en[e].name \in Tools

(* Who has read the registry holds its lock, and has read what is there.   *)
OneWriter ==
  \A e \in Enrollers :
    /\ en[e].pc \in {"read", "write"} => regLock = e
    /\ en[e].pc = "write" => en[e].buf = [gen |-> reg.gen, tools |-> reg.tools]

(* What the descriptor and the private copy hold, unless written since.    *)
HeldIsEnrolled ==
  /\ th.pc = "held" => tFs[1].file.data[th.fd] = th.entry.sha \/ "held" \in tSince
  /\ th.pc \in {"sealed", "stat"} => th.sum = th.entry.sha \/ "held" \in tSince
  /\ th.pc = "sealed" /\ th.same => th.copy = th.kept
  /\ th.pc = "stat" => th.copy = th.kept \/ "copy" \in tSince
  /\ th.pc = "verified" => th.copy = th.entry.sha \/ {"held", "copy"} \cap tSince # {}

ToolInv == ToolTypes /\ OneWriter /\ HeldIsEnrolled /\ EnrollmentsKept /\ ToolIsVerified

(* The registry begins as its last enrollments, and no tool is held.       *)
LEMMA ToolBegins == ToolInit => ToolInv
<1> SUFFICES ASSUME ToolInit PROVE ToolInv
  OBVIOUS
<1>1. tFs \in [Tools -> [file : FileType, trusted : BOOLEAN]] /\ \A n \in Tools : tFs[n].file.path = 1
  <2>1. \A n \in Tools : tFs[n] \in [file : {NewFile(v) : v \in Bytes}, trusted : BOOLEAN]
    BY DEF ToolInit
  <2>2. {NewFile(v) : v \in Bytes} \subseteq {f \in FileType : f.path = 1}
    BY FileBegins
  <2>3. \A n \in Tools : tFs[n] \in [file : FileType, trusted : BOOLEAN] /\ tFs[n].file.path = 1
    BY <2>1, <2>2
  <2>4. DOMAIN tFs = Tools /\ tFs = [n \in DOMAIN tFs |-> tFs[n]]
    BY DEF ToolInit
  <2> QED BY <2>3, <2>4
<1>2. NoEntry \in Entries /\ [ino : {1}, sha : Bytes, kind : Kinds] \subseteq Entries
  BY FileAssumption, FileBegins DEF NoEntry, Entries, Kinds
<1>3. reg \in Registers
  <2>1. PICK e \in {NoEntry} \cup [ino : {1}, sha : Bytes, kind : Kinds], st \in {"ok", "absent", "unfit"} :
          reg = [state |-> st, gen |-> 0, tools |-> [n \in Tools |-> IF n = 1 THEN e ELSE NoEntry]]
    BY DEF ToolInit
  <2> QED BY <1>2, <2>1 DEF Registers
<1>4. /\ th = NoTool /\ en = [e \in Enrollers |-> Fresh] /\ tLeft = MaxChanges /\ tSince = {}
      /\ done = [n |-> 0, last |-> reg.tools] /\ reg.gen = 0
  BY DEF ToolInit
<1>5. th \in ToolHandles /\ th.fd = 0 /\ th.pc = "load"
  BY <1>2, <1>4 DEF NoTool, ToolHandles
<1>6. Fresh \in Enrolling /\ Fresh.pc = "idle"
  BY <1>2 DEF Fresh, Enrolling
<1> QED BY <1>1, <1>3, <1>4, <1>5, <1>6, FileAssumption
        DEF ToolInv, ToolTypes, OneWriter, HeldIsEnrolled, EnrollmentsKept, ToolIsVerified, Given

(* The registry's steps do not touch the tools, the tools' steps do not    *)
(* touch the registry.                                                     *)
Registry == ToolTypes /\ OneWriter /\ EnrollmentsKept
Launching == HeldIsEnrolled /\ ToolIsVerified

(* The parts of a state that satisfies the invariant.                      *)
LEMMA ToolParts ==
  /\ ToolInv <=> Registry /\ Launching
  /\ ToolInv' <=> Registry' /\ Launching'
  /\ ToolInv /\ UNCHANGED <<tFs, th, tSince, tRan>> => Launching'
  /\ ToolInv /\ UNCHANGED <<reg, regLock, en, done>> /\ ToolTypes' => Registry'
  BY DEF Registry, Launching, ToolInv, OneWriter, EnrollmentsKept, HeldIsEnrolled, ToolIsVerified

(* An enrolling process moves.                                             *)
LEMMA EnrollEffect ==
  ASSUME ToolInv, NEW e \in Enrollers, NEW to \in Enrolling, Enrolls(e, to), Frame,
         to.pc \in {"read", "write"} => regLock' = e,
         to.pc = "inspect" => to.name \in Tools,
         to.pc = "write" => to.buf = [gen |-> reg'.gen, tools |-> reg'.tools],
         reg' \in Registers, reg'.tools = done'.last /\ reg'.gen = done'.n,
         \/ regLock' = regLock /\ reg' = reg
         \/ regLock = 0 /\ regLock' = e /\ reg' = reg
         \/ regLock = e /\ regLock' = 0
  PROVE  ToolInv'
<1>1. en' = [en EXCEPT ![e] = to] /\ en \in [Enrollers -> Enrolling]
  BY DEF Enrolls, ToolInv, ToolTypes
<1>2. ToolTypes'
  BY <1>1 DEF Frame, ToolInv, ToolTypes, Given
<1>3. OneWriter'
  <2> SUFFICES ASSUME NEW x \in Enrollers
               PROVE  /\ en'[x].pc \in {"read", "write"} => regLock' = x
                      /\ en'[x].pc = "write" => en'[x].buf = [gen |-> reg'.gen, tools |-> reg'.tools]
    BY DEF OneWriter
  <2>1. CASE x = e
    BY <1>1, <2>1
  <2>2. CASE x # e
    <3>1. en'[x] = en[x] /\ e # 0 /\ x # 0
      BY <1>1, <2>2, ToolAssumption
    <3> QED BY <2>2, <3>1 DEF ToolInv, OneWriter
  <2> QED BY <2>1, <2>2
<1>4. EnrollmentsKept'
  BY DEF EnrollmentsKept
<1> QED BY <1>2, <1>3, <1>4, ToolParts DEF Frame, Registry

(* Every step of an enrollment keeps the registry that of the last ones.   *)
LEMMA EnrollKeeps ==
  ASSUME ToolInv, NEW e \in Enrollers, EnrollStep(e)
  PROVE  ToolInv'
<1> DEFINE u == en[e]
<1>1. /\ u \in Enrolling /\ reg \in Registers /\ (u.pc \in {"read", "write"} => regLock = e)
      /\ (u.pc = "write" => u.buf = [gen |-> reg.gen, tools |-> reg.tools])
      /\ reg.tools = done.last /\ reg.gen = done.n
  BY DEF ToolInv, ToolTypes, OneWriter, EnrollmentsKept
<1>2. NoEntry \in Entries
  BY DEF NoEntry, Entries, Kinds
<1>3. CASE ReadPrior(e)
  <2>1. PICK n \in Tools : Enrolls(e, [u EXCEPT !.pc = "inspect", !.name = n,
                       !.entry = [NoEntry EXCEPT !.kind =
                          IF reg.state = "ok" THEN reg.tools[n].kind ELSE "trusted-controller"]])
    BY <1>3 DEF ReadPrior
  <2> DEFINE k == IF reg.state = "ok" THEN reg.tools[n].kind ELSE "trusted-controller"
             y == [NoEntry EXCEPT !.kind = k]
             v == [u EXCEPT !.pc = "inspect", !.name = n, !.entry = y]
  <2>2. k \in Kinds
    BY <1>1 DEF Registers, Entries, Kinds
  <2>3. y \in Entries
    <3> HIDE DEF k
    <3> QED BY <1>2, <2>2 DEF Entries
  <2>4. v \in Enrolling /\ v.pc = "inspect" /\ v.name = n
    <3> HIDE DEF y
    <3> QED BY <1>1, <2>3 DEF Enrolling
  <2>5. Enrolls(e, v) /\ UNCHANGED <<reg, regLock, done>> /\ Frame
    BY <1>3, <2>1 DEF ReadPrior
  <2> HIDE DEF v
  <2> QED BY <1>1, <2>4, <2>5, EnrollEffect
<1>4. CASE Inspect(e)
  <2> DEFINE t == tFs[u.name]
             f == [u EXCEPT !.pc = "failed"]
             v == [u EXCEPT !.pc = "lock", !.entry.ino = t.file.path, !.entry.sha = Content(t.file)]
  <2>1. t.file \in FileType
    <3>1. u.name \in Tools /\ tFs \in [Tools -> [file : FileType, trusted : BOOLEAN]]
      BY <1>4 DEF Inspect, ToolInv, ToolTypes
    <3> QED BY <3>1
  <2>2. f \in Enrolling /\ f.pc = "failed"
    BY <1>1 DEF Enrolling
  <2>3. v \in Enrolling /\ v.pc = "lock"
    <3> DEFINE y == [u.entry EXCEPT !.ino = t.file.path, !.sha = Content(t.file)]
    <3>1. t.file.path \in Inodes \cup {0} /\ Content(t.file) \in Nat
      BY <2>1, ContentType DEF FileType
    <3>2. y \in Entries
      <4> HIDE DEF t
      <4> QED BY <1>1, <3>1 DEF Enrolling, Entries
    <3>3. v = [u EXCEPT !.pc = "lock", !.entry = y]
      <4> HIDE DEF t
      <4> QED BY <1>1 DEF Enrolling, Entries
    <3> HIDE DEF y, v
    <3> QED BY <1>1, <3>2, <3>3 DEF Enrolling
  <2>4. \E to \in {f, v} : Enrolls(e, to)
    BY <1>4 DEF Inspect
  <2> HIDE DEF f, v
  <2> QED BY <1>1, <1>4, <2>2, <2>3, <2>4, EnrollEffect DEF Inspect
<1>5. CASE TakeLock(e)
  <2> DEFINE v == [u EXCEPT !.pc = "read"]
  <2>1. v \in Enrolling /\ v.pc = "read"
    BY <1>1 DEF Enrolling
  <2> HIDE DEF v
  <2> QED BY <1>1, <1>5, <2>1, EnrollEffect DEF TakeLock, v
<1>6. CASE ReadRegistry(e)
  <2> DEFINE f == [u EXCEPT !.pc = "failed"]
             w == [gen |-> reg.gen, tools |-> reg.tools]
             v == [u EXCEPT !.pc = "write", !.buf = w]
  <2>1. f \in Enrolling /\ f.pc = "failed"
    BY <1>1 DEF Enrolling
  <2>2. v \in Enrolling /\ v.pc = "write" /\ v.buf = w
    <3>1. w \in [gen : Nat, tools : [Tools -> Entries] \cup {<<>>}]
      BY <1>1 DEF Registers
    <3> HIDE DEF w
    <3> QED BY <1>1, <3>1 DEF Enrolling
  <2>3. u.pc = "read" /\ UNCHANGED <<reg, done>> /\ Frame
    BY <1>6 DEF ReadRegistry
  <2>4. \/ Enrolls(e, f) /\ regLock' = 0
        \/ Enrolls(e, v) /\ UNCHANGED regLock
    BY <1>6 DEF ReadRegistry
  <2> HIDE DEF f, v
  <2>5. CASE Enrolls(e, f) /\ regLock' = 0
    BY <1>1, <2>1, <2>3, <2>5, EnrollEffect
  <2>6. CASE Enrolls(e, v) /\ UNCHANGED regLock
    BY <1>1, <2>2, <2>3, <2>6, EnrollEffect
  <2> QED BY <2>4, <2>5, <2>6
<1>7. CASE Publish(e)
  <2> DEFINE f == [u EXCEPT !.pc = "failed"]
             v == [u EXCEPT !.pc = "done"]
  <2>1. f \in Enrolling /\ f.pc = "failed" /\ v \in Enrolling /\ v.pc = "done"
    BY <1>1 DEF Enrolling
  <2>2. regLock = e /\ regLock' = 0 /\ Frame
    BY <1>1, <1>7 DEF Publish
  <2>3. CASE Enrolls(e, f) /\ UNCHANGED <<reg, done>>
    <3> HIDE DEF f, v
    <3> QED BY <1>1, <2>1, <2>2, <2>3, EnrollEffect
  <2>4. CASE /\ reg' = [state |-> "ok", gen |-> u.buf.gen + 1, tools |-> [u.buf.tools EXCEPT ![u.name] = u.entry]]
             /\ done' = [n |-> done.n + 1, last |-> [done.last EXCEPT ![u.name] = u.entry]]
             /\ Enrolls(e, v)
    <3>1. u.buf.gen = reg.gen /\ u.buf.tools = reg.tools
      BY <1>1, <1>7 DEF Publish
    <3>2. reg'.tools = done'.last /\ reg'.gen = done'.n
      BY <1>1, <2>4, <3>1
    <3>3. reg' \in Registers
      <4> DEFINE m == [reg.tools EXCEPT ![u.name] = u.entry]
      <4>1. m \in [Tools -> Entries] /\ u.buf.gen + 1 \in Nat
        <5>1. u.entry \in Entries /\ reg.tools \in [Tools -> Entries] /\ reg.gen \in Nat
          BY <1>1 DEF Registers, Enrolling
        <5>2. \A g \in [Tools -> Entries], y \in Entries : \A x : [g EXCEPT ![x] = y] \in [Tools -> Entries]
          OBVIOUS
        <5>3. u.buf.gen + 1 \in Nat
          BY <3>1, <5>1
        <5> QED BY <5>1, <5>2, <5>3
      <4>2. reg' = [state |-> "ok", gen |-> u.buf.gen + 1, tools |-> m]
        BY <2>4, <3>1
      <4> HIDE DEF m
      <4> QED BY <4>1, <4>2 DEF Registers
    <3> HIDE DEF f, v
    <3> QED BY <1>1, <2>1, <2>2, <2>4, <3>2, <3>3, EnrollEffect
  <2> QED BY <1>7, <2>3, <2>4 DEF Publish
<1>8. CASE Dies(e)
  <2> DEFINE f == [u EXCEPT !.pc = "failed"]
  <2>1. f \in Enrolling /\ f.pc = "failed"
    BY <1>1 DEF Enrolling
  <2>2. \/ regLock' = regLock
        \/ regLock = e /\ regLock' = 0
    BY <1>8 DEF Dies
  <2> HIDE DEF f
  <2> QED BY <1>1, <1>8, <2>1, <2>2, EnrollEffect DEF Dies, f
<1> QED BY <1>3, <1>4, <1>5, <1>6, <1>7, <1>8 DEF EnrollStep

(* A step of the resolver leaves the registry and the tools alone.         *)
LEMMA HandleKeeps == ASSUME ToolInv, HandleStep PROVE ToolInv'
<1>1. UNCHANGED <<reg, regLock, en, tFs, tLeft, done>>
  BY DEF HandleStep, LoadEntry, Resolve1, OpenHandle, HashHandle, ExecHeld, sealInto, StatCopy, VerifyCopy, ExecCopy,
         CloseTool, Tool, Refuse
<1>2. /\ th \in ToolHandles /\ th.fd \in Given /\ tFs[1].file \in FileType /\ tFs[1].file.path \in Given
      /\ tSince \subseteq {"path", "held", "copy"}
  BY ToolAssumption DEF ToolInv, ToolTypes
<1>3. SUFFICES /\ th' \in ToolHandles /\ th'.fd \in Given /\ tSince' \subseteq {"path", "held", "copy"}
               /\ th'.pc \in {"hash", "held"} => th'.fd # 0
               /\ th'.pc = "open" => th'.entry.ino # 0
               /\ HeldIsEnrolled' /\ ToolIsVerified'
  BY <1>1, ToolParts DEF ToolInv, ToolTypes, Given, Launching
<1> DEFINE r == [th EXCEPT !.pc = "refused"]
<1>4. r \in ToolHandles /\ r.pc = "refused" /\ r.fd = th.fd
  BY <1>2 DEF ToolHandles
<1>5. CASE th' = r /\ tSince' \subseteq {"path", "held", "copy"}
  <2> HIDE DEF r
  <2> QED BY <1>2, <1>4, <1>5 DEF HeldIsEnrolled, ToolIsVerified
<1>6. CASE LoadEntry
  <2>1. tSince' = tSince /\ (th' = r \/ th' = [th EXCEPT !.pc = "inspect", !.entry = reg.tools[1]])
    BY <1>6 DEF LoadEntry, Tool, Refuse
  <2>2. CASE th' = [th EXCEPT !.pc = "inspect", !.entry = reg.tools[1]]
    <3>1. reg.tools[1] \in Entries
      BY ToolAssumption DEF ToolInv, ToolTypes, Registers
    <3>2. th' \in ToolHandles /\ th'.pc = "inspect" /\ th'.fd = th.fd
      BY <1>2, <2>2, <3>1 DEF ToolHandles
    <3> QED BY <1>2, <2>1, <3>2 DEF HeldIsEnrolled, ToolIsVerified
  <2> QED BY <1>2, <1>5, <2>1, <2>2
<1>7. CASE Resolve1
  <2>1. tSince' = tSince /\ (th' = r \/ (th.entry.ino # 0 /\ th' = [th EXCEPT !.pc = "open"]))
    BY <1>7 DEF Resolve1, Tool, Refuse
  <2>2. CASE th.entry.ino # 0 /\ th' = [th EXCEPT !.pc = "open"]
    <3>1. th' \in ToolHandles /\ th'.pc = "open" /\ th'.fd = th.fd /\ th'.entry = th.entry
      BY <1>2, <2>2 DEF ToolHandles
    <3> QED BY <1>2, <2>1, <2>2, <3>1 DEF HeldIsEnrolled, ToolIsVerified
  <2> QED BY <1>2, <1>5, <2>1, <2>2
<1>8. CASE OpenHandle
  <2> DEFINE p == tFs[1].file.path
  <2>1. /\ tSince' = tSince /\ th.pc = "open"
        /\ th' = r \/ (p = th.entry.ino /\ th' = [th EXCEPT !.pc = "hash", !.fd = p])
    BY <1>8 DEF OpenHandle, Tool, Refuse
  <2>2. CASE p = th.entry.ino /\ th' = [th EXCEPT !.pc = "hash", !.fd = p]
    <3>1. p \in Inodes /\ p \in Given
      BY <1>2, <2>1, <2>2 DEF FileType, ToolInv, ToolTypes
    <3>2. th' \in ToolHandles /\ th'.pc = "hash" /\ th'.fd = p
      <4> HIDE DEF p
      <4> QED BY <1>2, <2>2, <3>1 DEF ToolHandles
    <3>3. p # 0
      BY <3>1 DEF Inodes
    <3> QED BY <1>2, <2>1, <3>1, <3>2, <3>3 DEF HeldIsEnrolled, ToolIsVerified
  <2> QED BY <1>2, <1>5, <2>1, <2>2
<1>9. CASE HashHandle
  <2>1. /\ tSince' = {} /\ th.pc = "hash"
        /\ th' = r \/ (tFs[1].file.data[th.fd] = th.entry.sha /\ th' = [th EXCEPT !.pc = "held"])
    BY <1>9 DEF HashHandle, Tool, Refuse
  <2>2. CASE tFs[1].file.data[th.fd] = th.entry.sha /\ th' = [th EXCEPT !.pc = "held"]
    <3>1. th' \in ToolHandles /\ th'.pc = "held" /\ th'.fd = th.fd /\ th'.entry = th.entry /\ th.fd # 0
      BY <1>2, <2>1, <2>2 DEF ToolHandles, ToolInv, ToolTypes
    <3> QED BY <1>1, <1>2, <2>1, <2>2, <3>1 DEF HeldIsEnrolled, ToolIsVerified
  <2> QED BY <1>5, <2>1, <2>2
<1>10. CASE ExecHeld
  <2>1. /\ tSince' = tSince /\ th.pc = "held" /\ th' = [th EXCEPT !.pc = "ran"]
        /\ tRan' = tFs[1].file.data[th.fd]
    BY <1>10 DEF ExecHeld, Tool
  <2>2. th' \in ToolHandles /\ th'.pc = "ran" /\ th'.fd = th.fd /\ th'.entry = th.entry
    BY <1>2, <2>1 DEF ToolHandles
  <2> QED BY <1>2, <2>1, <2>2 DEF ToolInv, HeldIsEnrolled, ToolIsVerified
<1>11. CASE sealInto
  <2> DEFINE v == tFs[1].file.data[th.fd]
  <2>1. /\ tSince' = tSince /\ th.pc = "held" /\ th' = [th EXCEPT !.pc = "sealed", !.copy = v, !.kept = v, !.sum = v, !.same = TRUE]
    BY <1>11 DEF sealInto, Tool
  <2>2. v \in Nat
    <3>1. th.fd \in Inodes
      BY <1>2, <2>1 DEF ToolHandles, ToolInv, ToolTypes
    <3> QED BY <1>2, <3>1, ContentType
  <2>3. th' \in ToolHandles /\ th'.pc = "sealed" /\ th'.fd = th.fd /\ th'.entry = th.entry
        /\ th'.copy = v /\ th'.kept = v /\ th'.sum = v
    <3> HIDE DEF v
    <3> QED BY <1>2, <2>1, <2>2 DEF ToolHandles
  <2> QED BY <1>2, <2>1, <2>3 DEF ToolInv, HeldIsEnrolled, ToolIsVerified
<1>11a. CASE StatCopy
  <2>1. /\ tSince' = tSince \ {"copy"} /\ th.pc = "sealed"
        /\ th' = r \/ (th.same /\ th' = [th EXCEPT !.pc = "stat"])
    BY <1>11a DEF StatCopy, Tool, Refuse
  <2>2. CASE th.same /\ th' = [th EXCEPT !.pc = "stat"]
    <3>1. th' \in ToolHandles /\ th'.pc = "stat" /\ UNCHANGED <<th.fd, th.entry, th.copy, th.kept, th.sum>>
      BY <1>2, <2>2 DEF ToolHandles
    <3> QED BY <1>2, <2>1, <2>2, <3>1 DEF ToolInv, HeldIsEnrolled, ToolIsVerified
  <2> QED BY <1>2, <1>5, <2>1, <2>2
<1>12. CASE VerifyCopy
  <2>1. /\ tSince' = tSince /\ th.pc = "stat"
        /\ th' = r \/ (th.kept = th.sum /\ th' = [th EXCEPT !.pc = "verified"])
    BY <1>12 DEF VerifyCopy, Tool, Refuse
  <2>2. CASE th.kept = th.sum /\ th' = [th EXCEPT !.pc = "verified"]
    <3>1. th' \in ToolHandles /\ th'.pc = "verified" /\ th'.fd = th.fd /\ th'.entry = th.entry /\ th'.copy = th.copy
      BY <1>2, <2>2 DEF ToolHandles
    <3> QED BY <1>2, <2>1, <2>2, <3>1 DEF ToolInv, HeldIsEnrolled, ToolIsVerified
  <2> QED BY <1>2, <1>5, <2>1, <2>2
<1>13. CASE ExecCopy
  <2>1. /\ tSince' = tSince /\ th.pc = "verified" /\ th' = [th EXCEPT !.pc = "ranCopy"] /\ tRan' = th.copy
    BY <1>13 DEF ExecCopy, Tool
  <2>2. th' \in ToolHandles /\ th'.pc = "ranCopy" /\ th'.fd = th.fd /\ th'.entry = th.entry
    BY <1>2, <2>1 DEF ToolHandles
  <2> QED BY <1>2, <2>1, <2>2 DEF ToolInv, HeldIsEnrolled, ToolIsVerified
<1>14. CASE CloseTool
  <2>1. tSince' = tSince /\ th' = [th EXCEPT !.pc = "closed", !.fd = 0, !.copy = 0, !.kept = 0]
    BY <1>14 DEF CloseTool, Tool
  <2>2. th' \in ToolHandles /\ th'.pc = "closed" /\ th'.fd = 0 /\ 0 \in Given
    <3>1. 0 \in Given
      BY FileAssumption DEF Given, ToolInv, ToolTypes
    <3> QED BY <1>2, <2>1, <3>1 DEF ToolHandles
  <2> QED BY <1>2, <2>1, <2>2 DEF HeldIsEnrolled, ToolIsVerified
<1> QED BY <1>6, <1>7, <1>8, <1>9, <1>10, <1>11, <1>11a, <1>12, <1>13, <1>14 DEF HandleStep

(* A replaced tool is a new inode, which no descriptor has.                *)
LEMMA ToolReplaced == ASSUME ToolInv, ReplaceTool PROVE ToolInv'
<1>1. PICK n \in Tools, f \in BOOLEAN :
        \E g \in Renamed(tFs[n].file, MaxChanges - tLeft + 2) \cup Unlinked(tFs[n].file) :
           tFs' = [tFs EXCEPT ![n] = [file |-> g, trusted |-> f]]
  BY DEF ReplaceTool
<1> DEFINE i == MaxChanges - tLeft + 2
           old == tFs[n].file
<1>2. PICK g \in Renamed(old, i) \cup Unlinked(old) : tFs' = [tFs EXCEPT ![n] = [file |-> g, trusted |-> f]]
  BY <1>1
<1>3. /\ UNCHANGED <<reg, regLock, en, th, tRan, done>> /\ tLeft' = tLeft - 1 /\ tLeft' \in 0..MaxChanges
      /\ tSince' = tSince \cup {"path"} /\ tLeft \in 1..MaxChanges
  BY FileAssumption DEF ReplaceTool, ToolChanged, ToolInv, ToolTypes
<1>4. /\ tFs \in [Tools -> [file : FileType, trusted : BOOLEAN]] /\ old \in FileType
      /\ th \in ToolHandles /\ th.fd \in Given /\ \A m \in Tools : tFs[m].file.path \in Given
  BY DEF ToolInv, ToolTypes
<1>5. i \in Inodes /\ i \in Given' /\ i \notin Given /\ Given \subseteq Given' /\ 0 \in Given'
  BY <1>3, FileBegins, FileAssumption DEF Given
<1> HIDE DEF i, old
<1>6. g \in FileType /\ g.path \in {0, i} /\ \A j \in Inodes \ {i} : g.data[j] = old.data[j]
  BY <1>2, <1>4, <1>5, FileChanges
<1>7. tFs' \in [Tools -> [file : FileType, trusted : BOOLEAN]]
  BY <1>2, <1>4, <1>6
<1>8. \A m \in Tools : tFs'[m].file.path \in Given'
  <2> SUFFICES ASSUME NEW m \in Tools PROVE tFs'[m].file.path \in Given'
    OBVIOUS
  <2>1. CASE m = n
    BY <1>2, <1>4, <1>5, <1>6, <2>1
  <2>2. CASE m # n
    BY <1>2, <1>4, <1>5, <2>2
  <2> QED BY <2>1, <2>2
<1>9. th.fd # 0 => tFs'[1].file.data[th.fd] = tFs[1].file.data[th.fd]
  <2> SUFFICES ASSUME th.fd # 0 PROVE tFs'[1].file.data[th.fd] = tFs[1].file.data[th.fd]
    OBVIOUS
  <2>1. th.fd \in Inodes \ {i}
    BY <1>4, <1>5 DEF ToolHandles
  <2>2. CASE n = 1
    <3>1. tFs'[1].file = g
      BY <1>2, <1>4, <2>2
    <3> QED BY <1>6, <2>1, <2>2, <3>1 DEF old
  <2>3. CASE n # 1
    <3>1. tFs'[1] = tFs[1]
      BY <1>2, <1>4, <2>3
    <3> QED BY <3>1
  <2> QED BY <2>2, <2>3
<1>10. ToolTypes'
  BY <1>3, <1>4, <1>5, <1>7, <1>8 DEF ToolInv, ToolTypes
<1>11. Launching'
  BY <1>3, <1>9 DEF Launching, ToolInv, ToolTypes, HeldIsEnrolled, ToolIsVerified
<1> QED BY <1>3, <1>10, <1>11, ToolParts

(* A write reaches the held inode only as one that is remembered.          *)
LEMMA ToolOverwritten == ASSUME ToolInv, OverwriteTool PROVE ToolInv'
<1>1. PICK n \in Tools : \E i \in {tFs[n].file.path} \cup (IF n = 1 THEN {th.fd} ELSE {}) :
         /\ i # 0 /\ ToolChanged(IF n = 1 /\ i = th.fd THEN "held" ELSE "path")
         /\ \E g \in Written(tFs[n].file, i) : tFs' = [tFs EXCEPT ![n].file = g]
  BY DEF OverwriteTool
<1> DEFINE old == tFs[n].file
<1>2. PICK i \in {tFs[n].file.path} \cup (IF n = 1 THEN {th.fd} ELSE {}) :
         /\ i # 0 /\ ToolChanged(IF n = 1 /\ i = th.fd THEN "held" ELSE "path")
         /\ \E g \in Written(old, i) : tFs' = [tFs EXCEPT ![n].file = g]
  BY <1>1
<1>3. PICK g \in Written(old, i) : tFs' = [tFs EXCEPT ![n].file = g]
  BY <1>2
<1>4. /\ tFs \in [Tools -> [file : FileType, trusted : BOOLEAN]] /\ old \in FileType
      /\ th \in ToolHandles /\ th.fd \in Given /\ \A m \in Tools : tFs[m].file.path \in Given
  BY DEF ToolInv, ToolTypes
<1>5. /\ UNCHANGED <<reg, regLock, en, th, tRan, done>> /\ tLeft' = tLeft - 1 /\ tLeft' \in 0..MaxChanges
      /\ tSince' = tSince \cup {IF n = 1 /\ i = th.fd THEN "held" ELSE "path"} /\ tLeft \in 1..MaxChanges
  BY <1>2, FileAssumption DEF OverwriteTool, ToolChanged, ToolInv, ToolTypes
<1>6. i \in Inodes /\ Given \subseteq Given'
  BY <1>2, <1>4, <1>5, FileAssumption DEF ToolHandles, FileType, Given
<1> HIDE DEF old
<1>7. g \in FileType /\ g.path = old.path /\ \A j \in Inodes \ {i} : g.data[j] = old.data[j]
  BY <1>4, <1>6, FileChanges
<1>8. /\ tFs'[n].file = g /\ \A m \in Tools \ {n} : tFs'[m] = tFs[m]
      /\ tFs' \in [Tools -> [file : FileType, trusted : BOOLEAN]]
  <2> DEFINE t == [tFs[n] EXCEPT !.file = g]
  <2>1. t \in [file : FileType, trusted : BOOLEAN] /\ t.file = g
    BY <1>4, <1>7
  <2>2. tFs' = [tFs EXCEPT ![n] = t]
    BY <1>3
  <2> HIDE DEF t
  <2> QED BY <1>4, <2>1, <2>2
<1>9. \A m \in Tools : tFs'[m].file.path \in Given'
  <2>1. tFs'[n].file.path = tFs[n].file.path
    BY <1>7, <1>8 DEF old
  <2> QED BY <1>4, <1>6, <1>8, <2>1
<1>10. th.fd # 0 => tFs'[1].file.data[th.fd] = tFs[1].file.data[th.fd] \/ "held" \in tSince'
  <2> SUFFICES ASSUME th.fd # 0, ~(n = 1 /\ i = th.fd) PROVE tFs'[1].file.data[th.fd] = tFs[1].file.data[th.fd]
    BY <1>5
  <2>1. CASE n = 1
    <3>1. th.fd \in Inodes \ {i}
      BY <1>4, <2>1 DEF ToolHandles
    <3> QED BY <1>7, <1>8, <2>1, <3>1 DEF old
  <2>2. CASE n # 1
    BY <1>8, <2>2, ToolAssumption
  <2> QED BY <2>1, <2>2
<1>11. ToolTypes'
  BY <1>4, <1>5, <1>6, <1>8, <1>9 DEF ToolInv, ToolTypes
<1>12. Launching'
  BY <1>5, <1>10 DEF Launching, ToolInv, ToolTypes, HeldIsEnrolled, ToolIsVerified
<1> QED BY <1>5, <1>11, <1>12, ToolParts

(* Writing into the private copy of a tool shows as a disturbance of it.   *)
LEMMA CopyWritten == ASSUME ToolInv, WriteCopy PROVE ToolInv'
<1>2. th \in ToolHandles /\ tLeft \in 0..MaxChanges
  BY DEF ToolInv, ToolTypes
<1>3. /\ th' \in ToolHandles /\ UNCHANGED <<th.pc, th.entry, th.fd, th.sum>>
      /\ th'.same => th.same /\ th'.copy = th'.kept
  <2>1. PICK v \in Bytes, replace \in BOOLEAN :
          th' = [th EXCEPT !.copy = v, !.kept = IF replace \/ ~th.same THEN @ ELSE v, !.same = @ /\ ~replace]
    BY DEF WriteCopy
  <2> DEFINE k == IF replace \/ ~th.same THEN th.kept ELSE v
             w == th.same /\ ~replace
  <2>2. k \in Nat /\ v \in Nat /\ w \in BOOLEAN /\ (w => th.same /\ k = v)
    BY <1>2, FileAssumption DEF ToolHandles
  <2>3. th' = [th EXCEPT !.copy = v, !.kept = k, !.same = w]
    BY <2>1
  <2> HIDE DEF k, w
  <2> QED BY <1>2, <2>2, <2>3 DEF ToolHandles
<1>4. /\ UNCHANGED <<reg, regLock, en, tFs, tRan, done>> /\ tLeft' = tLeft - 1 /\ tLeft' \in 0..MaxChanges
      /\ tSince' = tSince \cup {"copy"}
  BY <1>2, FileAssumption DEF WriteCopy, ToolChanged
<1>5. Given \subseteq Given'
  BY <1>2, <1>4, FileAssumption DEF Given
<1>6. ToolTypes'
  BY <1>3, <1>4, <1>5 DEF ToolInv, ToolTypes
<1>7. Launching'
  BY <1>3, <1>4 DEF Launching, ToolInv, HeldIsEnrolled, ToolIsVerified
<1> QED BY <1>4, <1>6, <1>7, ToolParts

(* The processes that enroll, resolve, or meddle, in any order.            *)
LEMMA ToolKeeps == ToolInv /\ (ToolNext \/ UNCHANGED tVars) => ToolInv'
<1>1. ASSUME ToolInv, UNCHANGED tVars PROVE ToolInv'
  BY <1>1 DEF tVars, ToolInv, ToolTypes, OneWriter, EnrollmentsKept, HeldIsEnrolled, ToolIsVerified, Given
<1> QED BY <1>1, EnrollKeeps, HandleKeeps, ToolReplaced, ToolOverwritten, CopyWritten DEF ToolNext

-----------------------------------------------------------------------------
(* Attestations                                                            *)

Attestations ==
  [pc : {"idle", "stat", "version", "sandbox", "readOnly", "approval", "store"}, sha : Nat, ino : Nat,
   cfg : Nat, ran : SUBSET Nat, passed : BOOLEAN, held : BOOLEAN]
AttestRows ==
  [sha : Nat, ino : Nat, cfg : Nat, passed : BOOLEAN, made : Nat, ran : SUBSET Nat, held : BOOLEAN]

AttestTypes ==
  /\ aFs \in FileType /\ aFs.path # 0 /\ aCfg \in [hash : Nat, known : BOOLEAN] /\ aNow \in Nat
  /\ aLeft \in 0..MaxChanges /\ at \in Attestations /\ aRows \in Seq(AttestRows)
  /\ aUse \in 0..Len(aRows)
  /\ aWho \in [cfg : Nat, sha : Nat, ino : Nat]

(* The file nobody has changed.                                            *)
Pristine == NewFile(Min(Bytes))

(* Whose probes have passed has seen the sandbox hold and has run, and what *)
(* has run is what was hashed as long as nothing was changed.              *)
Probed ==
  /\ aLeft = MaxChanges => aFs = Pristine
  /\ at.pc \in {"idle", "stat", "version"} => ~at.passed
  /\ at.pc \in {"readOnly", "approval", "store"} /\ at.passed => at.held /\ at.ran # {}
  /\ at.pc # "idle" /\ aLeft = MaxChanges => at.sha = Content(Pristine) /\ at.ran \subseteq {at.sha}
  /\ \A i \in 1..Len(aRows) :
       aRows[i].passed => aRows[i].held /\ (aRows[i].ran = {aRows[i].sha} \/ aLeft < MaxChanges)

AttestInv == AttestTypes /\ Probed /\ AttestationEarned

(* The smallest of some numbers, and the largest of a bounded set of them. *)
LEMMA LeastNat == ASSUME NEW S \in SUBSET Nat, S # {} PROVE \E n \in S : \A m \in S : n =< m
<1>1. PICK n \in S : \A m \in S : ~(m < n)
  <2>1. IsWellFoundedOn(OpToRel(<, Nat), Nat)
    BY NatLessThanWellFounded
  <2>2. PICK n \in S : \A m \in S : ~(<<m, n>> \in OpToRel(<, Nat))
    BY <2>1, WFMin
  <2> QED BY <2>2 DEF OpToRel
<1>2. \A m \in S : n =< m
  <2> SUFFICES ASSUME NEW m \in S PROVE n =< m
    OBVIOUS
  <2>1. ~(m < n) /\ m \in Nat /\ n \in Nat
    BY <1>1
  <2> QED BY <2>1
<1> QED BY <1>2

(* The choice that defines the minimum is of an element.                   *)
LEMMA MinIs == ASSUME NEW S \in SUBSET Nat, S # {} PROVE Min(S) \in S
BY LeastNat DEF Min

(* And the one that defines the maximum, of the largest.                   *)
LEMMA MaxIs ==
  ASSUME NEW n \in Nat, NEW S \in SUBSET (1..n), S # {}
  PROVE  Max(S) \in S /\ \A x \in S : Max(S) >= x
<1> DEFINE T == {d \in Nat : n - d \in S}
<1>1. T \in SUBSET Nat /\ T # {}
  <2>1. PICK x \in S : TRUE
    OBVIOUS
  <2>2. n - x \in Nat /\ n - (n - x) = x
    BY <2>1
  <2> QED BY <2>1, <2>2
<1> HIDE DEF T
<1>2. PICK t \in T : \A u \in T : t =< u
  BY <1>1, LeastNat
<1>3. n - t \in S /\ t \in Nat
  BY <1>1, <1>2 DEF T
<1>4. ASSUME NEW y \in S PROVE n - t >= y
  <2>1. n - y \in Nat /\ n - (n - y) = y /\ y \in Nat
    OBVIOUS
  <2>2. n - y \in T
    BY <2>1 DEF T
  <2>3. t =< n - y
    BY <1>2, <2>2
  <2> QED BY <1>3, <2>1, <2>3
<1> QED BY <1>3, <1>4 DEF Max

(* At first nothing is attested.                                           *)
LEMMA AttestBegins == AttestInit => AttestInv
<1> SUFFICES ASSUME AttestInit PROVE AttestInv
  OBVIOUS
<1>1. aFs = Pristine /\ Pristine \in FileType /\ Pristine.path # 0
  <2>1. Min(Bytes) \in Bytes
    BY MinIs, FileAssumption
  <2> QED BY <2>1, FileBegins DEF AttestInit, Pristine
<1>2. at \in Attestations /\ at.pc = "idle" /\ ~at.passed
  BY DEF AttestInit, NoAttest, Attestations
<1>3. aRows \in Seq(AttestRows) /\ Len(aRows) = 0 /\ aUse = 0 /\ aWho \in [cfg : Nat, sha : Nat, ino : Nat]
  BY DEF AttestInit, NoOne
<1> QED BY <1>1, <1>2, <1>3, FileAssumption DEF AttestInit, AttestInv, AttestTypes, Probed, AttestationEarned

(* Time passes, the file or the configuration is changed.                  *)
LEMMA AttestMeanwhile == ASSUME AttestInv, ChangeBinary \/ EditConfig \/ Tick PROVE AttestInv'
<1>1. UNCHANGED <<at, aRows, aWho>> /\ aUse' = 0
  BY DEF ChangeBinary, EditConfig, Tick
<1>2. SUFFICES /\ aFs' \in FileType /\ aFs'.path # 0 /\ aCfg' \in [hash : Nat, known : BOOLEAN] /\ aNow' \in Nat
               /\ aLeft' \in 0..MaxChanges /\ (aLeft' = MaxChanges => aLeft = MaxChanges /\ aFs' = aFs)
  <2> SUFFICES ASSUME aFs' \in FileType, aFs'.path # 0, aCfg' \in [hash : Nat, known : BOOLEAN], aNow' \in Nat,
                      aLeft' \in 0..MaxChanges, aLeft' = MaxChanges => aLeft = MaxChanges /\ aFs' = aFs
               PROVE  AttestInv'
    OBVIOUS
  <2>1. AttestTypes' /\ AttestationEarned'
    BY <1>1 DEF AttestInv, AttestTypes, AttestationEarned
  <2>2. (aLeft' < MaxChanges) \/ aLeft' = MaxChanges
    BY FileAssumption
  <2>3. aLeft < MaxChanges => aLeft' < MaxChanges
    BY <2>2
  <2>4. Probed'
    BY <1>1, <2>3 DEF AttestInv, Probed
  <2> QED BY <2>1, <2>4 DEF AttestInv
<1>3. CASE ChangeBinary
  <2>1. MaxChanges - aLeft + 2 \in Inodes /\ aFs.path \in Inodes /\ aFs \in FileType /\ MaxChanges - aLeft + 2 # 0
    BY <1>3, FileBegins, FileAssumption DEF ChangeBinary, AttestInv, AttestTypes, FileType, Inodes
  <2>2. aFs' \in FileType /\ aFs'.path # 0
    <3> DEFINE i == MaxChanges - aLeft + 2
    <3>1. i \in Inodes /\ i # 0
      BY <2>1
    <3>2. aFs' \in Renamed(aFs, i) \cup Written(aFs, aFs.path)
      BY <1>3 DEF ChangeBinary
    <3> HIDE DEF i
    <3> QED BY <2>1, <3>1, <3>2, FileChanges DEF AttestInv, AttestTypes
  <2> QED BY <1>3, <2>2, FileAssumption DEF ChangeBinary, AttestInv, AttestTypes
<1>4. CASE EditConfig
  BY <1>4, FileAssumption DEF EditConfig, AttestInv, AttestTypes
<1>5. CASE Tick
  BY <1>5 DEF Tick, AttestInv, AttestTypes
<1> QED BY <1>3, <1>4, <1>5

(* A step of gov attest before it stores what it saw.                      *)
LEMMA AttestProbes ==
  ASSUME AttestInv, HashBackend \/ StatBackend \/ ProbeVersion \/ sandboxProbe \/ readOnlyProbe \/ approvalProbe
  PROVE  AttestInv'
<1>1. UNCHANGED <<aCap, aFs, aCfg, aNow, aLeft, aRows, aWho>> /\ aUse' = 0
  BY DEF HashBackend, StatBackend, ProbeVersion, sandboxProbe, readOnlyProbe, approvalProbe, laterProbe, Attests
<1>2. at \in Attestations /\ Content(aFs) \in Nat /\ aCfg.hash \in Nat /\ aFs.path \in Nat
  BY ContentType DEF AttestInv, AttestTypes, FileType, Inodes
<1> DEFINE Good(a) ==
      /\ a \in Attestations
      /\ a.pc \in {"idle", "stat", "version"} => ~a.passed
      /\ a.pc \in {"readOnly", "approval", "store"} /\ a.passed => a.held /\ a.ran # {}
      /\ a.pc # "idle" /\ aLeft = MaxChanges => a.sha = Content(Pristine) /\ a.ran \subseteq {a.sha}
<1>3. SUFFICES Good(at')
  BY <1>1 DEF AttestInv, AttestTypes, Probed, AttestationEarned
<1>4. Good(at) /\ (aLeft = MaxChanges => aFs = Pristine)
  BY <1>2 DEF AttestInv, Probed
<1>5. CASE HashBackend
  <2>1. NoAttest \in Attestations /\ NoAttest.ran = {} /\ ~NoAttest.passed
    BY DEF NoAttest, Attestations
  <2>2. at' = [NoAttest EXCEPT !.pc = "stat", !.sha = Content(aFs), !.cfg = aCfg.hash]
    BY <1>5 DEF HashBackend, Attests
  <2>3. at' \in Attestations /\ at'.pc = "stat" /\ at'.sha = Content(aFs) /\ at'.ran = {} /\ ~at'.passed
    BY <1>2, <2>1, <2>2 DEF Attestations
  <2> QED BY <1>4, <2>3
<1>6. CASE StatBackend
  <2>1. at.pc = "stat" /\ at' = [at EXCEPT !.pc = "version", !.ino = aFs.path]
    BY <1>6 DEF StatBackend, Attests
  <2>2. at' \in Attestations /\ at'.pc = "version" /\ UNCHANGED <<at.sha, at.ran, at.passed>>
    BY <1>2, <2>1 DEF Attestations
  <2> QED BY <1>4, <2>1, <2>2
<1>7. CASE ProbeVersion
  <2>1. at.pc = "version"
    BY <1>7 DEF ProbeVersion
  <2>2. CASE at' = [at EXCEPT !.pc = "sandbox", !.passed = TRUE]
    <3>1. at' \in Attestations /\ at'.pc = "sandbox" /\ UNCHANGED <<at.sha, at.ran>>
      BY <1>2, <2>2 DEF Attestations
    <3> QED BY <1>4, <2>1, <3>1
  <2>3. CASE at' = [at EXCEPT !.pc = "store"] /\ ~at.passed
    <3>1. at' \in Attestations /\ at'.pc = "store" /\ UNCHANGED <<at.sha, at.ran, at.passed>>
      BY <1>2, <2>3 DEF Attestations
    <3> QED BY <1>4, <2>1, <2>3, <3>1
  <2>4. ~at.passed
    BY <1>4, <2>1
  <2> QED BY <1>7, <2>2, <2>3, <2>4 DEF ProbeVersion, Attests
<1>8. CASE sandboxProbe
  <2>1. PICK o \in Seen, format \in BOOLEAN, net \in BOOLEAN :
          at' = [at EXCEPT !.pc = IF o = "silent" THEN "store" ELSE "readOnly",
                           !.ran = Ran(Content(aFs)), !.held = o = "behaved",
                           !.passed = o = "behaved" /\ format /\ (aCap.network => net)]
    BY <1>8 DEF sandboxProbe, Attests
  <2> DEFINE next == IF o = "silent" THEN "store" ELSE "readOnly"
             h == o = "behaved"
             p == o = "behaved" /\ format /\ (aCap.network => net)
             R == at.ran \cup {Content(aFs)}
  <2>2. at.pc = "sandbox" /\ next \in {"store", "readOnly"} /\ h \in BOOLEAN /\ p \in BOOLEAN /\ (p => h)
    BY <1>8 DEF sandboxProbe
  <2>3. at' = [at EXCEPT !.pc = next, !.ran = R, !.held = h, !.passed = p]
    BY <2>1 DEF Ran
  <2>4. R \in SUBSET Nat /\ R # {} /\ (aLeft = MaxChanges => R \subseteq {at.sha})
    BY <1>2, <1>4, <2>2 DEF Attestations
  <2> HIDE DEF next, h, p, R
  <2>5. at' \in Attestations /\ at'.pc = next /\ at'.ran = R /\ at'.held = h /\ at'.passed = p /\ at'.sha = at.sha
    BY <1>2, <2>2, <2>3, <2>4 DEF Attestations
  <2> QED BY <1>4, <2>2, <2>4, <2>5
<1>9. ASSUME NEW pc \in {"readOnly", "approval"}, NEW next \in {"approval", "store"}, NEW required,
             laterProbe(pc, next, required)
      PROVE  Good(at')
  <2> DEFINE R == at.ran \cup {Content(aFs)}
  <2>1. PICK p \in BOOLEAN : (p => at.passed) /\ at' = [at EXCEPT !.pc = next, !.ran = R, !.passed = p]
    <3>1. PICK o \in Seen, evidence \in BOOLEAN :
            at' = [at EXCEPT !.pc = next, !.ran = R, !.passed = @ /\ (required => o \in {"behaved", "silent"} /\ evidence)]
      BY <1>9 DEF laterProbe, Attests, Ran
    <3> DEFINE q == at.passed /\ (required => o \in {"behaved", "silent"} /\ evidence)
    <3>2. q \in BOOLEAN /\ (q => at.passed)
      BY <1>2 DEF Attestations
    <3>3. at' = [at EXCEPT !.pc = next, !.ran = R, !.passed = q]
      BY <3>1
    <3> QED BY <3>2, <3>3
  <2>2. at.pc = pc
    BY <1>9 DEF laterProbe
  <2>3. R \in SUBSET Nat /\ R # {} /\ (aLeft = MaxChanges => R \subseteq {at.sha})
    BY <1>2, <1>4, <2>2 DEF Attestations
  <2> HIDE DEF R
  <2>4. at' \in Attestations /\ at'.pc = next /\ at'.ran = R /\ at'.held = at.held /\ at'.passed = p /\ at'.sha = at.sha
    BY <1>2, <2>1, <2>3 DEF Attestations
  <2> QED BY <1>4, <2>1, <2>2, <2>3, <2>4
<1>10. CASE readOnlyProbe
  BY <1>10, <1>9 DEF readOnlyProbe
<1>11. CASE approvalProbe
  BY <1>11, <1>9 DEF approvalProbe
<1> QED BY <1>5, <1>6, <1>7, <1>8, <1>10, <1>11

(* The row that is stored says what was probed.                            *)
LEMMA AttestStores == ASSUME AttestInv, StoreRow PROVE AttestInv'
<1>1. UNCHANGED <<aCap, aFs, aCfg, aNow, aLeft, aWho>> /\ aUse' = 0 /\ at' = NoAttest /\ at.pc = "store"
  BY DEF StoreRow, Attests
<1>2. NoAttest \in Attestations /\ NoAttest.pc = "idle" /\ ~NoAttest.passed
  BY DEF NoAttest, Attestations
<1> DEFINE row == [sha |-> at.sha, ino |-> at.ino, cfg |-> at.cfg, passed |-> at.passed,
                   made |-> aNow, ran |-> at.ran, held |-> at.held]
           Fine(r) == r.passed => r.held /\ (r.ran = {r.sha} \/ aLeft < MaxChanges)
<1>3. aRows \in Seq(AttestRows) /\ \A i \in 1..Len(aRows) : Fine(aRows[i])
  BY DEF AttestInv, AttestTypes, Probed
<1>4. row \in AttestRows /\ Fine(row)
  <2>1. at \in Attestations /\ aNow \in Nat /\ aLeft \in 0..MaxChanges
    BY DEF AttestInv, AttestTypes
  <2>2. row \in AttestRows
    BY <2>1 DEF Attestations, AttestRows
  <2>3. at.passed => at.held /\ at.ran # {} /\ (aLeft = MaxChanges => at.ran \subseteq {at.sha})
    BY <1>1 DEF AttestInv, Probed
  <2>4. aLeft = MaxChanges \/ aLeft < MaxChanges
    BY <2>1, FileAssumption
  <2> QED BY <2>2, <2>3, <2>4
<1>5. aRows' \in Seq(AttestRows) /\ \A i \in 1..Len(aRows') : Fine(aRows'[i])
  <2> HIDE DEF row, Fine
  <2>1. aRows' = Append(aRows, row) \/ aRows' = aRows
    BY DEF StoreRow, row
  <2>2. CASE aRows' = Append(aRows, row)
    BY <1>3, <1>4, <2>2
  <2> QED BY <1>3, <2>1, <2>2
<1>6. AttestTypes' /\ AttestationEarned'
  BY <1>1, <1>2, <1>5 DEF AttestInv, AttestTypes, AttestationEarned
<1>7. Probed'
  BY <1>1, <1>2, <1>5 DEF AttestInv, Probed
<1> QED BY <1>6, <1>7 DEF AttestInv

(* A run holds the file it has resolved.                                   *)
LEMMA AttestResolves == ASSUME AttestInv, ResolveHandle PROVE AttestInv'
<1>1. UNCHANGED <<aCap, aFs, aCfg, aNow, aLeft, at, aRows>> /\ aUse' = 0
      /\ aWho' = [cfg |-> aCfg.hash, sha |-> Content(aFs), ino |-> aFs.path]
  BY DEF ResolveHandle
<1>2. Content(aFs) \in Nat /\ aCfg.hash \in Nat /\ aFs.path \in Nat
  BY ContentType DEF AttestInv, AttestTypes, FileType, Inodes
<1>3. AttestTypes' /\ Probed' /\ AttestationEarned'
  BY <1>1, <1>2 DEF AttestInv, AttestTypes, Probed, AttestationEarned
<1> QED BY <1>3 DEF AttestInv

(* The lookup honours the newest row of the subject, if it may.            *)
LEMMA AttestUsed == ASSUME AttestInv, VerifyHighRiskNative PROVE AttestInv'
<1> DEFINE i == Current(aWho.sha, aWho.ino)
           S == {j \in DOMAIN aRows : Subject(aRows[j], aWho.sha, aWho.ino, aWho.cfg)}
<1>1. UNCHANGED <<aCap, aFs, aCfg, aNow, aLeft, at, aRows, aWho>> /\ aUse' = IF Honoured(i) THEN i ELSE 0
  BY DEF VerifyHighRiskNative
<1>2. aRows \in Seq(AttestRows) /\ Len(aRows) \in Nat /\ DOMAIN aRows = 1..Len(aRows)
  BY DEF AttestInv, AttestTypes
<1>3. CASE aUse' = 0
  BY <1>1, <1>2, <1>3 DEF AttestInv, AttestTypes, Probed, AttestationEarned
<1>4. CASE aUse' # 0
  <2>1. Honoured(i) /\ aUse' = i /\ i # 0
    BY <1>1, <1>4
  <2>2. S # {} /\ i = Max(S)
    BY <2>1 DEF Current
  <2>3. i \in S /\ \A j \in S : i >= j
    <3>1. S \in SUBSET (1..Len(aRows))
      BY <1>2
    <3> HIDE DEF S, i
    <3> QED BY <1>2, <2>2, <3>1, MaxIs
  <2>4. i \in 1..Len(aRows) /\ Subject(aRows[i], aWho.sha, aWho.ino, aWho.cfg)
    BY <1>2, <2>3
  <2>5. \A j \in (i + 1)..Len(aRows) : ~Subject(aRows[j], aWho.sha, aWho.ino, aWho.cfg)
    <3> SUFFICES ASSUME NEW j \in (i + 1)..Len(aRows), Subject(aRows[j], aWho.sha, aWho.ino, aWho.cfg) PROVE FALSE
      OBVIOUS
    <3>1. j \in 1..Len(aRows) /\ ~(i >= j)
      <4> HIDE DEF i
      <4> QED BY <1>2, <2>4
    <3>2. j \in S
      BY <1>2, <3>1
    <3> QED BY <2>3, <3>1, <3>2
  <2> HIDE DEF i, S
  <2>6. /\ aCap.sandbox /\ aCfg.known /\ aNow < aRows[i].made + Ttl /\ aRows[i].passed
    BY <2>1 DEF Honoured, RequiredProbesPassed
  <2>7. aRows[i].held /\ (aRows[i].ran = {aRows[i].sha} \/ aLeft < MaxChanges)
    BY <2>4, <2>6 DEF AttestInv, Probed
  <2>8. AttestTypes' /\ Probed'
    BY <1>1, <1>2, <2>1, <2>4 DEF AttestInv, AttestTypes, Probed
  <2>9. AttestationEarned'
    BY <1>1, <2>1, <2>4, <2>5, <2>6, <2>7 DEF AttestationEarned
  <2> QED BY <2>8, <2>9 DEF AttestInv
<1> QED BY <1>3, <1>4

(* What the attestation part keeps at every step.                          *)
LEMMA AttestKeeps == AttestInv /\ (AttestNext \/ UNCHANGED aVars) => AttestInv'
<1>1. ASSUME AttestInv, UNCHANGED aVars PROVE AttestInv'
  BY <1>1 DEF aVars, AttestInv, AttestTypes, Probed, AttestationEarned
<1> QED BY <1>1, AttestMeanwhile, AttestProbes, AttestStores, AttestResolves, AttestUsed DEF AttestNext

-----------------------------------------------------------------------------
(* Recall                                                                  *)

Snapshots == [files : [Paths -> Values], cover : SUBSET Paths, listed : BOOLEAN, gone : BOOLEAN]
Commands ==
  [op : {"none", "create", "restore", "prune"},
   pc : {"idle", "mkdir", "walk", "prune", "plan", "copy", "delete", "done", "failed", "unconfirmed"},
   opt : SUBSET {"exact", "dry", "confirmed"}, id : Nat, at : Nat \ {0}, new : Nat, prev : Nat,
   del : SUBSET Paths, touched : SUBSET Paths, was : [Paths -> Values], edited : SUBSET Paths,
   skipped : SUBSET Paths]

RecallTypes ==
  /\ live \in [Paths -> Values] /\ conf \in SUBSET Paths /\ snaps \in Seq(Snapshots)
  /\ cmd \in [Cmds -> Commands]

(* The first command, r, when it restores: the roots l are what they were  *)
(* but for the files somebody edited or r has touched, and r touches none  *)
(* before its own snapshot among s is complete and listed; of a complete   *)
(* or a begun one, what was walked under its roots is what the files were. *)
Restoring(r, l, s) ==
  /\ \A f \in Paths \ (r.edited \cup r.touched) : l[f] = r.was[f]
  /\ r.touched # {} => r.new # 0 /\ s[r.new].listed
  /\ \A f \in Paths \ (r.edited \cup r.skipped) :
       r.new # 0 /\ f \in s[r.new].cover /\ (r.pc = "walk" => f < r.at) /\ (r.pc = "walk" \/ s[r.new].listed)
         => s[r.new].files[f] = r.was[f]
  /\ r.pc = "walk" => ~s[r.new].listed /\ \A f \in Paths : f >= r.at => s[r.new].files[f] = None
FirstHolds(r, l, s) ==
  /\ r.op \in {"none", "restore"} /\ (r.op = "none" <=> r.pc = "idle") /\ r.pc # "prune"
  /\ r.new \in 0..Len(s) /\ (r.pc = "walk" => r.new # 0)
  /\ r.pc \in {"plan", "mkdir", "walk", "copy", "delete"} => r.id \in 1..Len(s)
  /\ r.pc \in {"idle", "mkdir", "plan"} => r.new = 0
  /\ r.pc \in {"idle", "mkdir", "plan", "walk"} => r.touched = {}
  /\ r.pc \in {"copy", "delete"} => r.new # 0 /\ s[r.new].listed
  /\ r.op = "restore" => Restoring(r, l, s)

(* The other one only adds a snapshot of its own, or removes some.         *)
SecondHolds(r, s) ==
  /\ r.op # "restore" /\ r.touched = {} /\ r.pc \notin {"plan", "copy", "delete"}
  /\ r.new \in 0..Len(s) /\ (r.pc = "walk" => r.new # 0)
  /\ r.pc \in {"idle", "mkdir", "prune"} => r.new = 0

RecallInv ==
  /\ RecallTypes /\ FirstHolds(cmd[1], live, snaps) /\ SecondHolds(cmd[2], snaps)
  /\ cmd[1].new # 0 /\ cmd[2].new # 0 => cmd[1].new # cmd[2].new

(* What a restore has overwritten or deleted is in its own snapshot.       *)
LEMMA RecallFollows == RecallInv => RestoreUndoable
<1> SUFFICES ASSUME RecallInv, NEW c \in Cmds, NEW f \in cmd[c].touched
             PROVE  \/ f \in cmd[c].edited \cup cmd[c].skipped
                    \/ cmd[c].new # 0 /\ (snaps[cmd[c].new].gone \/ f \notin snaps[cmd[c].new].cover)
                    \/ \E i \in Listed : snaps[i].files[f] = cmd[c].was[f]
  BY DEF RestoreUndoable
<1>1. c = 1
  BY DEF RecallInv, SecondHolds, Cmds
<1>2. FirstHolds(cmd[1], live, snaps) /\ cmd[1] \in Commands /\ snaps \in Seq(Snapshots) /\ cmd[1].touched # {}
  BY <1>1 DEF RecallInv, RecallTypes, Cmds
<1>3. cmd[1].op = "restore"
  BY <1>2 DEF FirstHolds
<1>4. cmd[1].new \in 1..Len(snaps) /\ snaps[cmd[1].new].listed /\ cmd[1].pc # "walk" /\ Restoring(cmd[1], live, snaps)
  BY <1>2, <1>3 DEF FirstHolds, Restoring
<1>5. f \in Paths
  BY <1>1, <1>2 DEF Commands
<1>6. f \notin cmd[1].edited \cup cmd[1].skipped /\ f \in snaps[cmd[1].new].cover
        => snaps[cmd[1].new].files[f] = cmd[1].was[f]
  BY <1>2, <1>4, <1>5 DEF Restoring, FirstHolds
<1>7. snaps[cmd[1].new].gone \/ cmd[1].new \in Listed
  BY <1>2, <1>4 DEF Listed, Snapshots
<1> QED BY <1>1, <1>4, <1>6, <1>7

(* At first nothing was restored.                                          *)
LEMMA RecallBegins == RecallInit => RecallInv
<1> SUFFICES ASSUME RecallInit PROVE RecallInv
  OBVIOUS
<1>1. PICK w \in Worlds : live = w[1] /\ snaps = <<[files |-> w[2], cover |-> Paths, listed |-> TRUE, gone |-> FALSE]>>
  BY DEF RecallInit
<1>2. w[1] \in [Paths -> Values] /\ w[2] \in [Paths -> Values]
  BY RecallAssumption
<1>3. snaps \in Seq(Snapshots) /\ Len(snaps) \in Nat
  BY <1>1, <1>2 DEF Snapshots
<1>4. NoCmd \in Commands
  BY DEF NoCmd, Commands, Empty, Values
<1>5. cmd = [c \in Cmds |-> NoCmd]
  BY DEF RecallInit
<1>6. cmd \in [Cmds -> Commands] /\ cmd[1] = NoCmd /\ cmd[2] = NoCmd
  BY <1>4, <1>5 DEF Cmds
<1>7. conf \in SUBSET Paths
  BY DEF RecallInit
<1> QED BY <1>1, <1>2, <1>3, <1>6, <1>7 DEF NoCmd, RecallInv, RecallTypes, FirstHolds, SecondHolds

(* What a step of a command leaves of its record.                          *)
LEMMA CommandEffect ==
  ASSUME RecallInv, NEW c \in Cmds, NEW r \in Commands, Command(c, r)
  PROVE  /\ cmd' \in [Cmds -> Commands] /\ \A d \in Cmds \ {c} : cmd'[d] = cmd[d]
         /\ cmd'[c].op = r.op /\ cmd'[c].pc = r.pc /\ cmd'[c].new = r.new /\ cmd'[c].touched = r.touched
         /\ cmd'[c].was = r.was /\ cmd'[c].edited = r.edited /\ cmd'[c].skipped = r.skipped
         /\ r.pc \notin {"done", "failed", "unconfirmed"} => cmd'[c] = r
<1> DEFINE k == IF r.pc \in {"done", "failed", "unconfirmed"} THEN Over(r) ELSE r
<1>1. Over(r) = [op |-> r.op, pc |-> r.pc, opt |-> {}, id |-> 0, at |-> 1, new |-> r.new, prev |-> 0,
                 del |-> r.del, touched |-> r.touched, was |-> r.was, edited |-> r.edited, skipped |-> r.skipped]
  <2> DEFINE a == r.op
             b == r.pc
             x == r.new
             g == r.del
             t == r.touched
             w == r.was
             e == r.edited
             z == r.skipped
  <2>1. Over(r) = [NoCmd EXCEPT !.op = a, !.pc = b, !.new = x, !.del = g, !.touched = t,
                                !.was = w, !.edited = e, !.skipped = z]
    BY DEF Over
  <2> HIDE DEF a, b, x, g, t, w, e, z
  <2>2. Over(r) = [op |-> a, pc |-> b, opt |-> {}, id |-> 0, at |-> 1, new |-> x, prev |-> 0,
                   del |-> g, touched |-> t, was |-> w, edited |-> e, skipped |-> z]
    BY <2>1 DEF NoCmd
  <2> QED BY <2>2 DEF a, b, x, g, t, w, e, z
<1>2. Over(r) \in Commands
  BY <1>1 DEF Commands
<1>3. k \in Commands /\ k.op = r.op /\ k.pc = r.pc /\ k.new = r.new /\ k.touched = r.touched
      /\ k.was = r.was /\ k.edited = r.edited /\ k.skipped = r.skipped
      /\ (r.pc \notin {"done", "failed", "unconfirmed"} => k = r)
  <2>1. CASE r.pc \in {"done", "failed", "unconfirmed"}
    BY <1>1, <1>2, <2>1
  <2>2. CASE r.pc \notin {"done", "failed", "unconfirmed"}
    BY <2>2
  <2> QED BY <2>1, <2>2
<1>4. cmd' = [cmd EXCEPT ![c] = k] /\ cmd \in [Cmds -> Commands]
  BY DEF Command, RecallInv, RecallTypes
<1> HIDE DEF k
<1> QED BY <1>3, <1>4

(* Snapshots are added and never listed less; only the one numbered own is *)
(* written into.                                                           *)
Grown(own) ==
  /\ snaps' \in Seq(Snapshots) /\ Len(snaps') \in Nat /\ Len(snaps') >= Len(snaps)
  /\ \A i \in 1..Len(snaps) :
       /\ (snaps[i].listed => snaps'[i].listed) /\ snaps'[i].cover = snaps[i].cover
       /\ i # own => snaps'[i].files = snaps[i].files /\ snaps'[i].listed = snaps[i].listed

(* Snapshots nobody changes have grown by nothing.                         *)
LEMMA SameSnaps == ASSUME RecallInv, UNCHANGED snaps, NEW own PROVE Grown(own)
  BY DEF Grown, RecallInv, RecallTypes

(* A step of the first command keeps the invariant if its record holds of  *)
(* the roots and the snapshots it leaves.                                  *)
LEMMA FirstEffect ==
  ASSUME RecallInv, NEW r \in Commands, Command(1, r), live' \in [Paths -> Values], conf' = conf, Grown(cmd[1].new),
         FirstHolds(r, live', snaps'), r.new = cmd[1].new \/ r.new > Len(snaps)
  PROVE  RecallInv'
<1>1. cmd' \in [Cmds -> Commands] /\ cmd'[2] = cmd[2]
      /\ cmd'[1].op = r.op /\ cmd'[1].pc = r.pc /\ cmd'[1].new = r.new /\ cmd'[1].touched = r.touched
      /\ cmd'[1].was = r.was /\ cmd'[1].edited = r.edited /\ cmd'[1].skipped = r.skipped
      /\ (r.pc \notin {"done", "failed", "unconfirmed"} => cmd'[1] = r)
  BY CommandEffect DEF Cmds
<1>2. FirstHolds(cmd'[1], live', snaps')
  <2>1. CASE r.pc \in {"done", "failed", "unconfirmed"}
    BY <1>1, <2>1 DEF FirstHolds, Restoring
  <2>2. CASE r.pc \notin {"done", "failed", "unconfirmed"}
    BY <1>1, <2>2
  <2> QED BY <2>1, <2>2
<1>3. SecondHolds(cmd[2], snaps') /\ (cmd'[1].new # 0 /\ cmd[2].new # 0 => cmd'[1].new # cmd[2].new)
  <2>1. SecondHolds(cmd[2], snaps) /\ Len(snaps) \in Nat /\ (cmd[1].new # 0 /\ cmd[2].new # 0 => cmd[1].new # cmd[2].new)
    BY DEF RecallInv, RecallTypes
  <2>2. cmd[2].new \in 0..Len(snaps)
    BY <2>1 DEF SecondHolds
  <2> QED BY <1>1, <2>1, <2>2 DEF SecondHolds, Grown
<1> QED BY <1>1, <1>2, <1>3 DEF RecallInv, RecallTypes, Grown

(* So does a step of the other one that leaves the roots alone.            *)
LEMMA SecondEffect ==
  ASSUME RecallInv, NEW r \in Commands, Command(2, r), UNCHANGED <<live, conf>>, Grown(cmd[2].new),
         SecondHolds(r, snaps'), r.new = cmd[2].new \/ r.new > Len(snaps)
  PROVE  RecallInv'
<1>1. cmd' \in [Cmds -> Commands] /\ cmd'[1] = cmd[1]
      /\ cmd'[2].op = r.op /\ cmd'[2].pc = r.pc /\ cmd'[2].new = r.new /\ cmd'[2].touched = r.touched
  BY CommandEffect DEF Cmds
<1>2. SecondHolds(cmd'[2], snaps')
  BY <1>1 DEF SecondHolds
<1>3. /\ FirstHolds(cmd[1], live, snaps) /\ Len(snaps) \in Nat /\ cmd[1] \in Commands
      /\ (cmd[1].new # 0 /\ cmd[2].new # 0 => cmd[1].new # cmd[2].new)
      /\ cmd[1].new \in 0..Len(snaps)
  BY DEF RecallInv, RecallTypes, FirstHolds, Cmds
<1>4. cmd[1].new # 0 => /\ cmd[1].new \in 1..Len(snaps)
                        /\ cmd[1].new # cmd[2].new
  BY <1>3, <1>1 DEF SecondHolds, RecallInv
<1>5. cmd[1].new # 0 => snaps'[cmd[1].new].files = snaps[cmd[1].new].files
                        /\ snaps'[cmd[1].new].cover = snaps[cmd[1].new].cover
                        /\ snaps'[cmd[1].new].listed = snaps[cmd[1].new].listed
  BY <1>4 DEF Grown
<1>6. FirstHolds(cmd[1], live, snaps')
  <2>1. cmd[1].op = "restore" => Restoring(cmd[1], live, snaps')
    BY <1>3, <1>5 DEF FirstHolds, Restoring
  <2> QED BY <1>3, <1>5, <2>1 DEF FirstHolds, Grown
<1>7. cmd[1].new # 0 /\ cmd'[2].new # 0 => cmd[1].new # cmd'[2].new
  BY <1>1, <1>3, <1>4
<1> QED BY <1>1, <1>2, <1>6, <1>7 DEF RecallInv, RecallTypes, Grown

(* What is known of a command before its step.                             *)
LEMMA CommandNow ==
  ASSUME RecallInv, NEW c \in Cmds
  PROVE  /\ c = 1 \/ c = 2
         /\ cmd[c] \in Commands /\ live \in [Paths -> Values] /\ snaps \in Seq(Snapshots) /\ Len(snaps) \in Nat
         /\ DOMAIN snaps = 1..Len(snaps) /\ cmd[c].new \in 0..Len(snaps)
         /\ cmd[c].pc = "walk" => cmd[c].new \in 1..Len(snaps)
         /\ c = 1 => FirstHolds(cmd[1], live, snaps)
         /\ c = 2 => SecondHolds(cmd[2], snaps)
<1>1. c = 1 \/ c = 2
  BY DEF Cmds
<1>2. cmd[c] \in Commands /\ live \in [Paths -> Values] /\ snaps \in Seq(Snapshots) /\ Len(snaps) \in Nat
      /\ DOMAIN snaps = 1..Len(snaps)
  BY DEF RecallInv, RecallTypes
<1>3. (c = 1 => FirstHolds(cmd[1], live, snaps)) /\ (c = 2 => SecondHolds(cmd[2], snaps))
  BY DEF RecallInv
<1> QED BY <1>1, <1>2, <1>3 DEF FirstHolds, SecondHolds

(* The user edits a file; a restore that runs remembers it.                *)
LEMMA EditKeeps == ASSUME RecallInv, Edit PROVE RecallInv'
<1>1. PICK f \in Paths, v \in Texts \cup {None} :
         /\ v # live[f] /\ live' = [live EXCEPT ![f] = v]
         /\ cmd' = [c \in Cmds |-> IF cmd[c].op = "restore" THEN [cmd[c] EXCEPT !.edited = @ \cup {f}] ELSE cmd[c]]
  BY DEF Edit
<1>2. /\ snaps' = snaps /\ conf' = conf /\ conf \in SUBSET Paths /\ 1 \in Cmds /\ 2 \in Cmds /\ live \in [Paths -> Values]
      /\ cmd[1] \in Commands /\ cmd[2] \in Commands /\ FirstHolds(cmd[1], live, snaps) /\ SecondHolds(cmd[2], snaps)
  BY DEF Edit, RecallInv, RecallTypes, Cmds
<1>3. live' \in [Paths -> Values] /\ \A g \in Paths \ {f} : live'[g] = live[g]
  BY <1>1, <1>2 DEF Values
<1>4. cmd'[2] = cmd[2]
  BY <1>1, <1>2 DEF SecondHolds
<1>5. CASE cmd[1].op = "restore"
  <2> DEFINE k == [cmd[1] EXCEPT !.edited = @ \cup {f}]
  <2>1. cmd'[1] = k
    BY <1>1, <1>2, <1>5
  <2>2. k \in Commands /\ k.edited = cmd[1].edited \cup {f} /\ k.op = cmd[1].op /\ k.pc = cmd[1].pc /\ k.at = cmd[1].at
        /\ k.new = cmd[1].new /\ k.id = cmd[1].id /\ k.touched = cmd[1].touched /\ k.was = cmd[1].was
        /\ k.skipped = cmd[1].skipped
    BY <1>2 DEF Commands
  <2> HIDE DEF k
  <2>3. Restoring(cmd[1], live, snaps)
    BY <1>2, <1>5 DEF FirstHolds
  <2>4. Restoring(k, live', snaps)
    BY <1>3, <2>2, <2>3 DEF Restoring
  <2>5. FirstHolds(k, live', snaps)
    BY <1>2, <2>2, <2>4 DEF FirstHolds
  <2>6. cmd' \in [Cmds -> Commands]
    <3>1. cmd' = [c \in Cmds |-> cmd'[c]] /\ \A c \in Cmds : cmd'[c] \in Commands
      <4>1. DOMAIN cmd' = Cmds /\ cmd' = [c \in DOMAIN cmd' |-> cmd'[c]]
        BY <1>1
      <4>2. \A c \in Cmds : c = 1 \/ c = 2
        BY DEF Cmds
      <4> QED BY <1>2, <1>4, <2>1, <2>2, <4>1, <4>2
    <3> QED BY <3>1
  <2> QED BY <1>2, <1>3, <1>4, <2>1, <2>2, <2>5, <2>6 DEF RecallInv, RecallTypes
<1>6. CASE cmd[1].op # "restore"
  <2>1. cmd'[1] = cmd[1]
    BY <1>1, <1>2, <1>6
  <2>2. cmd' = cmd
    <3>1. \A c \in Cmds : c = 1 \/ c = 2
      BY DEF Cmds
    <3>2. DOMAIN cmd' = Cmds /\ cmd' = [c \in DOMAIN cmd' |-> cmd'[c]]
      BY <1>1
    <3>3. cmd \in [Cmds -> Commands]
      BY DEF RecallInv, RecallTypes
    <3> QED BY <1>4, <2>1, <3>1, <3>2, <3>3
  <2>3. FirstHolds(cmd[1], live', snaps)
    BY <1>2, <1>6 DEF FirstHolds
  <2> QED BY <1>2, <1>3, <2>2, <2>3 DEF RecallInv, RecallTypes
<1> QED BY <1>5, <1>6

(* Other roots are configured.                                             *)
LEMMA ReconfigureKeeps == ASSUME RecallInv, Reconfigure PROVE RecallInv'
<1>1. UNCHANGED <<live, snaps, cmd>> /\ conf' \in SUBSET Paths
  BY DEF Reconfigure
<1> QED BY <1>1 DEF RecallInv, RecallTypes

(* A command begins: a restore remembers what the roots are.               *)
LEMMA BeginKeeps == ASSUME RecallInv, NEW c \in Cmds, Begin(c) PROVE RecallInv'
<1>0. NoCmd \in Commands
  BY DEF NoCmd, Commands, Empty, Values
<1>1. c \in {1, 2} /\ UNCHANGED <<live, conf, snaps>> /\ cmd[c].pc = "idle" /\ NoCmd \in Commands
  BY <1>0 DEF Begin, Cmds
<1>2. Grown(cmd[c].new) /\ live \in [Paths -> Values] /\ Len(snaps) \in Nat /\ DOMAIN snaps = 1..Len(snaps)
  BY <1>1, SameSnaps, CommandNow
<1>3. ASSUME c = 1, NEW i \in Listed, NEW opt \in SUBSET {"exact", "dry", "confirmed"},
             Command(c, [NoCmd EXCEPT !.op = "restore", !.pc = "plan", !.opt = opt, !.id = i, !.was = live])
      PROVE  RecallInv'
  <2> DEFINE r == [NoCmd EXCEPT !.op = "restore", !.pc = "plan", !.opt = opt, !.id = i, !.was = live]
  <2>1. r = [op |-> "restore", pc |-> "plan", opt |-> opt, id |-> i, at |-> 1, new |-> 0, prev |-> 0, del |-> {},
             touched |-> {}, was |-> live, edited |-> {}, skipped |-> {}]
    <3> DEFINE w == live
               o == "restore"
               q == "plan"
    <3>1. r = [NoCmd EXCEPT !.op = o, !.pc = q, !.opt = opt, !.id = i, !.was = w]
      OBVIOUS
    <3> HIDE DEF r, w, o, q
    <3>2. r = [op |-> o, pc |-> q, opt |-> opt, id |-> i, at |-> 1, new |-> 0, prev |-> 0, del |-> {},
               touched |-> {}, was |-> w, edited |-> {}, skipped |-> {}]
      BY <3>1 DEF NoCmd
    <3> QED BY <3>2 DEF w, o, q
  <2>2. Command(1, r) /\ i \in 1..Len(snaps)
    BY <1>2, <1>3 DEF Listed
  <2> HIDE DEF r
  <2>3. r \in Commands
    BY <1>2, <2>1, <2>2 DEF Commands
  <2>4. FirstHolds(r, live', snaps')
    BY <1>1, <1>2, <2>1, <2>2 DEF FirstHolds, Restoring
  <2>5. cmd[1].new = 0
    BY <1>1, <1>3, CommandNow DEF FirstHolds
  <2> QED BY <1>1, <1>2, <1>3, <2>1, <2>2, <2>3, <2>4, <2>5, FirstEffect
<1>4. ASSUME c = 2, NEW o \in {"create", "prune"}, NEW q \in {"mkdir", "prune"}, Command(c, [NoCmd EXCEPT !.op = o, !.pc = q])
      PROVE  RecallInv'
  <2> DEFINE r == [NoCmd EXCEPT !.op = o, !.pc = q]
  <2>1. r \in Commands /\ r.op = o /\ r.pc = q /\ r.new = 0 /\ r.touched = {}
    BY <1>1 DEF NoCmd, Commands
  <2>2. Command(2, r)
    BY <1>4
  <2> HIDE DEF r
  <2>3. SecondHolds(r, snaps')
    BY <1>1, <1>2, <2>1 DEF SecondHolds
  <2>4. cmd[2].new = 0
    BY <1>1, <1>4, CommandNow DEF SecondHolds
  <2> QED BY <1>1, <1>2, <1>4, <2>1, <2>2, <2>3, <2>4, SecondEffect
<1> QED BY <1>1, <1>3, <1>4 DEF Begin

(* A new, empty and unlisted snapshot.                                     *)
LEMMA MakeDirKeeps == ASSUME RecallInv, NEW c \in Cmds, MakeDir(c) PROVE RecallInv'
<1> DEFINE n == Len(snaps) + 1
           p == IF Listed = {} THEN 0 ELSE Max(Listed)
           r == [cmd[c] EXCEPT !.pc = "walk", !.at = 1, !.new = n, !.prev = p]
           new == [files |-> Empty, cover |-> conf, listed |-> FALSE, gone |-> FALSE]
<1>1. cmd[c].pc = "mkdir" /\ snaps' = Append(snaps, new) /\ Command(c, r) /\ UNCHANGED <<live, conf>>
  BY DEF MakeDir
<1>2. /\ c = 1 \/ c = 2
      /\ cmd[c] \in Commands /\ snaps \in Seq(Snapshots) /\ Len(snaps) \in Nat /\ live \in [Paths -> Values]
      /\ (c = 1 => FirstHolds(cmd[1], live, snaps)) /\ (c = 2 => SecondHolds(cmd[2], snaps))
      /\ DOMAIN snaps = 1..Len(snaps)
  BY CommandNow
<1>3. cmd[c].new = 0 /\ cmd[c].touched = {}
  BY <1>1, <1>2 DEF FirstHolds, SecondHolds
<1>4. p \in Nat
  <2>1. Listed \in SUBSET (1..Len(snaps))
    BY <1>2 DEF Listed
  <2>2. Listed # {} => Max(Listed) \in Listed
    BY <1>2, <2>1, MaxIs
  <2>3. CASE Listed = {}
    BY <2>3
  <2>4. CASE Listed # {}
    <3>1. p = Max(Listed) /\ Max(Listed) \in 1..Len(snaps)
      BY <2>1, <2>2, <2>4
    <3> HIDE DEF p
    <3> QED BY <1>2, <3>1
  <2> QED BY <2>3, <2>4
<1>5. new \in Snapshots
  BY DEF Snapshots, Empty, Values, RecallInv, RecallTypes
<1> HIDE DEF p
<1>6. /\ snaps' \in Seq(Snapshots) /\ Len(snaps') = n /\ n \in Nat /\ n > Len(snaps) /\ snaps'[n] = new
      /\ \A i \in 1..Len(snaps) : snaps'[i] = snaps[i]
  <2> HIDE DEF new
  <2> QED BY <1>1, <1>2, <1>5
<1>7. Grown(cmd[c].new)
  <2> HIDE DEF new, n
  <2> QED BY <1>2, <1>6 DEF Grown
<1> HIDE DEF n
<1>8. r \in Commands /\ r.op = cmd[c].op /\ r.pc = "walk" /\ r.at = 1 /\ r.new = n /\ r.touched = cmd[c].touched
      /\ r.was = cmd[c].was /\ r.edited = cmd[c].edited /\ r.skipped = cmd[c].skipped /\ r.id = cmd[c].id
  <2> DEFINE one == 1
             w == "walk"
             q == [cmd[c] EXCEPT !.pc = w, !.at = one, !.new = n, !.prev = p]
  <2>1. one \in Nat \ {0} /\ q = r /\ w \in {"walk"}
    OBVIOUS
  <2> HIDE DEF one, w, r
  <2>2. q \in Commands /\ q.op = cmd[c].op /\ q.pc = w /\ q.at = one /\ q.new = n /\ q.touched = cmd[c].touched
        /\ q.was = cmd[c].was /\ q.edited = cmd[c].edited /\ q.skipped = cmd[c].skipped /\ q.id = cmd[c].id
    BY <1>2, <1>4, <1>6, <2>1 DEF Commands
  <2> HIDE DEF q
  <2> QED BY <2>1, <2>2 DEF one, w
<1> HIDE DEF r
<1>9. CASE c = 1
  <2>1. cmd[1].op = "restore" /\ Restoring(cmd[1], live, snaps) /\ cmd[1].id \in 1..Len(snaps)
    BY <1>1, <1>2, <1>9 DEF FirstHolds
  <2>2. \A f \in Paths : snaps'[n].files[f] = None
    BY <1>6 DEF Empty
  <2>3. \A f \in Paths : ~(f < 1)
    BY RecallAssumption DEF Paths
  <2>4. Restoring(r, live', snaps')
    BY <1>1, <1>3, <1>6, <1>8, <1>9, <2>1, <2>2, <2>3 DEF Restoring
  <2>5. FirstHolds(r, live', snaps')
    BY <1>2, <1>3, <1>6, <1>8, <1>9, <2>1, <2>4 DEF FirstHolds
  <2> QED BY <1>1, <1>2, <1>6, <1>7, <1>8, <1>9, <2>5, FirstEffect
<1>10. CASE c = 2
  <2>1. SecondHolds(r, snaps')
    BY <1>2, <1>3, <1>6, <1>8, <1>10 DEF SecondHolds
  <2> QED BY <1>1, <1>2, <1>6, <1>7, <1>8, <1>10, <2>1, SecondEffect
<1> QED BY <1>2, <1>9, <1>10

(* A value stored in a snapshot changes this file of it only.              *)
LEMMA StoreEffect ==
  ASSUME RecallInv, NEW c \in Cmds, cmd[c].pc = "walk", NEW f \in Paths, NEW v \in Values, Store(c, f, v)
  PROVE  /\ Grown(cmd[c].new) /\ Len(snaps') = Len(snaps) /\ snaps'[cmd[c].new].listed = snaps[cmd[c].new].listed
         /\ snaps'[cmd[c].new].cover = snaps[cmd[c].new].cover
         /\ snaps'[cmd[c].new].files[f] = v
         /\ \A g \in Paths \ {f} : snaps'[cmd[c].new].files[g] = snaps[cmd[c].new].files[g]
<1> DEFINE n == cmd[c].new
           fs == [snaps[n].files EXCEPT ![f] = v]
           sn == [snaps[n] EXCEPT !.files = fs]
<1>1. n \in 1..Len(snaps) /\ snaps \in Seq(Snapshots) /\ Len(snaps) \in Nat
  BY CommandNow
<1>2. snaps[n] \in Snapshots
  BY <1>1
<1>3. fs \in [Paths -> Values] /\ fs[f] = v /\ \A g \in Paths \ {f} : fs[g] = snaps[n].files[g]
  BY <1>2 DEF Snapshots
<1>4. snaps' = [snaps EXCEPT ![n] = sn]
  BY <1>1, <1>2 DEF Store
<1> HIDE DEF fs
<1>5. sn \in Snapshots /\ sn.files = fs /\ sn.listed = snaps[n].listed /\ sn.cover = snaps[n].cover
  BY <1>2, <1>3 DEF Snapshots
<1> HIDE DEF sn, n
<1>6. snaps' \in Seq(Snapshots) /\ Len(snaps') = Len(snaps) /\ snaps'[n] = sn
      /\ \A i \in 1..Len(snaps) : i # n => snaps'[i] = snaps[i]
  BY <1>1, <1>4, <1>5
<1> USE DEF n
<1> QED BY <1>1, <1>3, <1>5, <1>6 DEF Grown

(* The next file of the roots is copied, or skipped.                       *)
LEMMA SnapshotFileKeeps == ASSUME RecallInv, NEW c \in Cmds, snapshotFile(c) PROVE RecallInv'
<1> DEFINE f == cmd[c].at
           n == cmd[c].new
<1>1. cmd[c].pc = "walk" /\ f \in Paths /\ UNCHANGED <<live, conf>>
  BY DEF snapshotFile
<1>2. /\ c = 1 \/ c = 2
      /\ cmd[c] \in Commands /\ snaps \in Seq(Snapshots) /\ Len(snaps) \in Nat /\ live \in [Paths -> Values]
      /\ (c = 1 => FirstHolds(cmd[1], live, snaps)) /\ (c = 2 => SecondHolds(cmd[2], snaps))
      /\ n \in 1..Len(snaps)
  BY <1>1, CommandNow
<1> DEFINE Filled == /\ Grown(n) /\ Len(snaps') = Len(snaps) /\ snaps'[n].listed = snaps[n].listed
                     /\ snaps'[n].cover = snaps[n].cover
                     /\ \A g \in Paths \ {f} : snaps'[n].files[g] = snaps[n].files[g]
<1>3. UNCHANGED snaps => Filled
  BY SameSnaps
<1>4. ASSUME NEW v \in Values, Store(c, f, v) PROVE Filled /\ snaps'[n].files[f] = v
  BY <1>1, <1>4, StoreEffect
<1>5. ASSUME NEW r \in Commands, Command(c, r), Filled,
             r.op = cmd[c].op, r.pc = "walk", r.at = f + 1, r.new = n, r.touched = cmd[c].touched,
             r.was = cmd[c].was, r.edited = cmd[c].edited, r.id = cmd[c].id, cmd[c].skipped \subseteq r.skipped,
             c = 1 => f \in r.skipped \/ f \notin snaps[n].cover \/ snaps'[n].files[f] = live[f]
      PROVE  RecallInv'
  <2>1. CASE c = 1
    <3>1. cmd[1].op = "restore" /\ Restoring(cmd[1], live, snaps) /\ cmd[1].id \in 1..Len(snaps) /\ cmd[1].touched = {}
      BY <1>1, <1>2, <2>1 DEF FirstHolds
    <3>2. \A g \in Paths : g \in Nat
      BY RecallAssumption DEF Paths
    <3>3. ASSUME NEW g \in Paths \ (r.edited \cup r.skipped), g \in snaps'[n].cover, g < f + 1 PROVE snaps'[n].files[g] = r.was[g]
      <4>1. g \notin cmd[1].edited \cup cmd[1].skipped /\ live[g] = cmd[1].was[g]
        BY <1>5, <2>1, <3>1 DEF Restoring
      <4>2. CASE g = f
        BY <1>5, <2>1, <3>3, <4>1, <4>2
      <4>3. CASE g # f
        <5>1. g < f
          BY <1>1, <3>2, <3>3, <4>3
        <5>2. snaps[n].files[g] = cmd[1].was[g]
          BY <1>1, <1>2, <1>5, <2>1, <3>1, <3>3, <4>1, <5>1 DEF Restoring
        <5> QED BY <1>5, <2>1, <4>3, <5>2
      <4> QED BY <4>2, <4>3
    <3>4. ASSUME NEW g \in Paths, g >= f + 1 PROVE snaps'[n].files[g] = None
      <4>1. g # f /\ g >= f
        BY <1>1, <3>2, <3>4
      <4> QED BY <1>1, <1>5, <2>1, <3>1, <4>1 DEF Restoring
    <3>5. Restoring(r, live', snaps')
      <4>1. /\ r.touched = {} /\ r.pc = "walk" /\ r.new = n /\ r.at = f + 1 /\ ~snaps'[n].listed
            /\ \A g \in Paths \ (r.edited \cup r.touched) : live'[g] = r.was[g]
        BY <1>1, <1>5, <2>1, <3>1 DEF Restoring
      <4> HIDE DEF f, n
      <4> QED BY ONLY <3>3, <3>4, <4>1 DEF Restoring
    <3>6. FirstHolds(r, live', snaps')
      BY <1>2, <1>5, <2>1, <3>1, <3>5 DEF FirstHolds
    <3> QED BY <1>1, <1>2, <1>5, <2>1, <3>6, FirstEffect
  <2>2. CASE c = 2
    <3>1. SecondHolds(r, snaps')
      BY <1>2, <1>5, <2>2 DEF SecondHolds
    <3> QED BY <1>1, <1>5, <2>2, <3>1, SecondEffect
  <2> QED BY <1>2, <2>1, <2>2
<1>6. f \in Nat
  BY <1>1, RecallAssumption DEF Paths
<1>7. ASSUME Command(c, Step1(c)), Filled, c = 1 => f \notin snaps[n].cover \/ snaps'[n].files[f] = live[f]
      PROVE  RecallInv'
  <2> DEFINE q == f + 1
             r == [cmd[c] EXCEPT !.at = q]
  <2>1. Step1(c) = r /\ q \in Nat \ {0}
    BY <1>2, <1>6 DEF Step1
  <2> HIDE DEF q
  <2>2. /\ r \in Commands /\ r.op = cmd[c].op /\ r.pc = "walk" /\ r.at = q /\ r.new = n /\ r.touched = cmd[c].touched
        /\ r.was = cmd[c].was /\ r.edited = cmd[c].edited /\ r.id = cmd[c].id /\ r.skipped = cmd[c].skipped
    BY <1>1, <1>2, <2>1 DEF Commands
  <2>3. Command(c, r)
    BY <1>7, <2>1
  <2>4. q = f + 1
    BY DEF q
  <2> HIDE DEF r, Filled, n, f
  <2> QED BY <1>5, <1>7, <2>2, <2>3, <2>4
<1>8. ASSUME Command(c, Skip(c, f)), Filled PROVE RecallInv'
  <2> DEFINE z == IF cmd[c].op = "restore" THEN cmd[c].skipped \cup {f} ELSE cmd[c].skipped
             q == f + 1
             r == [cmd[c] EXCEPT !.at = q, !.skipped = z]
  <2>1. Skip(c, f) = r
    BY <1>2 DEF Skip, Step1, Commands
  <2>2. z \in SUBSET Paths /\ cmd[c].skipped \subseteq z /\ (c = 1 => f \in z)
    <3>1. cmd[c].skipped \in SUBSET Paths
      BY <1>2 DEF Commands
    <3>2. c = 1 => cmd[c].op = "restore"
      BY <1>1, <1>2 DEF FirstHolds
    <3> QED BY <1>1, <3>1, <3>2
  <2>3. q \in Nat \ {0}
    BY <1>6
  <2> HIDE DEF z, q
  <2>4. /\ r \in Commands /\ r.op = cmd[c].op /\ r.pc = "walk" /\ r.at = q /\ r.new = n /\ r.touched = cmd[c].touched
        /\ r.was = cmd[c].was /\ r.edited = cmd[c].edited /\ r.id = cmd[c].id /\ r.skipped = z
    BY <1>1, <1>2, <2>2, <2>3 DEF Commands
  <2>5. Command(c, r)
    BY <1>8, <2>1
  <2> HIDE DEF r, Filled, n, f
  <2>6. q = f + 1
    BY DEF q
  <2> QED BY <1>5, <1>8, <2>2, <2>4, <2>5, <2>6
<1>9. None \in Values /\ Partial \in Values /\ live[f] \in Values
  BY <1>1, <1>2 DEF Values
<1>10. CASE live[f] = None /\ Command(c, Step1(c)) /\ UNCHANGED snaps
  <2>1. c = 1 => snaps[n].files[f] = None
    BY <1>1, <1>2, <1>6 DEF FirstHolds, Restoring
  <2> QED BY <1>3, <1>7, <1>10, <2>1
<1>10a. CASE f \notin snaps[n].cover /\ Command(c, Step1(c)) /\ UNCHANGED snaps
  BY <1>3, <1>7, <1>10a
<1>11. CASE live[f] = Odd /\ Command(c, Skip(c, f)) /\ UNCHANGED snaps
  BY <1>3, <1>8, <1>11
<1>12. CASE live[f] \notin {None, Odd} /\ Store(c, f, live[f]) /\ Command(c, Step1(c))
  BY <1>4, <1>7, <1>9, <1>12
<1>13. CASE \E v \in {None, Partial} : Store(c, f, v) /\ Command(c, Skip(c, f))
  BY <1>4, <1>8, <1>9, <1>13
<1> QED BY <1>10, <1>10a, <1>11, <1>12, <1>13 DEF snapshotFile

(* The manifest, or a failure before it.                                   *)
LEMMA WriteManifestKeeps == ASSUME RecallInv, NEW c \in Cmds, WriteManifest(c) PROVE RecallInv'
<1> DEFINE n == cmd[c].new
<1>1. cmd[c].pc = "walk" /\ UNCHANGED <<live, conf>> /\ cmd[c].at > FileCount
  BY DEF WriteManifest
<1>2. /\ c = 1 \/ c = 2
      /\ cmd[c] \in Commands /\ snaps \in Seq(Snapshots) /\ Len(snaps) \in Nat /\ live \in [Paths -> Values]
      /\ (c = 1 => FirstHolds(cmd[1], live, snaps)) /\ (c = 2 => SecondHolds(cmd[2], snaps))
      /\ n \in 1..Len(snaps)
  BY <1>1, CommandNow
<1>3. c = 1 => cmd[1].op = "restore"
  BY <1>1, <1>2 DEF FirstHolds
<1>4. CASE Command(c, [cmd[c] EXCEPT !.pc = "failed"]) /\ UNCHANGED snaps
  <2> DEFINE r == [cmd[c] EXCEPT !.pc = "failed"]
  <2>1. /\ r \in Commands /\ r.op = cmd[c].op /\ r.pc = "failed" /\ r.new = n /\ r.touched = cmd[c].touched
        /\ r.was = cmd[c].was /\ r.edited = cmd[c].edited /\ r.skipped = cmd[c].skipped
    BY <1>2 DEF Commands
  <2>2. Command(c, r) /\ Grown(n)
    BY <1>4, SameSnaps
  <2> HIDE DEF r
  <2>3. CASE c = 1
    <3>1. FirstHolds(r, live', snaps')
      BY <1>1, <1>2, <1>3, <1>4, <2>1, <2>3 DEF FirstHolds, Restoring
    <3> QED BY <1>1, <1>2, <2>1, <2>2, <2>3, <3>1, FirstEffect
  <2>4. CASE c = 2
    <3>1. SecondHolds(r, snaps')
      BY <1>2, <1>4, <2>1, <2>4 DEF SecondHolds
    <3> QED BY <1>1, <2>1, <2>2, <2>4, <3>1, SecondEffect
  <2> QED BY <1>2, <2>3, <2>4
<1>5. CASE /\ snaps' = [snaps EXCEPT ![n].listed = TRUE]
           /\ Command(c, [cmd[c] EXCEPT !.pc = IF @ = "walk" /\ cmd[c].op = "restore" THEN "copy" ELSE "done", !.at = 1])
  <2> DEFINE sn == [snaps[n] EXCEPT !.listed = TRUE]
             q == IF cmd[c].pc = "walk" /\ cmd[c].op = "restore" THEN "copy" ELSE "done"
             r == [cmd[c] EXCEPT !.pc = q, !.at = 1]
  <2>1. sn \in Snapshots /\ sn.listed /\ sn.files = snaps[n].files /\ sn.cover = snaps[n].cover /\ snaps' = [snaps EXCEPT ![n] = sn]
    <3>1. snaps[n] \in Snapshots
      BY <1>2
    <3>2. sn \in Snapshots /\ sn.listed /\ sn.files = snaps[n].files /\ sn.cover = snaps[n].cover
      BY <3>1 DEF Snapshots
    <3>3. snaps' = [snaps EXCEPT ![n] = sn]
      BY <1>5
    <3> QED BY <3>2, <3>3
  <2>2. Command(c, r)
    BY <1>5
  <2>3. q \in {"copy", "done"} /\ (c = 1 => q = "copy") /\ (c = 2 => q = "done")
    BY <1>1, <1>2, <1>3 DEF SecondHolds
  <2> HIDE DEF sn, q
  <2>4. /\ r \in Commands /\ r.op = cmd[c].op /\ r.pc = q /\ r.new = n /\ r.touched = cmd[c].touched /\ r.id = cmd[c].id
        /\ r.was = cmd[c].was /\ r.edited = cmd[c].edited /\ r.skipped = cmd[c].skipped
    BY <1>2, <2>3 DEF Commands
  <2> HIDE DEF r
  <2>5. snaps' \in Seq(Snapshots) /\ Len(snaps') = Len(snaps) /\ snaps'[n] = sn
        /\ \A i \in 1..Len(snaps) : i # n => snaps'[i] = snaps[i]
    <3> HIDE DEF n
    <3> QED BY <1>2, <2>1
  <2>6. Grown(n)
    BY <1>2, <2>1, <2>5 DEF Grown
  <2>7. CASE c = 1
    <3>1. Restoring(cmd[1], live, snaps) /\ cmd[1].id \in 1..Len(snaps) /\ cmd[1].touched = {}
      BY <1>1, <1>2, <1>3, <2>7 DEF FirstHolds
    <3>2. \A f \in Paths : f < cmd[1].at
      <4>1. cmd[1].at \in Nat
        BY <1>2, <2>7 DEF Commands
      <4> QED BY <1>1, <2>7, <4>1, RecallAssumption DEF Paths
    <3>3. Restoring(r, live', snaps')
      BY <1>1, <1>2, <2>1, <2>3, <2>4, <2>5, <2>7, <3>1, <3>2 DEF Restoring
    <3>4. FirstHolds(r, live', snaps')
      BY <1>2, <1>3, <2>1, <2>3, <2>4, <2>5, <2>7, <3>1, <3>3 DEF FirstHolds
    <3> QED BY <1>1, <1>2, <2>2, <2>4, <2>6, <2>7, <3>4, FirstEffect
  <2>8. CASE c = 2
    <3>1. SecondHolds(r, snaps')
      BY <1>2, <2>3, <2>4, <2>5, <2>8 DEF SecondHolds
    <3> QED BY <1>1, <2>2, <2>4, <2>6, <2>8, <3>1, SecondEffect
  <2> QED BY <1>2, <2>7, <2>8
<1> QED BY <1>4, <1>5 DEF WriteManifest

(* Snapshots are removed.                                                  *)
LEMMA PruneKeeps == ASSUME RecallInv, NEW c \in Cmds, Prune(c) PROVE RecallInv'
<1>1. /\ c = 1 \/ c = 2
      /\ cmd[c] \in Commands /\ snaps \in Seq(Snapshots) /\ Len(snaps) \in Nat /\ DOMAIN snaps = 1..Len(snaps)
      /\ (c = 1 => FirstHolds(cmd[1], live, snaps)) /\ (c = 2 => SecondHolds(cmd[2], snaps))
  BY CommandNow
<1> DEFINE r == [cmd[c] EXCEPT !.pc = "done"]
<1>2. cmd[c].pc = "prune" /\ Command(c, r) /\ UNCHANGED <<live, conf>>
  BY DEF Prune
<1>3. c = 2
  BY <1>1, <1>2 DEF FirstHolds
<1>4. r \in Commands /\ r.op = cmd[2].op /\ r.pc = "done" /\ r.new = cmd[2].new /\ r.touched = cmd[2].touched
  BY <1>1, <1>3 DEF Commands
<1> HIDE DEF r
<1>5. PICK S : snaps' = [i \in DOMAIN snaps |-> [snaps[i] EXCEPT !.gone = @ \/ i \in S]]
  BY DEF Prune
<1>6. \A i \in 1..Len(snaps) : snaps'[i] \in Snapshots /\ snaps'[i].files = snaps[i].files
                              /\ snaps'[i].listed = snaps[i].listed /\ snaps'[i].cover = snaps[i].cover
  <2> SUFFICES ASSUME NEW i \in 1..Len(snaps)
               PROVE  /\ snaps'[i] \in Snapshots /\ snaps'[i].files = snaps[i].files
                      /\ snaps'[i].listed = snaps[i].listed /\ snaps'[i].cover = snaps[i].cover
    OBVIOUS
  <2> DEFINE g == snaps[i].gone \/ i \in S
  <2>1. snaps'[i] = [snaps[i] EXCEPT !.gone = g] /\ snaps[i] \in Snapshots
    BY <1>1, <1>5
  <2>2. g \in BOOLEAN
    BY DEF g
  <2> HIDE DEF g
  <2> QED BY <2>1, <2>2 DEF Snapshots
<1>7. snaps' \in Seq(Snapshots) /\ Len(snaps') = Len(snaps)
  BY <1>1, <1>5, <1>6
<1>8. Grown(cmd[2].new)
  BY <1>1, <1>6, <1>7 DEF Grown
<1>9. SecondHolds(r, snaps')
  BY <1>1, <1>3, <1>4, <1>7 DEF SecondHolds
<1> QED BY <1>2, <1>3, <1>4, <1>8, <1>9, SecondEffect

(* A killed command leaves what it did.                                    *)
LEMMA KilledKeeps == ASSUME RecallInv, NEW c \in Cmds, Killed(c) PROVE RecallInv'
<1> DEFINE r == [cmd[c] EXCEPT !.pc = "failed"]
<1>1. /\ c = 1 \/ c = 2
      /\ cmd[c] \in Commands /\ snaps \in Seq(Snapshots) /\ Len(snaps) \in Nat /\ live \in [Paths -> Values]
      /\ (c = 1 => FirstHolds(cmd[1], live, snaps)) /\ (c = 2 => SecondHolds(cmd[2], snaps))
  BY CommandNow
<1>2. UNCHANGED <<live, conf, snaps>> /\ Command(c, r) /\ cmd[c].pc \notin {"idle", "done", "failed", "unconfirmed"}
      /\ Grown(cmd[c].new)
  BY SameSnaps DEF Killed
<1>3. /\ r \in Commands /\ r.op = cmd[c].op /\ r.pc = "failed" /\ r.new = cmd[c].new /\ r.touched = cmd[c].touched
      /\ r.was = cmd[c].was /\ r.edited = cmd[c].edited /\ r.skipped = cmd[c].skipped
  BY <1>1 DEF Commands
<1> HIDE DEF r
<1>4. CASE c = 1
  <2>1. FirstHolds(r, live', snaps')
    BY <1>1, <1>2, <1>3, <1>4 DEF FirstHolds, Restoring
  <2> QED BY <1>1, <1>2, <1>3, <1>4, <2>1, FirstEffect
<1>5. CASE c = 2
  <2>1. SecondHolds(r, snaps')
    BY <1>1, <1>2, <1>3, <1>5 DEF SecondHolds
  <2> QED BY <1>2, <1>3, <1>5, <2>1, SecondEffect
<1> QED BY <1>1, <1>4, <1>5

(* The restoring steps: a plan, files copied back, files deleted.          *)
LEMMA RestoreKeeps ==
  ASSUME RecallInv, NEW c \in Cmds, PlanRestore(c) \/ CopyBack(c) \/ CopyDone(c) \/ Delete(c)
  PROVE  RecallInv'
<1> DEFINE u == cmd[1]
           f == u.at
<1>1. c = 1
  BY CommandNow DEF SecondHolds, PlanRestore, CopyBack, CopyDone, Delete
<1>2. /\ u \in Commands /\ snaps \in Seq(Snapshots) /\ Len(snaps) \in Nat /\ live \in [Paths -> Values]
      /\ FirstHolds(u, live, snaps) /\ u.new \in 0..Len(snaps)
  BY <1>1, CommandNow
<1>3. snaps' = snaps /\ conf' = conf /\ Grown(u.new) /\ u.pc \in {"plan", "copy", "delete"}
  BY <1>1, SameSnaps DEF PlanRestore, CopyBack, CopyDone, Delete
<1>4. u.op = "restore" /\ Restoring(u, live, snaps) /\ u.id \in 1..Len(snaps)
      /\ (u.pc = "plan" => u.touched = {} /\ u.new = 0)
      /\ (u.pc # "plan" => u.new # 0 /\ snaps[u.new].listed)
  BY <1>2, <1>3 DEF FirstHolds
<1>5. ASSUME NEW r \in Commands, Command(1, r), live' \in [Paths -> Values], NEW T \in SUBSET Paths,
             r.op = u.op, r.new = u.new, r.was = u.was, r.edited = u.edited, r.skipped = u.skipped,
             r.pc \in {"mkdir", "delete", "done", "failed", "unconfirmed", "copy"}, r.touched = u.touched \cup T,
             r.pc \in {"mkdir", "copy", "delete"} => r.id = u.id,
             r.pc = "mkdir" => u.pc = "plan", r.pc \in {"copy", "delete"} => u.pc # "plan",
             u.pc = "plan" => T = {}, \A g \in Paths \ T : live'[g] = live[g]
      PROVE  RecallInv'
  <2>1. Restoring(r, live', snaps)
    <3>1. \A g \in Paths \ (r.edited \cup r.touched) : live'[g] = r.was[g]
      BY <1>4, <1>5 DEF Restoring
    <3>2. r.touched # {} => r.new # 0 /\ snaps[r.new].listed
      BY <1>4, <1>5
    <3>3. \A g \in Paths \ (r.edited \cup r.skipped) :
            r.new # 0 /\ g \in snaps[r.new].cover /\ snaps[r.new].listed => snaps[r.new].files[g] = r.was[g]
      BY <1>3, <1>4, <1>5 DEF Restoring
    <3> QED BY <1>5, <3>1, <3>2, <3>3 DEF Restoring
  <2>2. FirstHolds(r, live', snaps)
    BY <1>2, <1>4, <1>5, <2>1 DEF FirstHolds
  <2> HIDE DEF u
  <2>3. r.new = cmd[1].new
    BY <1>5 DEF u
  <2> QED BY <1>3, <1>5, <2>2, <2>3, FirstEffect DEF u
<1>6. ASSUME NEW r \in Commands, Command(1, r), live' = live,
             r.op = u.op, r.new = u.new, r.was = u.was, r.edited = u.edited, r.skipped = u.skipped,
             r.pc \in {"mkdir", "delete", "done", "failed", "unconfirmed", "copy"}, r.touched = u.touched,
             r.pc \in {"mkdir", "copy", "delete"} => r.id = u.id,
             r.pc = "mkdir" => u.pc = "plan", r.pc \in {"copy", "delete"} => u.pc # "plan"
      PROVE  RecallInv'
  <2> DEFINE T == {}
  <2>1. T \in SUBSET Paths /\ r.touched = u.touched \cup T /\ T = {}
    BY <1>6
  <2> HIDE DEF T, u
  <2> QED BY <1>2, <1>5, <1>6, <2>1
<1>6a. ASSUME NEW q \in {"done", "failed"}, Command(1, [u EXCEPT !.pc = q]), live' = live PROVE RecallInv'
  <2> DEFINE r == [u EXCEPT !.pc = q]
  <2>1. /\ r \in Commands /\ r.op = u.op /\ r.pc = q /\ r.new = u.new /\ r.was = u.was /\ r.edited = u.edited
        /\ r.skipped = u.skipped /\ r.touched = u.touched
    BY <1>2 DEF Commands
  <2>2. Command(1, r)
    BY <1>6a
  <2> HIDE DEF r, u
  <2> QED BY <1>6, <1>6a, <2>1, <2>2
<1>7. CASE PlanRestore(c)
  <2> DEFINE del == IF "exact" \in u.opt THEN Additions(u.id) \ Protected ELSE {}
             q == IF "dry" \in u.opt THEN "done" ELSE IF del # {} /\ "confirmed" \notin u.opt THEN "unconfirmed" ELSE "mkdir"
             r == [u EXCEPT !.del = del, !.opt = {}, !.pc = q]
  <2>1. u.pc = "plan" /\ live' = live /\ Command(1, r)
    BY <1>1, <1>7 DEF PlanRestore
  <2>2. del \in SUBSET Paths /\ q \in {"done", "unconfirmed", "mkdir"}
    <3>1. snaps[u.id] \in Snapshots
      BY <1>2, <1>4
    <3>2. Additions(u.id) \in SUBSET Paths
      BY <3>1 DEF Additions, Snapshots
    <3> QED BY <3>2
  <2> HIDE DEF del, q
  <2>3. /\ r \in Commands /\ r.op = u.op /\ r.pc = q /\ r.new = u.new /\ r.was = u.was /\ r.edited = u.edited
        /\ r.skipped = u.skipped /\ r.touched = u.touched /\ r.id = u.id
    BY <1>2, <2>2 DEF Commands
  <2> HIDE DEF r, u
  <2> QED BY <1>6, <2>1, <2>2, <2>3
<1>8. ASSUME Command(1, Step1(1)), live' = live, u.pc \in {"copy", "delete"} PROVE RecallInv'
  <2> DEFINE q == u.at + 1
             r == [u EXCEPT !.at = q]
  <2>1. Step1(1) = r /\ q \in Nat \ {0}
    BY <1>2 DEF Step1, Commands
  <2> HIDE DEF q
  <2>2. /\ r \in Commands /\ r.op = u.op /\ r.pc = u.pc /\ r.new = u.new /\ r.was = u.was /\ r.edited = u.edited
        /\ r.skipped = u.skipped /\ r.touched = u.touched /\ r.id = u.id
    BY <1>2, <2>1 DEF Commands
  <2>3. Command(1, r)
    BY <1>8, <2>1
  <2> HIDE DEF r, u
  <2> QED BY <1>6, <1>8, <2>2, <2>3
<1>9. ASSUME NEW g \in Paths, NEW v \in Values, Touch(1, g, v), u.pc \in {"copy", "delete"} PROVE RecallInv'
  <2> DEFINE q == u.at + 1
             t == u.touched \cup {g}
             r == [u EXCEPT !.at = q, !.touched = t]
  <2>1. [Step1(1) EXCEPT !.touched = @ \cup {g}] = r /\ q \in Nat \ {0} /\ t \in SUBSET Paths
    BY <1>2, <1>9 DEF Step1, Commands
  <2>2. Command(1, r) /\ live' \in [Paths -> Values] /\ \A h \in Paths \ {g} : live'[h] = live[h]
    BY <1>2, <1>9, <2>1 DEF Touch
  <2> HIDE DEF q, t
  <2>3. /\ r \in Commands /\ r.op = u.op /\ r.pc = u.pc /\ r.new = u.new /\ r.was = u.was /\ r.edited = u.edited
        /\ r.skipped = u.skipped /\ r.touched = t /\ r.id = u.id
    BY <1>2, <2>1 DEF Commands
  <2>4. t = u.touched \cup {g} /\ {g} \in SUBSET Paths
    BY <1>9 DEF t
  <2> HIDE DEF r, u, f
  <2> QED BY <1>5, <1>9, <2>2, <2>3, <2>4
<1>10. CASE CopyBack(c)
  <2> DEFINE v == snaps[u.id].files[f]
  <2>1. u.pc = "copy" /\ f \in Paths
    BY <1>1, <1>10 DEF CopyBack
  <2>2. v \in Values
    <3>1. snaps[u.id] \in Snapshots
      BY <1>2, <1>4
    <3> QED BY <2>1, <3>1 DEF Snapshots
  <2>3. CASE Command(1, [u EXCEPT !.pc = "failed"]) /\ live' = live
    BY <1>6a, <2>3
  <2>4. CASE Command(1, Step1(1)) /\ live' = live
    BY <1>8, <2>1, <2>4
  <2>4a. LedTo(f) \in SUBSET Paths
    BY <2>1 DEF LedTo
  <2>5. ASSUME NEW g \in LedTo(f), Touch(1, g, v) PROVE RecallInv'
    BY <1>9, <2>1, <2>2, <2>4a, <2>5
  <2>6. ASSUME NEW g \in LedTo(f), live' = [live EXCEPT ![g] = Partial],
               Command(1, [u EXCEPT !.pc = "failed", !.touched = @ \cup {g}])
        PROVE  RecallInv'
    <3> DEFINE t == u.touched \cup {g}
               r == [u EXCEPT !.pc = "failed", !.touched = t]
    <3>1. t \in SUBSET Paths /\ Command(1, r)
      BY <1>2, <2>4a, <2>6 DEF Commands
    <3>2. live' \in [Paths -> Values] /\ \A h \in Paths \ {g} : live'[h] = live[h]
      BY <1>2, <2>4a, <2>6 DEF Values
    <3> HIDE DEF t
    <3>3. /\ r \in Commands /\ r.op = u.op /\ r.pc = "failed" /\ r.new = u.new /\ r.was = u.was /\ r.edited = u.edited
          /\ r.skipped = u.skipped /\ r.touched = t
      BY <1>2, <3>1 DEF Commands
    <3>4. t = u.touched \cup {g} /\ {g} \in SUBSET Paths
      BY <2>4a DEF t
    <3> HIDE DEF r, u, f
    <3> QED BY <1>5, <2>1, <3>1, <3>2, <3>3, <3>4
  <2> QED BY <1>1, <1>10, <2>3, <2>4, <2>5, <2>6 DEF CopyBack
<1>11. CASE CopyDone(c)
  <2> DEFINE r == [u EXCEPT !.pc = "delete", !.at = 1]
  <2>1. u.pc = "copy" /\ live' = live /\ Command(1, r)
    BY <1>1, <1>11 DEF CopyDone
  <2>2. /\ r \in Commands /\ r.op = u.op /\ r.pc = "delete" /\ r.new = u.new /\ r.was = u.was /\ r.edited = u.edited
        /\ r.skipped = u.skipped /\ r.touched = u.touched /\ r.id = u.id
    <3> DEFINE one == 1
               q == [u EXCEPT !.pc = "delete", !.at = one]
    <3>1. one \in Nat \ {0} /\ q = r
      OBVIOUS
    <3> HIDE DEF one, r
    <3> QED BY <1>2, <3>1 DEF Commands
  <2> HIDE DEF r, u
  <2> QED BY <1>6, <2>1, <2>2
<1>12. CASE Delete(c)
  <2>1. u.pc = "delete"
    BY <1>1, <1>12 DEF Delete
  <2>2. CASE f > FileCount
    <3>1. Command(1, [u EXCEPT !.pc = "done"]) /\ live' = live
      BY <1>1, <1>2, <1>12, <2>2, RecallAssumption DEF Delete, Paths, Commands
    <3> QED BY <1>6a, <3>1
  <2>3. CASE f \in Paths \ u.del
    <3>1. Command(1, Step1(1)) /\ live' = live
      BY <1>1, <1>12, <2>3, RecallAssumption DEF Delete, Paths
    <3> QED BY <1>8, <2>1, <3>1
  <2>4. CASE ~(f > FileCount) /\ f \notin Paths \ u.del
    <3>1. Touch(1, f, None) \/ (Command(1, [u EXCEPT !.pc = "failed"]) /\ live' = live)
      BY <1>1, <1>12, <2>4 DEF Delete
    <3>0. None \in Values
      BY DEF Values
    <3>2. f \in Paths
      BY <1>2, <2>4, RecallAssumption DEF Commands, Paths
    <3> QED BY <1>6a, <1>9, <2>1, <3>0, <3>1, <3>2
  <2> QED BY <2>2, <2>3, <2>4
<1> QED BY <1>7, <1>10, <1>11, <1>12

(* What the recall part keeps at every step.                               *)
LEMMA RecallKeeps == RecallInv /\ (RecallNext \/ UNCHANGED sVars) => RecallInv'
<1>1. ASSUME RecallInv, UNCHANGED sVars PROVE RecallInv'
  BY <1>1 DEF sVars, RecallInv, RecallTypes
<1> QED BY <1>1, EditKeeps, ReconfigureKeeps, BeginKeeps, MakeDirKeeps, SnapshotFileKeeps, WriteManifestKeeps, PruneKeeps, KilledKeeps,
           RestoreKeeps DEF RecallNext, RecallStep

-----------------------------------------------------------------------------
(* Artifacts                                                               *)

Producers ==
  [pc : {"run", "assay", "payload", "pre", "evaluate", "post", "blocks", "final", "end"}, assay : Assays,
   sha : Nat, payload : Nat, verdict : {"none", "ERROR", "PASS", "FAIL"},
   status : {"none", "QUARANTINED", "APPROVED"}]
Consumers ==
  [pc : {"identify", "refused", "stage", "check", "launch", "checkAfter", "validate", "checkEnd", "approve", "approved"},
   src : ProducerRuns \cup {0}, sha : Nat, data : Nat, got : Nat, plain : BOOLEAN]

ArtifactTypes ==
  /\ pr \in [ProducerRuns -> Producers] /\ cs \in Consumers
  /\ work \in [ProducerRuns -> Payloads \cup {0}] /\ store \in [ProducerRuns -> Payloads \cup {0}]
  /\ tampers \in [left : 0..MaxTampers, hit : [ProducerRuns -> Nat]]
  /\ staged \in [val : Nat, late : BOOLEAN]

(* A producing run v whose stored file is f and was changed n times while  *)
(* the run was open.  It is at its end when it has a status, and then its  *)
(* records are of something.  A payload that is not the recorded one was   *)
(* read from a changed file, changed back before the evaluation.           *)
RunSound(v, f, n) ==
  /\ v.status # "none" <=> v.pc = "end"
  /\ v.status = "APPROVED" \/ v.pc \notin {"run", "end"} => v.sha # 0
  /\ v.pc = "payload" => f = v.sha \/ n >= 1
  /\ v.pc = "pre" /\ v.payload # v.sha => n >= 1 /\ (f = v.sha => n >= 2)
  /\ v.pc \in {"evaluate", "post"} => v.payload = v.sha \/ n >= 2
  /\ v.pc = "post" /\ v.verdict = "PASS" => v.payload \in Passing
  /\ v.pc = "blocks" /\ v.verdict = "PASS" => v.sha \in Passing \/ n >= 2
  /\ v.pc = "final" /\ v.assay = "blocking" => v.sha \in Passing \/ n >= 2
  /\ v.status = "APPROVED" /\ v.assay = "blocking" => v.sha \in Passing \/ n >= 2
  /\ v.pc = "assay" => f = v.sha \/ n >= 1

RunsSound == \A r \in ProducerRuns : RunSound(pr[r], store[r], tampers.hit[r])

(* What the consuming run holds is what an approved run recorded, and each *)
(* change of the plainly staged copy has cost somebody a change.           *)
Consumed ==
  /\ cs.pc \in {"identify", "stage", "check", "launch"} => cs.got = 0
  /\ cs.got # 0 \/ cs.pc \notin {"identify", "refused"} =>
       cs.src \in ProducerRuns /\ pr[cs.src].status = "APPROVED" /\ cs.data = pr[cs.src].sha /\ cs.sha = cs.data /\ cs.sha # 0
  /\ cs.pc \in {"check", "launch", "checkAfter"} =>
       /\ ~cs.plain => staged.val = 0
       /\ cs.plain => staged.val # 0
       /\ cs.plain /\ staged.val # cs.sha => tampers.left <= MaxTampers - 1
  /\ cs.pc \in {"checkAfter", "validate", "checkEnd", "approve", "approved"} => cs.got # 0
  /\ cs.got # 0 => cs.got = cs.sha \/ cs.plain
  /\ cs.got # 0 /\ cs.pc = "checkAfter" /\ cs.got # cs.sha =>
       tampers.left <= MaxTampers - 1 /\ (staged.val = cs.sha => tampers.left <= MaxTampers - 2)
  /\ cs.got # cs.sha /\ cs.pc \in {"validate", "checkEnd", "approve", "approved"} => tampers.left <= MaxTampers - 2

ArtifactInv == ArtifactTypes /\ RunsSound /\ Consumed

(* What a file holds is a number, 0 when it is not there.                  *)
LEMMA ContentsAreNumbers == \A v \in Payloads \cup {0} : v \in Nat
  BY ArtifactAssumption

(* The properties are parts of the invariant.                              *)
LEMMA ArtifactsFollow == ArtifactInv => ConsumedIsProduced /\ AssayGates
  BY DEF ArtifactInv, RunsSound, RunSound, Consumed, ConsumedIsProduced, AssayGates

(* Nothing is produced or consumed at first.                               *)
LEMMA ArtifactBegins == ArtifactInit => ArtifactInv
<1> SUFFICES ASSUME ArtifactInit PROVE ArtifactInv
  OBVIOUS
<1>1. \A r \in ProducerRuns : pr[r] \in Producers /\ pr[r].pc = "run" /\ pr[r].status = "none"
  <2> SUFFICES ASSUME NEW r \in ProducerRuns
               PROVE  pr[r] \in Producers /\ pr[r].pc = "run" /\ pr[r].status = "none"
    OBVIOUS
  <2>1. pr[r] \in {[NoRun EXCEPT !.assay = a] : a \in Assays}
    BY DEF ArtifactInit
  <2>2. PICK a \in Assays : pr[r] = [NoRun EXCEPT !.assay = a]
    BY <2>1
  <2> QED BY <2>2 DEF NoRun, Producers
<1>2. pr \in [ProducerRuns -> Producers]
  <2>1. DOMAIN pr = ProducerRuns /\ pr = [r \in DOMAIN pr |-> pr[r]]
    BY DEF ArtifactInit
  <2> QED BY <1>1, <2>1
<1>3. cs \in Consumers /\ cs.pc = "identify" /\ cs.got = 0
  <2>1. PICK b \in BOOLEAN : cs = [NoConsumer EXCEPT !.plain = b]
    BY DEF ArtifactInit
  <2> QED BY <2>1 DEF NoConsumer, Consumers
<1> QED BY <1>1, <1>2, <1>3, ArtifactAssumption
        DEF ArtifactInit, ArtifactInv, ArtifactTypes, RunsSound, RunSound, Consumed

(* A producing run that is not at its end goes on.                         *)
LEMMA ProducerEffect ==
  ASSUME ArtifactInv, NEW r \in ProducerRuns, NEW v \in Producers, Run(r, v), pr[r].status = "none",
         store' \in [ProducerRuns -> Payloads \cup {0}], \A x \in ProducerRuns \ {r} : store'[x] = store[x],
         RunSound(v, store'[r], tampers.hit[r])
  PROVE  ArtifactInv'
<1>1. pr' = [pr EXCEPT ![r] = v] /\ UNCHANGED <<work, cs, tampers, staged>> /\ pr \in [ProducerRuns -> Producers]
  BY DEF Run, ArtifactInv, ArtifactTypes
<1>2. pr'[r] = v /\ \A x \in ProducerRuns \ {r} : pr'[x] = pr[x]
  BY <1>1
<1>3. ArtifactTypes'
  BY <1>1 DEF ArtifactInv, ArtifactTypes
<1>4. RunsSound'
  <2> SUFFICES ASSUME NEW x \in ProducerRuns PROVE RunSound(pr'[x], store'[x], tampers'.hit[x])
    BY DEF RunsSound
  <2>1. CASE x = r
    BY <1>1, <1>2, <2>1
  <2>2. CASE x # r
    BY <1>1, <1>2, <2>2 DEF ArtifactInv, RunsSound
  <2> QED BY <2>1, <2>2
<1>5. Consumed'
  <2>1. \A x \in ProducerRuns : pr[x].status = "APPROVED" => pr'[x] = pr[x]
    BY <1>2
  <2> QED BY <1>1, <2>1 DEF ArtifactInv, Consumed
<1> QED BY <1>3, <1>4, <1>5 DEF ArtifactInv

(* A quarantined run is at its end.                                        *)
LEMMA QuarantineIsEnd ==
  ASSUME ArtifactInv, NEW r \in ProducerRuns, NEW f, NEW n
  PROVE  Quarantined(r) \in Producers /\ RunSound(Quarantined(r), f, n)
<1>1. pr[r] \in Producers
  BY DEF ArtifactInv, ArtifactTypes
<1>2. /\ Quarantined(r) \in Producers
      /\ Quarantined(r).pc = "end" /\ Quarantined(r).status = "QUARANTINED"
  BY <1>1 DEF Quarantined, Producers
<1> QED BY <1>2 DEF RunSound

(* Every step of a producing run keeps it sound.                           *)
LEMMA ProducerKeeps == ASSUME ArtifactInv, NEW r \in ProducerRuns, ProducerStep(r) PROVE ArtifactInv'
<1> DEFINE u == pr[r]
           n == tampers.hit[r]
<1>1. /\ u \in Producers /\ RunSound(u, store[r], n) /\ n \in Nat
      /\ store \in [ProducerRuns -> Payloads \cup {0}] /\ work \in [ProducerRuns -> Payloads \cup {0}]
  BY DEF ArtifactInv, ArtifactTypes, RunsSound
<1>2. ASSUME Produced(r, Quarantined(r)), u.status = "none" PROVE ArtifactInv'
  BY <1>1, <1>2, QuarantineIsEnd, ProducerEffect DEF Produced
<1>3. ASSUME NEW v \in Producers, Produced(r, v), u.pc # "end", RunSound(v, store[r], n) PROVE ArtifactInv'
  <2>1. u.status = "none" /\ store' = store
    BY <1>1, <1>3 DEF RunSound, Produced
  <2> QED BY <1>1, <1>3, <2>1, ProducerEffect DEF Produced
<1>4. u.pc # "end" /\ u.status = "none"
  BY <1>1 DEF ProducerStep, Collect, ResolveAssay, ReadPayload, PreCheck, EvaluateIt, PostCheck, Blocks, Recollect, RunSound
<1>5. CASE Collect(r)
  <2>1. CASE Produced(r, Quarantined(r))
    BY <1>2, <1>4, <2>1
  <2>2. CASE /\ work[r] # 0 /\ store' = [store EXCEPT ![r] = work[r]]
             /\ Run(r, [u EXCEPT !.pc = "assay", !.sha = work[r]])
    <3> DEFINE v == [u EXCEPT !.pc = "assay", !.sha = work[r]]
    <3>0. work[r] \in Nat
      <4>1. work[r] \in Payloads \cup {0}
        BY <1>1
      <4> QED BY <4>1, ContentsAreNumbers
    <3>1. v \in Producers /\ v.pc = "assay" /\ v.status = "none" /\ v.sha = work[r]
      BY <1>1, <1>4, <3>0 DEF Producers
    <3>2. RunSound(v, store'[r], n)
      <4> HIDE DEF v
      <4> QED BY <1>1, <2>2, <3>1 DEF RunSound
    <3> QED BY <1>1, <1>4, <2>2, <3>1, <3>2, ProducerEffect
  <2> QED BY <1>5, <2>1, <2>2 DEF Collect
<1>6. CASE ResolveAssay(r)
  <2>1. u.pc = "assay" /\ Produced(r, CASE u.assay \in {"none", "exempt"} -> [u EXCEPT !.pc = "final"]
                     [] u.assay \in {"undeclared", "unconfigured"} -> Quarantined(r)
                     [] OTHER -> [u EXCEPT !.pc = "payload"])
    BY <1>6 DEF ResolveAssay
  <2>2. CASE u.assay \in {"none", "exempt"}
    <3> DEFINE v == [u EXCEPT !.pc = "final"]
    <3>1. v \in Producers /\ v.pc = "final" /\ v.status = u.status /\ v.sha = u.sha /\ v.assay = u.assay
      BY <1>1 DEF Producers
    <3>2. RunSound(v, store[r], n)
      <4> HIDE DEF v
      <4> QED BY <1>1, <2>1, <2>2, <3>1 DEF RunSound
    <3>3. Produced(r, v)
      BY <2>1, <2>2
    <3> QED BY <1>3, <1>4, <3>1, <3>2, <3>3
  <2>3. CASE u.assay \in {"undeclared", "unconfigured"}
    <3>1. Produced(r, Quarantined(r))
      BY <2>1, <2>3
    <3> QED BY <1>2, <1>4, <3>1
  <2>4. CASE u.assay \notin {"none", "exempt", "undeclared", "unconfigured"}
    <3> DEFINE v == [u EXCEPT !.pc = "payload"]
    <3>1. v \in Producers /\ v.pc = "payload" /\ v.status = u.status /\ v.sha = u.sha /\ v.assay = u.assay
      BY <1>1 DEF Producers
    <3>2. RunSound(v, store[r], n)
      <4> HIDE DEF v
      <4> QED BY <1>1, <2>1, <3>1 DEF RunSound
    <3>3. Produced(r, v)
      BY <2>1, <2>4
    <3> QED BY <1>3, <1>4, <3>1, <3>2, <3>3
  <2> QED BY <2>2, <2>3, <2>4
<1>7. CASE ReadPayload(r)
  <2> DEFINE v == [u EXCEPT !.pc = "pre", !.payload = store[r]]
  <2>1. u.pc = "payload" /\ Produced(r, v)
    BY <1>7 DEF ReadPayload
  <2>2. store[r] \in Nat
    <3>1. store[r] \in Payloads \cup {0}
      BY <1>1
    <3> QED BY <3>1, ContentsAreNumbers
  <2>3. v \in Producers /\ v.pc = "pre" /\ v.status = u.status /\ v.sha = u.sha /\ v.payload = store[r]
    BY <1>1, <2>2 DEF Producers
  <2>4. RunSound(v, store[r], n)
    <3> HIDE DEF v
    <3> QED BY <1>1, <2>1, <2>3 DEF RunSound
  <2> QED BY <1>3, <1>4, <2>1, <2>3, <2>4
<1>8. ASSUME u.pc \in {"pre", "evaluate", "post"}, NEW d \in {"ERROR", "PASS", "FAIL"}, Verdict1(r, d),
             d = "PASS" => u.pc = "post" /\ u.verdict = "PASS"
      PROVE  ArtifactInv'
  <2> DEFINE v == [u EXCEPT !.pc = "blocks", !.verdict = d]
  <2>1. Produced(r, v)
    BY <1>8 DEF Verdict1
  <2>2. v \in Producers /\ v.pc = "blocks" /\ v.status = u.status /\ v.sha = u.sha /\ v.verdict = d
    BY <1>1, <1>8 DEF Producers
  <2>3. RunSound(v, store[r], n)
    <3> HIDE DEF v
    <3> QED BY <1>1, <1>8, <2>2 DEF RunSound
  <2> QED BY <1>3, <1>4, <2>1, <2>2, <2>3
<1>9. CASE PreCheck(r)
  <2> DEFINE v == [u EXCEPT !.pc = "evaluate"]
  <2>1. u.pc = "pre"
    BY <1>9 DEF PreCheck
  <2>2. CASE Verdict1(r, "ERROR")
    BY <1>8, <2>1, <2>2
  <2>3. CASE store[r] = u.sha /\ Produced(r, v)
    <3>1. v \in Producers /\ v.pc = "evaluate" /\ v.status = u.status /\ v.sha = u.sha /\ v.payload = u.payload
      BY <1>1 DEF Producers
    <3>2. RunSound(v, store[r], n)
      <4> HIDE DEF v
      <4> QED BY <1>1, <2>1, <2>3, <3>1 DEF RunSound
    <3> QED BY <1>3, <1>4, <2>3, <3>1, <3>2
  <2> QED BY <1>9, <2>2, <2>3 DEF PreCheck
<1>10. CASE EvaluateIt(r)
  <2> DEFINE d == IF u.payload \in Passing THEN "PASS" ELSE "FAIL"
             v == [u EXCEPT !.pc = "post", !.verdict = d]
  <2>1. u.pc = "evaluate"
    BY <1>10 DEF EvaluateIt
  <2>2. CASE Verdict1(r, "ERROR")
    BY <1>8, <2>1, <2>2
  <2>3. CASE Produced(r, v)
    <3>1. d \in {"PASS", "FAIL"} /\ (d = "PASS" => u.payload \in Passing)
      OBVIOUS
    <3> HIDE DEF d
    <3>2. v \in Producers /\ v.pc = "post" /\ v.status = u.status /\ v.sha = u.sha /\ v.payload = u.payload /\ v.verdict = d
      BY <1>1, <3>1 DEF Producers
    <3>3. RunSound(v, store[r], n)
      <4> HIDE DEF v
      <4> QED BY <1>1, <2>1, <3>1, <3>2 DEF RunSound
    <3> QED BY <1>3, <1>4, <2>3, <3>2, <3>3
  <2> QED BY <1>10, <2>2, <2>3 DEF EvaluateIt
<1>11. CASE PostCheck(r)
  <2> DEFINE d == IF store[r] = u.sha THEN u.verdict ELSE "ERROR"
  <2>1. u.pc = "post" /\ Verdict1(r, d)
    BY <1>11 DEF PostCheck
  <2>2. u.verdict \in {"none", "ERROR", "PASS", "FAIL"}
    BY <1>1 DEF Producers
  <2> DEFINE v == [u EXCEPT !.pc = "blocks", !.verdict = d]
  <2>3. d \in {"none", "ERROR", "PASS", "FAIL"} /\ (d = "PASS" => u.verdict = "PASS")
    BY <2>2
  <2>4. Produced(r, v)
    BY <2>1 DEF Verdict1
  <2> HIDE DEF d
  <2>5. v \in Producers /\ v.pc = "blocks" /\ v.status = u.status /\ v.sha = u.sha /\ v.verdict = d
    BY <1>1, <2>3 DEF Producers
  <2>6. RunSound(v, store[r], n)
    <3> HIDE DEF v
    <3> QED BY <1>1, <2>1, <2>3, <2>5 DEF RunSound
  <2> QED BY <1>3, <1>4, <2>4, <2>5, <2>6
<1>12. CASE Blocks(r)
  <2> DEFINE v == [u EXCEPT !.pc = "final"]
  <2>1. u.pc = "blocks"
    BY <1>12 DEF Blocks
  <2>2. CASE u.assay = "blocking" /\ u.verdict # "PASS"
    <3>1. Produced(r, Quarantined(r))
      BY <1>12, <2>2 DEF Blocks
    <3> QED BY <1>2, <1>4, <3>1
  <2>3. CASE ~(u.assay = "blocking" /\ u.verdict # "PASS")
    <3>1. Produced(r, v)
      BY <1>12, <2>3 DEF Blocks
    <3>2. v \in Producers /\ v.pc = "final" /\ v.status = u.status /\ v.sha = u.sha /\ v.assay = u.assay
      BY <1>1 DEF Producers
    <3>3. RunSound(v, store[r], n)
      <4> HIDE DEF v
      <4> QED BY <1>1, <2>1, <2>3, <3>2 DEF RunSound
    <3> QED BY <1>3, <1>4, <3>1, <3>2, <3>3
  <2> QED BY <2>2, <2>3
<1>13. CASE Recollect(r)
  <2> DEFINE v == [u EXCEPT !.pc = "end", !.status = "APPROVED", !.sha = work[r]]
  <2>1. u.pc = "final"
    BY <1>13 DEF Recollect
  <2>2. CASE Produced(r, Quarantined(r))
    BY <1>2, <1>4, <2>2
  <2>3. CASE /\ work[r] # 0 /\ (u.assay # "none" => work[r] = u.sha)
             /\ store' = [store EXCEPT ![r] = work[r]] /\ Run(r, v)
    <3>0. work[r] \in Nat
      <4>1. work \in [ProducerRuns -> Payloads \cup {0}] /\ Payloads \cup {0} \subseteq Nat
        BY ArtifactAssumption DEF ArtifactInv, ArtifactTypes
      <4> QED BY <4>1
    <3>1. /\ v \in Producers /\ v.pc = "end" /\ v.status = "APPROVED" /\ v.assay = u.assay
          /\ v.sha # 0 /\ (u.assay # "none" => v.sha = u.sha)
      <4> DEFINE w == work[r]
                 y == [u EXCEPT !.pc = "end", !.status = "APPROVED", !.sha = w]
      <4>1. w \in Nat /\ w # 0 /\ (u.assay # "none" => w = u.sha) /\ v = y
        BY <2>3, <3>0
      <4> HIDE DEF w, v
      <4> QED BY <1>1, <4>1 DEF Producers
    <3>2. RunSound(v, store'[r], n)
      <4> HIDE DEF v
      <4> QED BY <1>1, <2>1, <3>1 DEF RunSound
    <3> QED BY <1>1, <1>4, <2>3, <3>1, <3>2, ProducerEffect
  <2> QED BY <1>13, <2>2, <2>3 DEF Recollect
<1> QED BY <1>5, <1>6, <1>7, <1>9, <1>10, <1>11, <1>12, <1>13 DEF ProducerStep

(* Somebody changes a file; what it costs is counted.                      *)
LEMMA TamperCounts ==
  ASSUME ArtifactInv, NEW hit \in [ProducerRuns -> Nat], tampers.left > 0,
         tampers' = [left |-> tampers.left - 1, hit |-> hit],
         UNCHANGED <<pr, cs>>, work' \in [ProducerRuns -> Payloads \cup {0}],
         store' \in [ProducerRuns -> Payloads \cup {0}],
         RunsSound',
         \/ staged' = staged
         \/ staged.val # 0 /\ staged'.val # 0 /\ staged' \in [val : Nat, late : BOOLEAN]
  PROVE  ArtifactInv'
<1>1. tampers \in [left : 0..MaxTampers, hit : [ProducerRuns -> Nat]] /\ staged \in [val : Nat, late : BOOLEAN]
  BY DEF ArtifactInv, ArtifactTypes
<1>2. tampers'.left = tampers.left - 1 /\ tampers' \in [left : 0..MaxTampers, hit : [ProducerRuns -> Nat]]
  BY <1>1, ArtifactAssumption
<1>3. ArtifactTypes'
  BY <1>1, <1>2 DEF ArtifactInv, ArtifactTypes
<1> DEFINE k == tampers.left
<1>4. k \in Nat /\ k =< MaxTampers /\ tampers'.left =< MaxTampers - 1 /\ tampers'.left =< k
      /\ (k =< MaxTampers - 1 => tampers'.left =< MaxTampers - 2)
      /\ (k =< MaxTampers - 2 => tampers'.left =< MaxTampers - 2)
  BY <1>1, <1>2, ArtifactAssumption
<1>5. Consumed'
  BY <1>4 DEF ArtifactInv, Consumed
<1> QED BY <1>3, <1>5 DEF ArtifactInv

(* Whatever somebody changes is counted.                                   *)
LEMMA TamperKeeps == ASSUME ArtifactInv, TamperStore \/ TamperWork \/ TamperStaged PROVE ArtifactInv'
<1>1. /\ tampers \in [left : 0..MaxTampers, hit : [ProducerRuns -> Nat]] /\ staged \in [val : Nat, late : BOOLEAN]
      /\ store \in [ProducerRuns -> Payloads \cup {0}] /\ work \in [ProducerRuns -> Payloads \cup {0}]
      /\ RunsSound
  BY DEF ArtifactInv, ArtifactTypes
<1>2. tampers.hit \in [ProducerRuns -> Nat]
  BY <1>1
<1>3. CASE TamperStore
  <2>1. PICK r \in ProducerRuns, v \in Payloads \cup {0} :
         /\ store[r] # 0 /\ v # store[r] /\ store' = [store EXCEPT ![r] = v]
         /\ Tamper(IF pr[r].status = "none" THEN [tampers EXCEPT !.hit[r] = @ + 1] ELSE tampers)
    BY <1>3 DEF TamperStore
  <2> DEFINE hit == IF pr[r].status = "none" THEN [tampers.hit EXCEPT ![r] = @ + 1] ELSE tampers.hit
  <2>2. hit \in [ProducerRuns -> Nat]
    BY <1>2
  <2>3. tampers.left > 0 /\ tampers' = [left |-> tampers.left - 1, hit |-> hit]
    BY <1>1, <2>1 DEF Tamper
  <2>4. store' \in [ProducerRuns -> Payloads \cup {0}] /\ UNCHANGED <<pr, cs, work, staged>>
    BY <1>1, <1>3, <2>1 DEF TamperStore
  <2>5. RunsSound'
    <3> SUFFICES ASSUME NEW x \in ProducerRuns PROVE RunSound(pr[x], store'[x], hit[x])
      BY <2>3, <2>4 DEF RunsSound
    <3>1. RunSound(pr[x], store[x], tampers.hit[x]) /\ tampers.hit[x] \in Nat
      BY <1>1, <1>2 DEF RunsSound
    <3>2. CASE x # r
      BY <1>1, <1>2, <2>1, <3>1, <3>2
    <3>3. CASE x = r /\ pr[r].status = "none"
      <4>1. hit[x] = tampers.hit[x] + 1
        BY <1>2, <3>3
      <4> HIDE DEF hit
      <4> QED BY <3>1, <3>3, <4>1 DEF RunSound
    <3>4. CASE x = r /\ pr[r].status # "none"
      <4>1. hit[x] = tampers.hit[x]
        BY <3>4
      <4> HIDE DEF hit
      <4> QED BY <3>1, <3>4, <4>1 DEF RunSound
    <3> QED BY <3>2, <3>3, <3>4
  <2> HIDE DEF hit
  <2> QED BY <1>1, <2>2, <2>3, <2>4, <2>5, TamperCounts
<1>4. CASE TamperWork
  <2>1. work' \in [ProducerRuns -> Payloads \cup {0}] /\ UNCHANGED <<pr, cs, store, staged>>
    BY <1>1, <1>4 DEF TamperWork
  <2>2. tampers.left > 0 /\ tampers' = [left |-> tampers.left - 1, hit |-> tampers.hit]
    BY <1>1, <1>4 DEF TamperWork, Tamper
  <2>3. RunsSound'
    BY <1>1, <2>1, <2>2 DEF RunsSound
  <2> QED BY <1>1, <1>2, <2>1, <2>2, <2>3, TamperCounts
<1>5. CASE TamperStaged
  <2>1. PICK v \in Payloads \ {staged.val} : staged' = [val |-> v, late |-> TRUE]
    BY <1>5 DEF TamperStaged
  <2>2. staged.val # 0 /\ staged'.val # 0 /\ staged' \in [val : Nat, late : BOOLEAN] /\ UNCHANGED <<pr, work, store, cs>>
    BY <1>5, <2>1, ArtifactAssumption DEF TamperStaged
  <2>3. tampers.left > 0 /\ tampers' = [left |-> tampers.left - 1, hit |-> tampers.hit]
    BY <1>1, <1>5 DEF TamperStaged, Tamper
  <2>4. RunsSound'
    BY <1>1, <2>2, <2>3 DEF RunsSound
  <2> QED BY <1>1, <1>2, <2>2, <2>3, <2>4, TamperCounts
<1> QED BY <1>3, <1>4, <1>5

(* A step of the consuming run changes it and the staged copy.             *)
LEMMA ConsumerEffect ==
  ASSUME ArtifactInv, NEW c \in Consumers, Consumer(c), staged' \in [val : Nat, late : BOOLEAN], Consumed'
  PROVE  ArtifactInv'
<1>1. cs' = c /\ UNCHANGED <<pr, work, store, tampers>>
  BY DEF Consumer
<1>2. ArtifactTypes' /\ RunsSound'
  BY <1>1 DEF ArtifactInv, ArtifactTypes, RunsSound
<1> QED BY <1>2 DEF ArtifactInv

(* Every step of the consuming run keeps what it holds that of the run it  *)
(* took it from.                                                           *)
LEMMA ConsumerKeeps == ASSUME ArtifactInv, ConsumerStep PROVE ArtifactInv'
<1>1. /\ cs \in Consumers /\ staged \in [val : Nat, late : BOOLEAN] /\ Consumed
      /\ pr \in [ProducerRuns -> Producers] /\ store \in [ProducerRuns -> Payloads \cup {0}]
      /\ tampers.left \in Nat /\ tampers.left =< MaxTampers
  BY ArtifactAssumption DEF ArtifactInv, ArtifactTypes
<1>2. UNCHANGED <<pr, work, store, tampers>>
  BY DEF ConsumerStep, Identify, Stage, CheckConsumed, LaunchConsumer, ValidateConsumer, ApproveConsumer, Stop, Consumer
<1>3. ASSUME Stop, cs.pc \in {"identify", "check", "checkAfter", "checkEnd"}, staged' \in [val : Nat, late : BOOLEAN]
      PROVE  ArtifactInv'
  <2> DEFINE c == [cs EXCEPT !.pc = "refused"]
  <2>1. Consumer(c)
    BY <1>3 DEF Stop
  <2>2. c \in Consumers /\ c.pc = "refused" /\ c.src = cs.src /\ c.sha = cs.sha /\ c.data = cs.data
        /\ c.got = cs.got /\ c.plain = cs.plain
    BY <1>1 DEF Consumers
  <2>3. cs' = c
    BY <2>1 DEF Consumer
  <2> HIDE DEF c
  <2>4. Consumed'
    BY <1>1, <1>2, <1>3, <2>2, <2>3 DEF Consumed
  <2> QED BY <1>3, <2>1, <2>2, <2>4, ConsumerEffect
<1>4. CASE Identify
  <2>1. cs.pc = "identify" /\ staged' = staged
    BY <1>4 DEF Identify
  <2>2. CASE Approved = {} \/ store[Max(Approved)] # pr[Max(Approved)].sha
    <3>1. Stop
      BY <1>4, <2>2 DEF Identify
    <3> QED BY <1>1, <1>3, <2>1, <3>1
  <2>3. CASE ~(Approved = {} \/ store[Max(Approved)] # pr[Max(Approved)].sha)
    <3> DEFINE r == Max(Approved)
               c == [cs EXCEPT !.pc = "stage", !.src = r, !.sha = pr[r].sha, !.data = store[r]]
    <3>1. Consumer(c)
      BY <1>4, <2>3 DEF Identify
    <3>2. Approved \in SUBSET (1..2) /\ Approved # {} /\ store[r] = pr[r].sha
      BY <2>3 DEF Approved, ProducerRuns
    <3>3. r \in Approved
      <4> QED BY <3>2, MaxIs
    <3> HIDE DEF r
    <3>4. r \in ProducerRuns /\ pr[r].status = "APPROVED" /\ pr[r] \in Producers
      BY <1>1, <3>3 DEF Approved
    <3>5. pr[r].sha # 0 /\ pr[r].sha \in Nat
      BY <3>4 DEF Producers, ArtifactInv, RunsSound, RunSound
    <3>6. c \in Consumers /\ c.pc = "stage" /\ c.src = r /\ c.sha = pr[r].sha /\ c.data = pr[r].sha
          /\ c.got = cs.got /\ c.plain = cs.plain
      BY <1>1, <3>2, <3>4, <3>5 DEF Consumers
    <3>7. cs' = c
      BY <3>1 DEF Consumer
    <3> HIDE DEF c
    <3>8. Consumed'
      BY <1>1, <1>2, <2>1, <3>4, <3>5, <3>6, <3>7 DEF Consumed
    <3> QED BY <1>1, <2>1, <3>1, <3>6, <3>8, ConsumerEffect
  <2> QED BY <2>2, <2>3
<1>5. CASE Stage
  <2> DEFINE c == [cs EXCEPT !.pc = "check"]
  <2>1. cs.pc = "stage" /\ Consumer(c) /\ staged' = [val |-> IF cs.plain THEN cs.data ELSE 0, late |-> FALSE]
    BY <1>5 DEF Stage
  <2>2. c \in Consumers /\ c.pc = "check" /\ c.src = cs.src /\ c.sha = cs.sha /\ c.data = cs.data
        /\ c.got = cs.got /\ c.plain = cs.plain
    BY <1>1 DEF Consumers
  <2>3. cs' = c
    BY <2>1 DEF Consumer
  <2>4. cs.data \in Nat
    BY <1>1 DEF Consumers
  <2>5. staged'.val = (IF cs.plain THEN cs.data ELSE 0) /\ staged' \in [val : Nat, late : BOOLEAN]
    BY <2>1, <2>4
  <2> HIDE DEF c
  <2>6. Consumed'
    BY <1>1, <1>2, <2>1, <2>2, <2>3, <2>5 DEF Consumed
  <2> QED BY <2>1, <2>2, <2>5, <2>6, ConsumerEffect
<1>6. CASE CheckConsumed
  <2>1. cs.pc \in {"check", "checkAfter", "checkEnd"} /\ staged' = [staged EXCEPT !.late = FALSE]
    BY <1>6 DEF CheckConsumed
  <2>2. staged' \in [val : Nat, late : BOOLEAN] /\ staged'.val = staged.val
    BY <1>1, <2>1
  <2>3. CASE staged.val # 0 /\ staged.val # cs.sha
    <3>1. Stop
      BY <1>6, <2>3 DEF CheckConsumed
    <3> QED BY <1>3, <2>1, <2>2, <3>1
  <2>4. CASE ~(staged.val # 0 /\ staged.val # cs.sha)
    <3> DEFINE q == Next1(cs.pc)
               c == [cs EXCEPT !.pc = q]
    <3>1. /\ cs.pc = "check" => q = "launch"
          /\ cs.pc = "checkAfter" => q = "validate"
          /\ cs.pc = "checkEnd" => q = "approve"
      BY DEF Next1
    <3>2. Consumer(c)
      BY <1>6, <2>4 DEF CheckConsumed
    <3> HIDE DEF q
    <3>3. c \in Consumers /\ c.pc = q /\ c.src = cs.src /\ c.sha = cs.sha /\ c.data = cs.data
          /\ c.got = cs.got /\ c.plain = cs.plain
      BY <1>1, <2>1, <3>1 DEF Consumers
    <3>4. cs' = c
      BY <3>2 DEF Consumer
    <3> HIDE DEF c
    <3>5. Consumed'
      <4>1. CASE cs.pc = "check"
        BY <1>1, <1>2, <2>2, <2>4, <3>1, <3>3, <3>4, <4>1 DEF Consumed
      <4>2. CASE cs.pc = "checkAfter"
        BY <1>1, <1>2, <2>2, <2>4, <3>1, <3>3, <3>4, <4>2 DEF Consumed
      <4>3. CASE cs.pc = "checkEnd"
        BY <1>1, <1>2, <2>2, <2>4, <3>1, <3>3, <3>4, <4>3 DEF Consumed
      <4> QED BY <2>1, <4>1, <4>2, <4>3
    <3> QED BY <2>2, <3>2, <3>3, <3>5, ConsumerEffect
  <2> QED BY <2>3, <2>4
<1>7. CASE LaunchConsumer
  <2> DEFINE g == IF cs.plain THEN staged.val ELSE cs.data
             c == [cs EXCEPT !.pc = "checkAfter", !.got = g]
  <2>1. cs.pc = "launch" /\ Consumer(c) /\ staged' = staged
    BY <1>7 DEF LaunchConsumer
  <2>2. g \in Nat /\ (cs.plain => g = staged.val) /\ (~cs.plain => g = cs.data)
    BY <1>1 DEF Consumers
  <2> HIDE DEF g
  <2>3. c \in Consumers /\ c.pc = "checkAfter" /\ c.src = cs.src /\ c.sha = cs.sha /\ c.data = cs.data
        /\ c.got = g /\ c.plain = cs.plain
    BY <1>1, <2>2 DEF Consumers
  <2>4. cs' = c
    BY <2>1 DEF Consumer
  <2> HIDE DEF c
  <2>5. Consumed'
    BY <1>1, <1>2, <2>1, <2>2, <2>3, <2>4 DEF Consumed
  <2> QED BY <1>1, <2>1, <2>3, <2>5, ConsumerEffect
<1>8. ASSUME NEW q \in {"checkEnd", "approved"}, cs.pc \in {"validate", "approve"},
             Consumer([cs EXCEPT !.pc = q]), staged' \in [val : Nat, late : BOOLEAN]
      PROVE  ArtifactInv'
  <2> DEFINE c == [cs EXCEPT !.pc = q]
  <2>1. c \in Consumers /\ c.pc = q /\ c.src = cs.src /\ c.sha = cs.sha /\ c.data = cs.data
        /\ c.got = cs.got /\ c.plain = cs.plain
    BY <1>1 DEF Consumers
  <2>2. cs' = c
    BY <1>8 DEF Consumer
  <2>3. Consumer(c)
    BY <1>8
  <2> HIDE DEF c
  <2>4. Consumed'
    BY <1>1, <1>2, <1>8, <2>1, <2>2 DEF Consumed
  <2> QED BY <1>8, <2>1, <2>3, <2>4, ConsumerEffect
<1>9. CASE ValidateConsumer
  BY <1>1, <1>8, <1>9 DEF ValidateConsumer
<1>10. CASE ApproveConsumer
  <2>1. staged' \in [val : Nat, late : BOOLEAN]
    BY <1>10 DEF ApproveConsumer
  <2> QED BY <1>8, <1>10, <2>1 DEF ApproveConsumer
<1> QED BY <1>4, <1>5, <1>6, <1>7, <1>9, <1>10 DEF ConsumerStep

(* What the artifacts part keeps at every step.                            *)
LEMMA ArtifactKeeps == ArtifactInv /\ (ArtifactNext \/ UNCHANGED pVars) => ArtifactInv'
<1>1. ASSUME ArtifactInv, UNCHANGED pVars PROVE ArtifactInv'
  BY <1>1 DEF pVars, ArtifactInv, ArtifactTypes, RunsSound, Consumed
<1> QED BY <1>1, ProducerKeeps, ConsumerKeeps, TamperKeeps DEF ArtifactNext

-----------------------------------------------------------------------------
(* The assayer's package                                                   *)

PackageTypes ==
  /\ repo \in [tree : Trees, commits : Seq(Trees), head : Nat, git : BOOLEAN]
  /\ repo.head \in 1..Len(repo.commits)
  /\ snap \in [pc : {"python", "refused", "pack", "status", "commit", "ready"}, runtime : Nat,
                files : [Files -> 0..MaxVersions], sealed : BOOLEAN, clean : {"unknown", "clean", "dirty"}, commit : Nat]
  /\ lib \in Nat /\ busy \in [left : Nat, during : BOOLEAN]

(* What the package holds of the checkout, unless somebody meddled.        *)
Packing ==
  /\ snap.pc = "python" => snap.files = Packed
  /\ snap.pc # "ready" => evals = {}
  /\ snap.pc \in {"status", "commit", "ready"} => \A f \in Files : snap.files[f] # 0
  /\ snap.pc \in {"pack", "status", "commit"} /\ ~busy.during =>
       \A f \in Files : snap.files[f] \in {0, repo.tree[f]}
  /\ snap.pc = "commit" /\ ~busy.during /\ snap.clean = "clean" => ~repo.git \/ repo.tree = repo.commits[repo.head]
  /\ snap.pc = "ready" => snap.commit \in 0..Len(repo.commits)

PackageInv == PackageTypes /\ Packing /\ PackageIdentified

(* Nothing is packed at first.                                             *)
LEMMA PackageBegins == PackageInit => PackageInv
<1> SUFFICES ASSUME PackageInit PROVE PackageInv
  OBVIOUS
<1> DEFINE first == [f \in Files |-> 1]
<1>1. PICK t \in Trees, g \in BOOLEAN : repo = [tree |-> t, commits |-> <<first>>, head |-> 1, git |-> g]
  BY DEF PackageInit
<1>2. first \in Trees /\ Packed \in [Files -> 0..MaxVersions]
  BY PackageAssumption DEF Trees, Packed
<1> HIDE DEF first
<1>3. <<first>> \in Seq(Trees) /\ Len(<<first>>) = 1
  BY <1>2
<1>4. PackageTypes
  BY <1>1, <1>2, <1>3, PackageAssumption DEF PackageInit, PackageTypes, NoSnap
<1> QED BY <1>4 DEF PackageInit, PackageInv, NoSnap, Packing, PackageIdentified

(* Whoever meddles with the checkout while it is packed is remembered; the *)
(* commits there are stay what they were.                                  *)
LEMMA PackageMeddled ==
  ASSUME PackageInv, EditRepo \/ CommitRepo \/ CheckoutRepo \/ UpgradePython
  PROVE  PackageInv'
<1>1. /\ UNCHANGED <<snap, evals>> /\ busy' \in [left : Nat, during : BOOLEAN]
      /\ busy.during => busy'.during
      /\ snap.pc \in {"pack", "status", "commit"} => busy'.during
  <2>1. Meddles
    BY DEF EditRepo, CommitRepo, CheckoutRepo, UpgradePython
  <2>2. busy \in [left : Nat, during : BOOLEAN]
    BY DEF PackageInv, PackageTypes
  <2>3. busy.left - 1 \in Nat
    BY <2>1, <2>2 DEF Meddles
  <2> QED BY <2>1, <2>2, <2>3 DEF Meddles
<1>2. /\ repo \in [tree : Trees, commits : Seq(Trees), head : Nat, git : BOOLEAN]
      /\ repo.head \in 1..Len(repo.commits) /\ lib \in Nat /\ Len(repo.commits) \in Nat
  BY DEF PackageInv, PackageTypes
<1> DEFINE Kept ==
      /\ repo' \in [tree : Trees, commits : Seq(Trees), head : Nat, git : BOOLEAN]
      /\ repo'.head \in 1..Len(repo'.commits) /\ lib' \in Nat
      /\ Len(repo'.commits) \in Nat /\ Len(repo'.commits) >= Len(repo.commits)
      /\ \A i \in 1..Len(repo.commits) : repo'.commits[i] = repo.commits[i]
<1>3. ASSUME EditRepo PROVE Kept
  <2>1. PICK t \in Trees : repo' = [repo EXCEPT !.tree = t]
    BY <1>3 DEF EditRepo
  <2>2. repo' \in [tree : Trees, commits : Seq(Trees), head : Nat, git : BOOLEAN]
        /\ repo'.commits = repo.commits /\ repo'.head = repo.head
    BY <1>2, <2>1
  <2> QED BY <1>2, <1>3, <2>2 DEF EditRepo
<1>4. ASSUME CommitRepo PROVE Kept
  <2> DEFINE cs1 == Append(repo.commits, repo.tree)
             h == Len(repo.commits) + 1
  <2>1. repo' = [repo EXCEPT !.commits = cs1, !.head = h] /\ lib' = lib
    BY <1>4 DEF CommitRepo
  <2>2. cs1 \in Seq(Trees) /\ Len(cs1) = h /\ h \in Nat /\ h > Len(repo.commits)
        /\ \A i \in 1..Len(repo.commits) : cs1[i] = repo.commits[i]
    BY <1>2
  <2> HIDE DEF cs1, h
  <2>3. repo' \in [tree : Trees, commits : Seq(Trees), head : Nat, git : BOOLEAN]
        /\ repo'.commits = cs1 /\ repo'.head = h
    BY <1>2, <2>1, <2>2
  <2> QED BY <1>2, <2>1, <2>2, <2>3
<1>5. ASSUME CheckoutRepo PROVE Kept
  <2>1. PICK c \in DOMAIN repo.commits : repo' = [repo EXCEPT !.tree = repo.commits[c], !.head = c]
    BY <1>5 DEF CheckoutRepo
  <2> DEFINE t == repo.commits[c]
  <2>2. c \in 1..Len(repo.commits) /\ c \in Nat /\ t \in Trees
    BY <1>2
  <2>3. repo' = [repo EXCEPT !.tree = t, !.head = c] /\ lib' = lib
    BY <1>5, <2>1 DEF CheckoutRepo
  <2> HIDE DEF t
  <2>4. repo' \in [tree : Trees, commits : Seq(Trees), head : Nat, git : BOOLEAN]
        /\ repo'.commits = repo.commits /\ repo'.head = c
    BY <1>2, <2>2, <2>3
  <2> QED BY <1>2, <2>2, <2>3, <2>4
<1>6. ASSUME UpgradePython PROVE Kept
  BY <1>2, <1>6 DEF UpgradePython
<1>7. Kept
  BY <1>3, <1>4, <1>5, <1>6
<1>8. PackageTypes'
  BY <1>1, <1>7 DEF PackageInv, PackageTypes
<1>9. Packing'
  <2>1. snap'.pc \in {"pack", "status", "commit"} => busy'.during
    BY <1>1
  <2>2. snap.pc = "ready" => snap.commit \in 0..Len(repo'.commits)
    <3>1. snap.pc = "ready" => snap.commit \in 0..Len(repo.commits)
      BY DEF PackageInv, Packing
    <3> QED BY <1>2, <1>7, <3>1
  <2>3. /\ snap.pc = "python" => snap.files = Packed
        /\ snap.pc # "ready" => evals = {}
        /\ snap.pc \in {"status", "commit", "ready"} => \A f \in Files : snap.files[f] # 0
    BY DEF PackageInv, Packing
  <2> HIDE DEF Kept
  <2> QED BY <1>1, <2>1, <2>2, <2>3 DEF Packing
<1>10. PackageIdentified'
  <2>1. snap.pc = "ready" /\ snap.commit # 0 => repo'.commits[snap.commit] = repo.commits[snap.commit]
    <3>1. snap.pc = "ready" => snap.commit \in 0..Len(repo.commits)
      BY DEF PackageInv, Packing
    <3> QED BY <1>2, <1>7, <3>1
  <2> HIDE DEF Kept
  <2> QED BY <1>1, <2>1 DEF PackageInv, PackageIdentified
<1> QED BY <1>8, <1>9, <1>10 DEF PackageInv

(* A step of the build changes the snapshot only.                          *)
LEMMA SnapEffect ==
  ASSUME PackageInv, NEW s, Snap(s), UNCHANGED evals, evals = {},
         s \in [pc : {"python", "refused", "pack", "status", "commit", "ready"}, runtime : Nat,
                files : [Files -> 0..MaxVersions], sealed : BOOLEAN, clean : {"unknown", "clean", "dirty"}, commit : Nat],
         s.pc # "python",
         s.pc \in {"status", "commit", "ready"} => \A f \in Files : s.files[f] # 0,
         s.pc \in {"pack", "status", "commit"} /\ ~busy.during => \A f \in Files : s.files[f] \in {0, repo.tree[f]},
         s.pc = "commit" /\ ~busy.during /\ s.clean = "clean" => ~repo.git \/ repo.tree = repo.commits[repo.head],
         s.pc = "ready" => s.commit \in 0..Len(repo.commits),
         s.pc = "ready" /\ s.clean = "clean" /\ s.commit # 0 /\ ~busy.during => s.files = repo.commits[s.commit]
  PROVE  PackageInv'
<1>1. snap' = s /\ UNCHANGED <<repo, lib, busy, evals>>
  BY DEF Snap
<1>2. PackageTypes'
  BY <1>1 DEF PackageInv, PackageTypes
<1>3. Packing' /\ PackageIdentified'
  BY <1>1 DEF Packing, PackageIdentified
<1> QED BY <1>2, <1>3 DEF PackageInv

(* Every step of the build, and every evaluation, keeps the package what   *)
(* was read of the checkout.                                               *)
LEMMA PackageKeeps == PackageInv /\ (PackageNext \/ UNCHANGED kVars) => PackageInv'
<1> SUFFICES ASSUME PackageInv, PackageNext \/ UNCHANGED kVars PROVE PackageInv'
  OBVIOUS
<1> DEFINE SnapType ==
      [pc : {"python", "refused", "pack", "status", "commit", "ready"}, runtime : Nat,
       files : [Files -> 0..MaxVersions], sealed : BOOLEAN, clean : {"unknown", "clean", "dirty"}, commit : Nat]
<1>1. /\ snap \in SnapType /\ repo \in [tree : Trees, commits : Seq(Trees), head : Nat, git : BOOLEAN]
      /\ repo.head \in 1..Len(repo.commits) /\ lib \in Nat /\ Len(repo.commits) \in Nat /\ Packing
  BY DEF PackageInv, PackageTypes
<1>2. ASSUME Fail, snap.pc # "ready" PROVE PackageInv'
  <2> DEFINE s == [snap EXCEPT !.pc = "refused"]
  <2>1. Snap(s) /\ UNCHANGED evals /\ evals = {}
    BY <1>1, <1>2 DEF Fail, Packing
  <2>2. s \in SnapType /\ s.pc = "refused"
    BY <1>1
  <2> HIDE DEF s
  <2> QED BY <2>1, <2>2, SnapEffect
<1>3. CASE buildRuntimeManifest
  <2> DEFINE s == [snap EXCEPT !.pc = "pack", !.runtime = lib]
  <2>1. CASE Fail
    BY <1>2, <1>3, <2>1 DEF buildRuntimeManifest
  <2>2. CASE Snap(s) /\ UNCHANGED evals
    <3>1. s \in SnapType /\ s.pc = "pack" /\ s.files = snap.files
      BY <1>1
    <3>2. evals = {} /\ \A f \in Files : s.files[f] = 0
      BY <1>1, <1>3, <3>1 DEF buildRuntimeManifest, Packing, Packed
    <3> HIDE DEF s
    <3> QED BY <2>2, <3>1, <3>2, SnapEffect
  <2> QED BY <1>3, <2>1, <2>2 DEF buildRuntimeManifest
<1>4. CASE addOne
  <2> DEFINE g == CHOOSE g \in Files : snap.files[g] = 0 /\ \A h \in Files : snap.files[h] = 0 => g <= h
  <2>1. g \in Files /\ snap.pc = "pack"
    <3>1. \E x \in Files : snap.files[x] = 0 /\ \A h \in Files : snap.files[h] = 0 => x <= h
      <4>1. CASE snap.files[1] = 0
        BY <4>1 DEF Files
      <4>2. CASE snap.files[1] # 0
        BY <1>4, <4>2 DEF addOne, Files
      <4> QED BY <4>1, <4>2
    <3> QED BY <1>4, <3>1 DEF addOne
  <2> DEFINE s == [snap EXCEPT !.files[g] = repo.tree[g]]
  <2>2. CASE Fail
    BY <1>2, <2>1, <2>2
  <2>3. CASE Snap(s) /\ UNCHANGED evals
    <3> HIDE DEF g
    <3> DEFINE fs == [snap.files EXCEPT ![g] = repo.tree[g]]
    <3>1. fs \in [Files -> 0..MaxVersions]
      <4>1. repo.tree[g] \in 0..MaxVersions
        BY <1>1, <2>1, PackageAssumption DEF Trees
      <4> QED BY <1>1, <4>1
    <3>2. \A f \in Files : fs[f] \in {snap.files[f], repo.tree[f]}
      BY <1>1
    <3>3. s = [snap EXCEPT !.files = fs]
      BY <1>1
    <3> HIDE DEF fs, s
    <3>4. s \in SnapType /\ s.pc = "pack" /\ s.files = fs
      BY <1>1, <2>1, <3>1, <3>3
    <3>5. evals = {} /\ (~busy.during => \A f \in Files : snap.files[f] \in {0, repo.tree[f]})
      BY <1>1, <2>1 DEF Packing
    <3>6. ~busy.during => \A f \in Files : s.files[f] \in {0, repo.tree[f]}
      BY <3>2, <3>4, <3>5
    <3> QED BY <2>3, <3>4, <3>5, <3>6, SnapEffect
  <2> QED BY <1>4, <2>2, <2>3 DEF addOne
<1>5. CASE sealPackageMemfd
  <2> DEFINE s == [snap EXCEPT !.pc = "status", !.sealed = TRUE]
  <2>1. CASE Fail
    BY <1>2, <1>5, <2>1 DEF sealPackageMemfd
  <2>2. CASE Snap(s) /\ UNCHANGED evals
    <3>1. s \in SnapType /\ s.pc = "status" /\ s.files = snap.files
      BY <1>1
    <3>2. evals = {} /\ (\A f \in Files : snap.files[f] # 0)
          /\ (~busy.during => \A f \in Files : snap.files[f] \in {0, repo.tree[f]})
      BY <1>1, <1>5 DEF sealPackageMemfd, Packing
    <3> HIDE DEF s
    <3> QED BY <2>2, <3>1, <3>2, SnapEffect
  <2> QED BY <1>5, <2>1, <2>2 DEF sealPackageMemfd
<1>6. CASE snapshotDirty
  <2>1. PICK c \in {"clean", "dirty", "unknown"} :
          /\ Snap([snap EXCEPT !.pc = "commit", !.clean = c])
          /\ c = "clean" => ~repo.git \/ repo.tree = repo.commits[repo.head]
    BY <1>6 DEF snapshotDirty
  <2> DEFINE s == [snap EXCEPT !.pc = "commit", !.clean = c]
  <2>2. s \in SnapType /\ s.pc = "commit" /\ s.files = snap.files /\ s.clean = c
    BY <1>1
  <2>3. evals = {} /\ UNCHANGED evals /\ (\A f \in Files : snap.files[f] # 0)
        /\ (~busy.during => \A f \in Files : snap.files[f] \in {0, repo.tree[f]})
    BY <1>1, <1>6 DEF snapshotDirty, Packing
  <2>4. Snap(s)
    BY <2>1
  <2> HIDE DEF s
  <2> QED BY <2>1, <2>2, <2>3, <2>4, SnapEffect
<1>7. CASE assayerCommit
  <2>1. PICK c \in {0} \cup (IF repo.git THEN {repo.head} ELSE {}) : Snap([snap EXCEPT !.pc = "ready", !.commit = c])
    BY <1>7 DEF assayerCommit
  <2> DEFINE s == [snap EXCEPT !.pc = "ready", !.commit = c]
  <2>2. c \in Nat /\ c \in 0..Len(repo.commits) /\ (c # 0 => repo.git /\ c = repo.head)
    BY <1>1, <2>1
  <2>3. s \in SnapType /\ s.pc = "ready" /\ s.files = snap.files /\ s.clean = snap.clean /\ s.commit = c
    BY <1>1, <2>2
  <2>4. evals = {} /\ UNCHANGED evals /\ (\A f \in Files : snap.files[f] # 0)
        /\ (~busy.during => \A f \in Files : snap.files[f] \in {0, repo.tree[f]})
        /\ (~busy.during /\ snap.clean = "clean" => ~repo.git \/ repo.tree = repo.commits[repo.head])
    BY <1>1, <1>7 DEF assayerCommit, Packing
  <2>5. snap.clean = "clean" /\ c # 0 /\ ~busy.during => snap.files = repo.commits[c]
    <3> SUFFICES ASSUME snap.clean = "clean", c # 0, ~busy.during PROVE snap.files = repo.tree
      BY <2>2, <2>4
    <3>1. \A f \in Files : snap.files[f] = repo.tree[f]
      BY <2>4
    <3>2. snap.files \in [Files -> 0..MaxVersions] /\ repo.tree \in [Files -> 1..MaxVersions]
      BY <1>1 DEF Trees
    <3> QED BY <3>1, <3>2
  <2>6. Snap(s)
    BY <2>1
  <2> HIDE DEF s
  <2> QED BY <2>2, <2>3, <2>4, <2>5, <2>6, SnapEffect
<1>8. CASE Evaluate
  <2>1. UNCHANGED <<repo, lib, snap, busy>> /\ snap.pc = "ready"
        /\ evals' = evals \cup {[files |-> snap.files, lib |-> lib]}
    BY <1>8 DEF Evaluate
  <2>2. PackageTypes' /\ Packing'
    BY <2>1 DEF PackageInv, PackageTypes, Packing
  <2>3. PackageIdentified'
    BY <2>1 DEF PackageInv, PackageIdentified
  <2> QED BY <2>2, <2>3 DEF PackageInv
<1>9. CASE UNCHANGED kVars
  BY <1>9 DEF kVars, PackageInv, PackageTypes, Packing, PackageIdentified
<1> QED BY <1>3, <1>4, <1>5, <1>6, <1>7, <1>8, <1>9, PackageMeddled DEF PackageNext

-----------------------------------------------------------------------------
(* All of them                                                             *)

FilesInv == ExecInv /\ ToolInv /\ AttestInv /\ RecallInv /\ ArtifactInv /\ PackageInv

(* Whichever parts run, each keeps its invariant, and the parts that do    *)
(* not run stay where they began.                                          *)
THEOREM FilesInvariance == MCSpec => []FilesInv
<1>1. MCInit => FilesInv
  BY ExecBegins, ToolBegins, AttestBegins, RecallBegins, ArtifactBegins, PackageBegins DEF MCInit, FilesInv
<1>2. FilesInv /\ [MCNext]_mcVars => FilesInv'
  <2> SUFFICES ASSUME FilesInv, [MCNext]_mcVars PROVE FilesInv'
    OBVIOUS
  <2>1. ExecNext \/ UNCHANGED xVars
    BY DEF MCNext, mcVars
  <2>2. ToolNext \/ UNCHANGED tVars
    BY FirstEnroller DEF MCNext, mcVars, ToolsOf, ToolNext
  <2>3. AttestNext \/ UNCHANGED aVars
    BY DEF MCNext, mcVars
  <2>4. RecallNext \/ UNCHANGED sVars
    BY DEF MCNext, mcVars
  <2>5. ArtifactNext \/ UNCHANGED pVars
    BY DEF MCNext, mcVars
  <2>6. PackageNext \/ UNCHANGED kVars
    BY DEF MCNext, mcVars
  <2> QED BY <2>1, <2>2, <2>3, <2>4, <2>5, <2>6, ExecKeeps, ToolKeeps, AttestKeeps, RecallKeeps, ArtifactKeeps,
             PackageKeeps DEF FilesInv
<1> QED BY <1>1, <1>2, PTL DEF MCSpec

(* Every program the controller executes, a backend through its handle or  *)
(* its frozen closure or a registered tool, is the one it has verified,    *)
(* unless somebody changed a file in the window the code leaves open.      *)
THEOREM ExecutedAreVerified == MCSpec => []ExecutedIsVerified
<1>1. FilesInv => ExecutedIsVerified
  BY DEF FilesInv, ExecInv, ToolInv, ExecutedIsVerified
<1> QED BY <1>1, FilesInvariance, PTL

(* No enrollment is lost between two processes, and an attestation is      *)
(* honoured only of the executable, place and configuration it was probed  *)
(* on.                                                                     *)
THEOREM TrustIsEarned == MCSpec => []TrustRecordsHold
<1>1. FilesInv => TrustRecordsHold
  BY DEF FilesInv, ToolInv, AttestInv, TrustRecordsHold
<1> QED BY <1>1, FilesInvariance, PTL

(* Whatever recall restore has overwritten or deleted, cut short or not,   *)
(* is in a listed snapshot, if it was under a root configured when the     *)
(* pre-restore snapshot began (Create walks Roots, Restore the roots of    *)
(* the manifest), and unless it could not be copied, was edited or pruned. *)
THEOREM RestoresAreUndoable == MCSpec => []RestoreUndoable
<1>1. FilesInv => RestoreUndoable
  BY RecallFollows DEF FilesInv
<1> QED BY <1>1, FilesInvariance, PTL

(* An artifact is consumed as it was approved and approved as it was       *)
(* assayed, by the package the run's identity records, whatever happens to *)
(* the files in between.                                                   *)
THEOREM ArtifactsAreSound == MCSpec => []ArtifactsSound
<1>1. FilesInv => ArtifactsSound
  BY ArtifactsFollow DEF FilesInv, PackageInv, ArtifactsSound
<1> QED BY <1>1, FilesInvariance, PTL

=============================================================================
