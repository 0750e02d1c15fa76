---------------------------- MODULE ToolRegistry -----------------------------
(***************************************************************************)
(* The trusted-tool registry: gov tools enroll rewrites the registry file  *)
(* under a lock, and a controller stage resolves an enrolled tool into a   *)
(* handle, perhaps publishes a private copy of it, and executes one of the *)
(* two.  Tools are files that somebody may change at any time.             *)
(***************************************************************************)
EXTENDS FileWorld

CONSTANTS Enrollers,  \* processes that run gov tools enroll
          Tools       \* tool names; the resolver wants the first

ASSUME ToolAssumption == Enrollers \subseteq Nat \ {0} /\ 1 \in Tools

VARIABLES
    reg,     \* the registry file: is it fit to be read, generation, entries
    regLock, \* who holds the flock (0: nobody)
    en,      \* the enrollers
    tFs,     \* each tool's file; trusted: its owner, mode and ancestors are
    tLeft,
    th,      \* the resolver: its entry, its descriptor, its private copy (the
             \* bytes at its path, those under its descriptor, the sum of both)
    tSince,  \* changes since the handle's, and since the copy's, verification
    tRan,    \* the bytes that ran
    done     \* the enrollments that took effect: how many, and the last of each name

tVars == <<reg, regLock, en, tFs, tLeft, th, tSince, tRan, done>>

Kinds == {"trusted-controller", "sandboxed-helper", "governed-backend"}
NoEntry == [ino |-> 0, sha |-> 0, kind |-> "trusted-controller"]
Fresh == [pc |-> "idle", name |-> 0, entry |-> NoEntry, buf |-> [gen |-> 0, tools |-> <<>>]]
NoTool == [pc |-> "load", entry |-> NoEntry, fd |-> 0, copy |-> 0, kept |-> 0, sum |-> 0, same |-> FALSE]

\* The first tool may be enrolled already, as any kind; trust is of the path.
ToolInit ==
    /\ tFs \in [Tools -> [file : {NewFile(v) : v \in Bytes}, trusted : BOOLEAN]]
    /\ \E e \in {NoEntry} \cup [ino : {1}, sha : Bytes, kind : Kinds], s \in {"ok", "absent", "unfit"} :
         /\ (s = "absent" => e = NoEntry)
         /\ reg = [state |-> s, gen |-> 0, tools |-> [n \in Tools |-> IF n = 1 THEN e ELSE NoEntry]]
    /\ regLock = 0 /\ en = [e \in Enrollers |-> Fresh] /\ tLeft = MaxChanges
    /\ th = NoTool /\ tSince = {} /\ tRan = 0
    /\ done = [n |-> 0, last |-> reg.tools]

----------------------------------------------------------------------------
(* Somebody else *)

ToolChanged(what) == tLeft > 0 /\ tLeft' = tLeft - 1 /\ tSince' = tSince \cup {what}

ReplaceTool ==
    /\ ToolChanged("path")
    /\ \E n \in Tools, f \in BOOLEAN :
         \E g \in Renamed(tFs[n].file, MaxChanges - tLeft + 2) \cup Unlinked(tFs[n].file) :
            tFs' = [tFs EXCEPT ![n] = [file |-> g, trusted |-> f]]
    /\ UNCHANGED <<reg, regLock, en, th, tRan, done>>
OverwriteTool ==
    /\ \E n \in Tools : \E i \in {tFs[n].file.path} \cup (IF n = 1 THEN {th.fd} ELSE {}) :
         /\ i # 0 /\ ToolChanged(IF n = 1 /\ i = th.fd THEN "held" ELSE "path")
         /\ \E g \in Written(tFs[n].file, i) : tFs' = [tFs EXCEPT ![n].file = g]
    /\ UNCHANGED <<reg, regLock, en, th, tRan, done>>
\* Another process of the same user writes into the private copy, or puts
\* another file at its path.
WriteCopy ==
    /\ th.copy # 0 /\ ToolChanged("copy")
    /\ \E v \in Bytes, replace \in BOOLEAN :
         th' = [th EXCEPT !.copy = v, !.kept = IF replace \/ ~th.same THEN @ ELSE v, !.same = @ /\ ~replace]
    /\ UNCHANGED <<reg, regLock, en, tFs, tRan, done>>

----------------------------------------------------------------------------
(* Enroll and updateRegistry *)

Enrolls(e, to) == en' = [en EXCEPT ![e] = to]
Frame == UNCHANGED <<tFs, tLeft, th, tSince, tRan>>

\* The prior entry gives the kind; it is read outside the lock, and a registry
\* that cannot be read gives none.
ReadPrior(e) ==
    /\ en[e].pc = "idle"
    /\ \E n \in Tools :
         Enrolls(e, [en[e] EXCEPT !.pc = "inspect", !.name = n,
                       !.entry = [NoEntry EXCEPT !.kind =
                          IF reg.state = "ok" THEN reg.tools[n].kind ELSE "trusted-controller"]])
    /\ UNCHANGED <<reg, regLock, done>> /\ Frame

\* inspectPath: one descriptor, its owner, mode, ancestors, identity and hash.
Inspect(e) ==
    /\ en[e].pc = "inspect"
    /\ LET t == tFs[en[e].name] IN
       Enrolls(e, IF t.file.path = 0 \/ ~t.trusted THEN [en[e] EXCEPT !.pc = "failed"]
                  ELSE [en[e] EXCEPT !.pc = "lock", !.entry.ino = t.file.path, !.entry.sha = Content(t.file)])
    /\ UNCHANGED <<reg, regLock, done>> /\ Frame

\* Mutant: the registry is read before the lock is taken.
TakeLock_ReadsFirst(e) ==
    /\ \/ en[e].pc = "lock" /\ Enrolls(e, [en[e] EXCEPT !.pc = "wait", !.buf = [gen |-> reg.gen, tools |-> reg.tools]]) /\ UNCHANGED regLock
       \/ en[e].pc = "wait" /\ regLock = 0 /\ regLock' = e /\ Enrolls(e, [en[e] EXCEPT !.pc = "write"])
    /\ UNCHANGED <<reg, done>> /\ Frame

TakeLock(e) ==
    /\ en[e].pc = "lock" /\ regLock = 0 /\ regLock' = e /\ Enrolls(e, [en[e] EXCEPT !.pc = "read"])
    /\ UNCHANGED <<reg, done>> /\ Frame

\* readRegistryFile refuses a symlink, a wrong mode or owner, an untrusted
\* directory, a file changed while it was opened, and duplicate keys.
ReadRegistry(e) ==
    /\ en[e].pc = "read"
    /\ IF reg.state = "unfit" THEN Enrolls(e, [en[e] EXCEPT !.pc = "failed"]) /\ regLock' = 0
       ELSE Enrolls(e, [en[e] EXCEPT !.pc = "write", !.buf = [gen |-> reg.gen, tools |-> reg.tools]]) /\ UNCHANGED regLock
    /\ UNCHANGED <<reg, done>> /\ Frame

\* replaceEntry, the generation, a temporary file, fsync and rename; any of
\* them may fail and leaves the registry as it is.
Publish(e) ==
    /\ en[e].pc = "write" /\ regLock' = 0
    /\ \/ /\ reg' = [state |-> "ok", gen |-> en[e].buf.gen + 1,
                     tools |-> [en[e].buf.tools EXCEPT ![en[e].name] = en[e].entry]]
          /\ done' = [n |-> done.n + 1, last |-> [done.last EXCEPT ![en[e].name] = en[e].entry]]
          /\ Enrolls(e, [en[e] EXCEPT !.pc = "done"])
       \/ Enrolls(e, [en[e] EXCEPT !.pc = "failed"]) /\ UNCHANGED <<reg, done>>
    /\ Frame

\* The process dies: the kernel drops its flock.
Dies(e) ==
    /\ en[e].pc \notin {"idle", "done", "failed"} /\ Enrolls(e, [en[e] EXCEPT !.pc = "failed"])
    /\ regLock' = (IF regLock = e THEN 0 ELSE regLock) /\ UNCHANGED <<reg, done>> /\ Frame

----------------------------------------------------------------------------
(* Registry.ResolveHandle, sealInto, SealedCopy.Verify and the launch *)

Tool(h) == th' = h /\ UNCHANGED <<reg, regLock, en, tFs, tLeft, done>>
Refuse == Tool([th EXCEPT !.pc = "refused"])

\* Load and the checks of Resolve that need no file.
LoadEntry ==
    /\ th.pc = "load"
    /\ LET e == reg.tools[1] IN
       IF reg.state # "ok" \/ e.sha = 0 \/ e.kind # "trusted-controller" THEN Refuse
       ELSE Tool([th EXCEPT !.pc = "inspect", !.entry = e])
    /\ UNCHANGED <<tSince, tRan>>

\* Its identity and hash must be the enrolled ones.
Resolve1 ==
    /\ th.pc = "inspect"
    /\ LET f == tFs[1].file IN
       IF f.path # 0 /\ tFs[1].trusted /\ f.path = th.entry.ino /\ Content(f) = th.entry.sha
       THEN Tool([th EXCEPT !.pc = "open"]) ELSE Refuse
    /\ UNCHANGED <<tSince, tRan>>

\* It is opened a second time: the same inode,
OpenHandle ==
    /\ th.pc = "open"
    /\ IF tFs[1].file.path = th.entry.ino THEN Tool([th EXCEPT !.pc = "hash", !.fd = tFs[1].file.path]) ELSE Refuse
    /\ UNCHANGED <<tSince, tRan>>
\* Mutant: the held file is not hashed.
HashHandle_Trusting ==
    /\ th.pc = "hash" /\ Tool([th EXCEPT !.pc = "held"]) /\ tSince' = {} /\ UNCHANGED tRan

\* with the same bytes.
HashHandle ==
    /\ th.pc = "hash"
    /\ IF tFs[1].file.data[th.fd] = th.entry.sha THEN Tool([th EXCEPT !.pc = "held"]) ELSE Refuse
    /\ tSince' = {} /\ UNCHANGED tRan

\* Command: the descriptor itself is executed.
ExecHeld ==
    /\ th.pc = "held" /\ Tool([th EXCEPT !.pc = "ran"]) /\ tRan' = tFs[1].file.data[th.fd]
    /\ UNCHANGED tSince

\* sealInto: a private copy of what the descriptor reads now, with its own sum.
sealInto ==
    /\ th.pc = "held"
    /\ LET v == tFs[1].file.data[th.fd] IN Tool([th EXCEPT !.pc = "sealed", !.copy = v, !.kept = v, !.sum = v, !.same = TRUE])
    /\ UNCHANGED <<tSince, tRan>>
\* Verify: the path still names the copy's inode, then
StatCopy ==
    /\ th.pc = "sealed" /\ tSince' = tSince \ {"copy"}
    /\ (IF th.same THEN Tool([th EXCEPT !.pc = "stat"]) ELSE Refuse) /\ UNCHANGED tRan
\* the bytes under the retained descriptor have the sum.
VerifyCopy ==
    /\ th.pc = "stat"
    /\ (IF th.kept = th.sum THEN Tool([th EXCEPT !.pc = "verified"]) ELSE Refuse) /\ UNCHANGED <<tSince, tRan>>
ExecCopy ==
    /\ th.pc = "verified" /\ Tool([th EXCEPT !.pc = "ranCopy"]) /\ tRan' = th.copy /\ UNCHANGED tSince

CloseTool ==
    /\ th.pc \in {"ran", "ranCopy", "refused"} /\ Tool([th EXCEPT !.pc = "closed", !.fd = 0, !.copy = 0, !.kept = 0])
    /\ UNCHANGED <<tSince, tRan>>

EnrollStep(e) == ReadPrior(e) \/ Inspect(e) \/ TakeLock(e) \/ ReadRegistry(e) \/ Publish(e) \/ Dies(e)
HandleStep == LoadEntry \/ Resolve1 \/ OpenHandle \/ HashHandle \/ ExecHeld \/ sealInto \/ StatCopy \/ VerifyCopy
              \/ ExecCopy \/ CloseTool
ToolNext == (\E e \in Enrollers : EnrollStep(e)) \/ HandleStep \/ ReplaceTool \/ OverwriteTool \/ WriteCopy

----------------------------------------------------------------------------

\* No enrollment is lost: the registry holds the last enrollment of every name,
\* whatever other names were enrolled at the same time or cut short, and its
\* generation counts them.
EnrollmentsKept == reg.tools = done.last /\ reg.gen = done.n

\* A controller tool that runs has the bytes that were enrolled, unless they
\* were written in place after the handle's own check, or the private copy was
\* written or replaced since its last one began.
ToolIsVerified ==
    /\ th.pc = "ran" => tRan = th.entry.sha \/ "held" \in tSince
    /\ th.pc = "ranCopy" => tRan = th.entry.sha \/ {"held", "copy"} \cap tSince # {}
=============================================================================
