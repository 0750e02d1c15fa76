---------------------------- MODULE DockerLaunch -----------------------------
(***************************************************************************)
(* A run of the docker runner, from the worktree it prepares to the one it *)
(* destroys: DockerRunner's Prepare, executor, Observe, Stop and Destroy,  *)
(* and the volume that carries consumed artifacts.  The docker client and  *)
(* the daemon are actors of their own: a request that was sent before its  *)
(* client died is still served, and every command of the controller may    *)
(* fail.                                                                   *)
(***************************************************************************)
EXTENDS Naturals

VARIABLES
    dkPc,     \* where the run stands
    cont,     \* the container called gov-<id>, as the daemon knows it
    cli,      \* the `docker run` client and the request it has outstanding
    dkRes,    \* code, err and descendantsGone of the executor, Observe's error
    vol,      \* the consumed-artifact volume and the containers that use it
    tree,     \* the worktree
    dkFault   \* a removal command has failed

dkVars == <<dkPc, cont, cli, dkRes, vol, tree, dkFault>>

NoCont == [st |-> "none", who |-> "own", image |-> "ok", hard |-> "ok"]

\* A container of that name may be left over from an earlier launch; it is
\* older than dockerCreationClockSkew.
DockerInit ==
    /\ dkPc = "prepare"
    /\ cont \in {NoCont} \cup [st : {"running", "exited"}, who : {"stale"}, image : {"ok", "other"}, hard : {"ok", "weak"}]
    /\ cli = [st |-> "no", req |-> "none"]
    /\ dkRes = [code |-> "zero", err |-> "none", gone |-> "no", obs |-> "none"]
    /\ vol = [st |-> "none", seed |-> "no", reader |-> "no"]
    /\ tree = "none" /\ dkFault = "no"

To(l) == dkPc' = l
Only(l) == To(l) /\ UNCHANGED <<cont, cli, dkRes, vol, tree, dkFault>>
Exists == cont.st # "none"

\* runOnce: Prepare creates the worktree; the container only gets a name.
Prepare ==
    /\ dkPc = "prepare" /\ tree' = "there"
    /\ \E l \in {"provision", "launch"} : To(l)
    /\ UNCHANGED <<cont, cli, dkRes, vol, dkFault>>

----------------------------------------------------------------------------
(* The volume of consumed artifacts. *)

\* `docker volume rm` is refused while any container refers to the volume.
VolumeRm(v, faulty) ==
    IF faulty \/ v.seed = "yes" \/ v.reader = "yes" \/ (Exists /\ cont.who = "own")
    THEN v ELSE [v EXCEPT !.st = "none"]
SeedRm(v, faulty) == IF faulty THEN v ELSE [v EXCEPT !.seed = "no"]
ReaderRm(v, faulty) == IF faulty THEN v ELSE [v EXCEPT !.reader = "no"]

Faulted(b) == dkFault' = IF b THEN "yes" ELSE dkFault

\* ProvisionConsumedVolume, stale objects removed first: create the volume,
\* create the seed container, copy into it.
ProvisionCreates ==
    /\ dkPc = "provision"
    /\ \/ vol' = [vol EXCEPT !.st = "partial"] /\ To("seed") /\ UNCHANGED dkRes
       \/ dkRes' = [dkRes EXCEPT !.err = "provision"] /\ To("destroy") /\ UNCHANGED vol
    /\ UNCHANGED <<cont, cli, tree, dkFault>>

ProvisionSeeds ==
    /\ dkPc = "seed"
    /\ \/ vol' = [vol EXCEPT !.seed = "yes"] /\ To("copy") /\ UNCHANGED <<dkRes, dkFault>>
       \/ \E f \in BOOLEAN :
            /\ vol' = VolumeRm(vol, f) /\ Faulted(f)
            /\ dkRes' = [dkRes EXCEPT !.err = "provision"] /\ To("destroy")
    /\ UNCHANGED <<cont, cli, tree>>

\* Mutant: the volume is removed before the container that uses it.
ProvisionCleanup_VolumeFirst(f) == SeedRm(VolumeRm(vol, f), f)

\* The deferred removals: the seed container first, then the volume it uses.
ProvisionCleanup(f) == VolumeRm(SeedRm(vol, f), f)

ProvisionCopies ==
    /\ dkPc = "copy"
    /\ \E f \in BOOLEAN :
         /\ Faulted(f)
         /\ \/ vol' = [SeedRm(vol, f) EXCEPT !.st = "full"] /\ To("launch") /\ UNCHANGED dkRes
            \/ vol' = ProvisionCleanup(f) /\ dkRes' = [dkRes EXCEPT !.err = "provision"] /\ To("destroy")
    /\ UNCHANGED <<cont, cli, tree>>

\* Someone with access to the daemon writes into the volume.
Tamper ==
    /\ vol.st = "full" /\ vol' = [vol EXCEPT !.st = "changed"]
    /\ UNCHANGED <<dkPc, cont, cli, dkRes, tree, dkFault>>

\* VerifyConsumedVolume: read back through a container of its own.
VerifyConsumedVolume ==
    /\ dkPc = "verifyVolume"
    /\ \E f \in BOOLEAN :
         /\ vol' = [vol EXCEPT !.reader = IF f THEN "yes" ELSE "no"] /\ Faulted(f)
         /\ \/ vol.st = "full" /\ UNCHANGED dkRes
            \/ dkRes' = [dkRes EXCEPT !.err = "volume"]
    /\ To("destroy") /\ UNCHANGED <<cont, cli, tree>>

\* RemoveConsumedVolume: both helper containers, then the volume.
RemoveConsumedVolume(next) ==
    /\ \E f \in BOOLEAN :
         vol' = VolumeRm(ReaderRm(SeedRm(vol, f), f), f) /\ Faulted(f)
    /\ To(next) /\ UNCHANGED <<cont, cli, dkRes, tree>>

----------------------------------------------------------------------------
(* The docker client and the daemon. *)

Outside == UNCHANGED <<dkPc, dkRes, vol, tree, dkFault>>

\* A create request: refused when the name is taken.  The image is the resolved
\* one unless the daemon resolves the reference to another; the hardening may
\* not be applied in full.
DaemonCreates ==
    /\ cli.req = "create"
    /\ IF Exists
       THEN cli' = [cli EXCEPT !.req = "none", !.st = IF @ = "run" THEN "failed" ELSE @] /\ UNCHANGED cont
       ELSE /\ \E i \in {"ok", "other"}, h \in {"ok", "weak"} :
                 cont' = [st |-> "created", who |-> "own", image |-> i, hard |-> h]
            /\ cli' = [cli EXCEPT !.req = IF cli.st = "run" THEN "start" ELSE "none"]
    /\ Outside

DaemonStarts ==
    /\ cli.req = "start"
    /\ cont' = IF cont.st = "created" THEN [cont EXCEPT !.st = "running"] ELSE cont
    /\ cli' = [cli EXCEPT !.req = "none", !.st = IF @ = "run" /\ ~Exists THEN "failed" ELSE @]
    /\ Outside

ContainerExits ==
    /\ cont.st = "running" /\ cont' = [cont EXCEPT !.st = "exited"]
    /\ UNCHANGED cli /\ Outside

\* The client ends with its container's code, or loses the daemon.
ClientExits ==
    /\ cli.st \in {"run", "dying"}
    /\ \/ /\ cli.st = "run" /\ cli.req = "none" /\ cont.st = "exited" /\ cont.who = "own"
          /\ \E s \in {"ok", "failed"} : cli' = [cli EXCEPT !.st = s]
       \/ cli' = [cli EXCEPT !.st = "failed"]
    /\ UNCHANGED cont /\ Outside

ClientOver == cli.st \in {"ok", "failed"}

----------------------------------------------------------------------------
(* The executor. *)

\* runArgs: credential mounts or an unresolved image refuse; the docker handle
\* may be changed; the client may not start.  gone is reported as false.
LaunchRefused ==
    /\ dkPc = "launch"
    /\ dkRes' = [dkRes EXCEPT !.err = "launch"] /\ To("observe")
    /\ UNCHANGED <<cont, cli, vol, tree, dkFault>>

LaunchStarts ==
    /\ dkPc = "launch"
    /\ cli' = [st |-> "run", req |-> "create"] /\ To("verify")
    /\ UNCHANGED <<cont, dkRes, vol, tree, dkFault>>

\* Mutant: any container of the right name and image is taken.
Mine_NoAgeCheck == cont.image = "ok"

\* verifyStartedContainer: one look at the container; absent means look again,
\* until DockerContainerObservationDeadline.
Mine == cont.image = "ok" /\ cont.who = "own"

VerifyPasses == dkPc = "verify" /\ Exists /\ Mine /\ Only("select")

VerifyFails ==
    /\ dkPc = "verify"
    /\ dkRes' = [dkRes EXCEPT !.code = "minus", !.err = IF Exists THEN "mismatch" ELSE "notObserved"]
    /\ To("stop") /\ UNCHANGED <<cont, cli, vol, tree, dkFault>>

DockerDone ==
    /\ dkPc = "select" /\ ClientOver
    /\ dkRes' = [dkRes EXCEPT !.code = IF cli.st = "ok" THEN @ ELSE "nonzero"]
    /\ To("prove") /\ UNCHANGED <<cont, cli, vol, tree, dkFault>>

DockerTimeout ==
    /\ dkPc = "select"
    /\ dkRes' = [dkRes EXCEPT !.code = "minus", !.err = "timeout"]
    /\ To("stop") /\ UNCHANGED <<cont, cli, vol, tree, dkFault>>

\* forceStopAndRemove: stop, and rm -f when stop failed.  Stopping a container
\* that was created and not started changes nothing.
ForceStop ==
    /\ dkPc = "stop"
    /\ \/ /\ Exists /\ cont' = IF cont.st = "running" THEN [cont EXCEPT !.st = "exited"] ELSE cont
          /\ UNCHANGED dkFault
       \/ cont' = NoCont /\ UNCHANGED dkFault
       \/ UNCHANGED cont /\ Faulted(TRUE)
    /\ To("killClient") /\ UNCHANGED <<cli, dkRes, vol, tree>>

\* killProcessGroup, and a bounded wait: a client that does not die is left.
KillClient ==
    /\ dkPc = "killClient"
    /\ cli' = [cli EXCEPT !.st = IF @ = "run" THEN "dying" ELSE @] /\ To("waitClient")
    /\ UNCHANGED <<cont, dkRes, vol, tree, dkFault>>

\* Mutant: the wait for the client has no deadline.
WaitClient_Unbounded == dkPc = "waitClient" /\ cli.st = "ok" /\ Only("prove")

WaitClient == dkPc = "waitClient" /\ Only("prove")

\* proveContainerExtinction.  "early" marks a proof given while the daemon still
\* had a request of this launch to serve; the code cannot tell.
Gone == IF cli.req = "none" THEN "yes" ELSE "early"

\* Mutant: the client's exit stands for the container's.
ProveExtinction_ClientGone ==
    /\ dkPc = "prove"
    /\ dkRes' = [dkRes EXCEPT !.gone = IF ClientOver THEN Gone ELSE "no"]
    /\ To("observe") /\ UNCHANGED <<cont, cli, vol, tree, dkFault>>

ProveExtinction ==
    /\ dkPc = "prove"
    /\ \/ cont.st # "running" /\ dkRes' = [dkRes EXCEPT !.gone = Gone]
       \/ dkRes' = [dkRes EXCEPT !.gone = "no", !.err = IF @ = "none" THEN "extinction" ELSE @]
    /\ To("observe") /\ UNCHANGED <<cont, cli, vol, tree, dkFault>>

\* Mutant: what was requested is reported as applied.
Observe_Advisory ==
    /\ dkPc = "observe"
    /\ \E h \in BOOLEAN : dkRes' = [dkRes EXCEPT !.obs = IF h THEN "hardened" ELSE "plain"]
    /\ \E l \in {"destroy", "abort", "verifyVolume"} : To(l) /\ (l = "verifyVolume" => vol.st # "none")
    /\ UNCHANGED <<cont, cli, vol, tree, dkFault>>

\* Observe: a hardened configuration must be found applied to the container of
\* that name, and its image to be the resolved one when the configuration pins a
\* digest.  "stale" marks a report of a container of an earlier launch; the code
\* cannot tell, as it looks at neither age nor owner here.
Vouched == IF cont.who = "own" THEN "hardened" ELSE "stale"

Observe ==
    /\ dkPc = "observe"
    /\ \/ dkRes' = [dkRes EXCEPT !.obs = "plain"]
       \/ \E pinned \in BOOLEAN :
            /\ Exists /\ cont.hard = "ok" /\ (pinned => cont.image = "ok")
            /\ dkRes' = [dkRes EXCEPT !.obs = Vouched]
       \/ dkRes' = [dkRes EXCEPT !.obs = "error"]
    /\ \E l \in {"destroy", "abort", "verifyVolume"} : To(l) /\ (l = "verifyVolume" => vol.st # "none")
    /\ UNCHANGED <<cont, cli, vol, tree, dkFault>>

----------------------------------------------------------------------------
(* The end of the run. *)

\* Mutant: the worktree goes although the container could not be removed.
DestroyBody_IgnoresRm(next) ==
    /\ \/ cont' = NoCont /\ tree' = "removed" /\ UNCHANGED dkFault
       \/ UNCHANGED cont /\ tree' = "removed" /\ Faulted(TRUE)
    /\ To(next) /\ UNCHANGED <<cli, dkRes, vol>>

\* Destroy: the worktree goes only after its container is known to be gone.
DestroyBody(next) ==
    /\ \/ cont' = NoCont /\ tree' = "removed" /\ UNCHANGED dkFault
       \/ cont' = NoCont /\ UNCHANGED tree /\ Faulted(TRUE)
       \/ UNCHANGED <<cont, tree>> /\ Faulted(TRUE)
    /\ To(next) /\ UNCHANGED <<cli, dkRes, vol>>

\* The normal end destroys the workspace and then runs the deferred removal of
\* the volume; an early return runs the deferred calls in the opposite order.
Destroy == dkPc = "destroy" /\ DestroyBody(IF vol.st = "none" \/ dkRes.err = "provision" THEN "done" ELSE "removeVolume")
RemoveVolume == dkPc = "removeVolume" /\ RemoveConsumedVolume("done")
AbortVolume == dkPc = "abort" /\ RemoveConsumedVolume("abortDestroy")
AbortDestroy == dkPc = "abortDestroy" /\ DestroyBody("aborted")

\* A queued workspace_destroy operation is replayed by reconcile.
ReplayDestroy == dkPc \in {"done", "aborted"} /\ tree = "there" /\ DestroyBody(dkPc)

----------------------------------------------------------------------------
Controller ==
    \/ Prepare \/ ProvisionCreates \/ ProvisionSeeds \/ ProvisionCopies \/ VerifyConsumedVolume
    \/ LaunchRefused \/ LaunchStarts \/ VerifyPasses \/ VerifyFails
    \/ DockerDone \/ DockerTimeout \/ ForceStop \/ KillClient \/ WaitClient
    \/ ProveExtinction \/ Observe \/ Destroy \/ RemoveVolume \/ AbortVolume \/ AbortDestroy

Daemon == DaemonCreates \/ DaemonStarts \/ ContainerExits \/ ClientExits \/ Tamper

DockerNext == Controller \/ ReplayDestroy \/ Daemon

\* A launch that reports its container gone, with nothing of it outstanding in
\* the daemon, has no running container, whether the client exited, lost the
\* daemon or was killed.
ContainerExtinct == dkRes.gone = "yes" => cont.st # "running"

\* The same without the proviso.
ContainerExtinctAlways == dkRes.gone # "no" => cont.st # "running"

\* The executor never waits for a container of the same name that an earlier
\* launch left behind or that runs another image; and a launch that ends without
\* an error is vouched for by its own container, of the resolved image, alone.
OwnContainer ==
    /\ dkPc = "select" /\ Exists => Mine
    /\ dkRes.err = "none" => dkRes.obs # "stale"
    /\ dkRes.err = "none" /\ dkRes.obs = "hardened" /\ Exists => Mine

\* An observation is reported as hardened only of a container whose applied
\* configuration is the declared one, be it this launch's or a stale one.
HardenedIsApplied ==
    /\ dkRes.obs = "hardened" /\ Exists => cont.hard = "ok"
    /\ dkRes.obs = "stale" /\ Exists /\ cont.who = "stale" => cont.hard = "ok"

\* The same without the proviso on err: no stale container is ever vouched for.
HardenedIsOwn == dkRes.obs # "stale"

\* A worktree is never removed under a running container, whichever of the two
\* removals fails and whatever the daemon still has to serve.
WorkspaceOutlives == tree = "removed" => cont.st # "running"

\* A run that ends normally, with no removal command failing, leaves no volume
\* behind, also when provisioning it broke off half-way; only a container the
\* daemon creates after the run gave it up can still hold the volume.
VolumeReleased == dkPc = "done" /\ dkFault = "no" /\ ~Exists => vol.st = "none"

\* The same for a run that returned early.
VolumeReleasedAlways == dkPc \in {"done", "aborted"} /\ dkFault = "no" /\ ~Exists => vol.st = "none"

\* What an operator may rely on of a container launch: the five above.
ContainerSound ==
    ContainerExtinct /\ OwnContainer /\ HardenedIsApplied /\ WorkspaceOutlives /\ VolumeReleased

\* A docker run ends, whatever its client and the daemon do.
DockerReturns == (dkPc = "launch") ~> (dkPc \in {"done", "aborted"})
=============================================================================
