------------------------------ MODULE MCLaunch -------------------------------
(***************************************************************************)
(* The two ways a backend is launched, in a local scope and in a container.*)
(* They share no state, so one run checks both: a behaviour is of the one  *)
(* kind or the other, and the one that does not run stays where it began.  *)
(***************************************************************************)
EXTENDS StageLaunch, DockerLaunch

VARIABLE launcher   \* EffectiveRunner: "local" or "docker"

mcVars == <<launcher, stVars, dkVars>>

NoStage == [host |-> {}, strong |-> FALSE, authStrong |-> FALSE, auth |-> "none", handle |-> TRUE,
            plan |-> "off", sandboxed |-> TRUE, envOK |-> TRUE, capture |-> "none"]

MCInit ==
    \/ launcher = "local" /\ cont = NoCont /\ DockerInit /\ StageInit
    \/ launcher = "docker" /\ stSpec = NoStage /\ StageInit /\ DockerInit

Local == launcher = "local" /\ UNCHANGED <<launcher, dkVars>>
Docker == launcher = "docker" /\ UNCHANGED <<launcher, stVars>>

MCNext == (Local /\ StageNext) \/ (Docker /\ DockerNext)

MCSpec ==
    /\ MCInit /\ [][MCNext]_mcVars
    /\ WF_mcVars(Local /\ Executor) /\ WF_mcVars(Local /\ Expire) /\ WF_mcVars(Docker /\ Controller)

\* Every launch returns, in a scope or in a container, whatever its processes,
\* its client and the daemon do: every wait of the controller has a deadline.
LaunchReturns == StageReturns /\ DockerReturns
=============================================================================
