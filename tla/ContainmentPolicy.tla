-------------------------- MODULE ContainmentPolicy --------------------------
(***************************************************************************)
(* Which contracts must prove host containment, and what qualifies.        *)
(*                                                                         *)
(* A contract: risk label, runner, the authorities it declares, whether it *)
(* forbids the network, whether its container is hardened, and its signed  *)
(* override [reason, body, key]: what was signed, with which key.          *)
(***************************************************************************)
EXTENDS Integers, FiniteSets

Authorities == {"write", "execute", "intended", "produces", "consumes", "validators", "cleanup", "credentials"}
Risks == <<"", "low", "medium", "high">>

Effectful(c) == c.authority # {}
NetworkForbidden(c) == c.netForbidden

\* Mutant: a contract without a risk label needs no containment.
RequiresHostContainment_Label(c, tiering) ==
    \/ c.risk = "high"
    \/ c.risk # "" /\ (NetworkForbidden(c) \/ (c.risk = "medium" /\ tiering /\ Effectful(c)))

RequiresHostContainment(c, tiering) ==
    \/ c.risk = "high"
    \/ c.runner = "local" /\ (NetworkForbidden(c) \/ (tiering /\ Effectful(c)))
    \/ c.runner # "local" /\ \/ c.risk # "" /\ NetworkForbidden(c)
                             \/ c.risk = "medium" /\ tiering /\ Effectful(c)

RequiresStrongDescendantContainment(c, tiering) == c.risk = "high" \/ (tiering /\ Effectful(c))

\* The signature covers the job, the contract without its containment block,
\* and the reason.  The key is the operator's, from the configuration.
SigningMessage(c) == <<c.job, [c EXCEPT !.override = {}], {o.reason : o \in c.override}>>

\* Mutant: the signature binds the job and nothing else.
VerifyOverride_JobOnly(c, key) ==
    \E o \in c.override : o.reason # "" /\ key # "" /\ o.key = key /\ o.signed[1] = c.job

VerifyOverride(c, key) ==
    \E o \in c.override : o.reason # "" /\ key # "" /\ o.key = key /\ o.signed = SigningMessage(c)

EnforcePolicy(c, external, key, tiering) ==
    \/ ~RequiresHostContainment(c, tiering)
    \/ c.runner = "docker" /\ (c.hardened \/ VerifyOverride(c, key))
    \/ c.runner = "local" /\ (external \/ VerifyOverride(c, key))

----------------------------------------------------------------------------
\* A label strengthens, never weakens; more authority never asks for less; and
\* what may run uncontained is contained, hardened, or signed for as it stands.
RankOf(r) == CHOOSE i \in 1..4 : Risks[i] = r
AsStrict(d, c) ==
    /\ d.runner = c.runner /\ RankOf(d.risk) >= RankOf(c.risk)
    /\ c.authority \subseteq d.authority /\ (c.netForbidden => d.netForbidden)

ContainmentSound(c, contracts, external, key, tiering) ==
    /\ \A d \in contracts : AsStrict(d, c) /\ RequiresHostContainment(c, tiering) => RequiresHostContainment(d, tiering)
    /\ \A d \in contracts : /\ d.runner = "local" /\ c.runner = "local" /\ d.risk # "high" /\ c.risk # "high"
                            /\ d.authority = c.authority /\ d.netForbidden = c.netForbidden
                            => (RequiresHostContainment(c, tiering) <=> RequiresHostContainment(d, tiering))
    /\ EnforcePolicy(c, external, key, tiering) =>
         \/ c.risk # "high" /\ ~c.netForbidden /\ (~tiering \/ c.authority = {} \/ (c.runner = "docker" /\ c.risk # "medium"))
         \/ c.risk = "" /\ c.runner = "docker"
         \/ c.runner = "docker" /\ c.hardened
         \/ c.runner = "local" /\ external
         \/ \E o \in c.override : o.key = key /\ o.signed = <<c.job, [c EXCEPT !.override = {}], {o.reason}>>
=============================================================================
