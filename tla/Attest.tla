-------------------------------- MODULE Attest --------------------------------
(***************************************************************************)
(* Capability attestations: gov attest hashes a backend, runs it by its    *)
(* path through the behavioural probes and stores what it saw; a high-risk *)
(* run on the backend's native sandbox looks the record up by the identity *)
(* of the handle it resolved.  Meanwhile binaries and the configuration    *)
(* change and time passes.                                                 *)
(***************************************************************************)
EXTENDS FileWorld, Sequences, SequencesExt

CONSTANTS Capabilities, \* what adapters declare
          MaxRows       \* attestations made

Ttl == 1
MaxClock == 1

VARIABLES
    aCap,   \* the adapter's declared capabilities
    aFs,    \* the backend's file
    aCfg,   \* the configuration: its hash, and whether an identity is declared
    aNow,   \* the clock
    aLeft,  \* changes left
    at,     \* gov attest
    aRows,  \* capability_attestations, newest last
    aWho,   \* a high-risk run: the configuration it was given, the file it resolved
    aUse    \* the row that was honoured by the lookup just made (0: none)

aVars == <<aCap, aFs, aCfg, aNow, aLeft, at, aRows, aWho, aUse>>

\* passed: every probe so far that the adapter's capabilities require did;
\* held: the sandbox probe saw the sandbox hold.
NoAttest == [pc |-> "idle", sha |-> 0, ino |-> 0, cfg |-> 0, ran |-> {}, passed |-> FALSE, held |-> FALSE]

NoOne == [cfg |-> 0, sha |-> 0, ino |-> 0]

AttestInit ==
    /\ aCap \in Capabilities /\ aFs = NewFile(Min(Bytes))
    /\ aCfg \in [hash : {1}, known : BOOLEAN]
    /\ aNow = 0 /\ aLeft = MaxChanges /\ at = NoAttest /\ aRows = <<>>
    /\ aWho = NoOne /\ aUse = 0

----------------------------------------------------------------------------

ChangeBinary ==
    /\ aLeft > 0 /\ aLeft' = aLeft - 1
    /\ aFs' \in Renamed(aFs, MaxChanges - aLeft + 2) \cup Written(aFs, aFs.path)
    /\ aUse' = 0 /\ UNCHANGED <<aCap, aCfg, aNow, at, aRows, aWho>>
EditConfig ==
    /\ aLeft > 0 /\ aLeft' = aLeft - 1 /\ aCfg' = [aCfg EXCEPT !.hash = @ + 1]
    /\ aUse' = 0 /\ UNCHANGED <<aCap, aFs, aNow, at, aRows, aWho>>
Tick ==
    /\ aNow < MaxClock /\ aNow' = aNow + 1
    /\ aUse' = 0 /\ UNCHANGED <<aCap, aFs, aCfg, aLeft, at, aRows, aWho>>

----------------------------------------------------------------------------
(* gov attest: Generate and Store *)

Attests(a) == at' = a /\ aUse' = 0 /\ UNCHANGED <<aCap, aFs, aCfg, aNow, aLeft, aWho>>

\* ResolvePath hashes the file, then asks for its identity; the configuration
\* was loaded when the command started.
HashBackend ==
    /\ at.pc = "idle" /\ Len(aRows) < MaxRows
    /\ Attests([NoAttest EXCEPT !.pc = "stat", !.sha = Content(aFs), !.cfg = aCfg.hash]) /\ UNCHANGED aRows
StatBackend ==
    /\ at.pc = "stat" /\ Attests([at EXCEPT !.pc = "version", !.ino = aFs.path]) /\ UNCHANGED aRows
\* No answer to --version in time: nothing is probed.
ProbeVersion ==
    /\ at.pc = "version"
    /\ \/ Attests([at EXCEPT !.pc = "sandbox", !.passed = TRUE])
       \/ Attests([at EXCEPT !.pc = "store"])
    /\ UNCHANGED aRows

\* What one probe saw: the probe may fail or be cut by its timeout (err), the
\* backend may do nothing at all (silent), break out, or behave.
Seen == {"err", "silent", "escaped", "behaved"}

Ran(v) == at.ran \cup {v}
\* Mutant: a probe that saw nothing may pass.
sandboxProbe_Optimistic ==
    /\ at.pc = "sandbox"
    /\ \E o \in Seen, ok \in BOOLEAN :
         Attests([at EXCEPT !.pc = "readOnly", !.ran = Ran(Content(aFs)), !.held = o = "behaved",
                            !.passed = ok /\ o # "escaped"])
    /\ UNCHANGED aRows

\* The sandbox probe also shows the transcript and the denial of the network;
\* when nothing was observed the others are not run.
sandboxProbe ==
    /\ at.pc = "sandbox"
    /\ \E o \in Seen, format \in BOOLEAN, net \in BOOLEAN :
         Attests([at EXCEPT !.pc = IF o = "silent" THEN "store" ELSE "readOnly",
                            !.ran = Ran(Content(aFs)), !.held = o = "behaved",
                            !.passed = o = "behaved" /\ format /\ (aCap.network => net)])
    /\ UNCHANGED aRows

\* The later probes write beneath what their mode forbids.
laterProbe(pc, next, required) ==
    /\ at.pc = pc
    /\ \E o \in Seen, evidence \in BOOLEAN :
         Attests([at EXCEPT !.pc = next, !.ran = Ran(Content(aFs)),
                            !.passed = @ /\ (required => o \in {"behaved", "silent"} /\ evidence)])
    /\ UNCHANGED aRows
readOnlyProbe == laterProbe("readOnly", "approval", aCap.readOnly)
approvalProbe == laterProbe("approval", "store", aCap.approval)

\* The row holds the configuration's hash and lives for Ttl; the insert may fail.
StoreRow ==
    /\ at.pc = "store" /\ Attests(NoAttest)
    /\ \/ aRows' = Append(aRows, [sha |-> at.sha, ino |-> at.ino, cfg |-> at.cfg, passed |-> at.passed,
                                  made |-> aNow, ran |-> at.ran, held |-> at.held])
       \/ UNCHANGED aRows

----------------------------------------------------------------------------
(* enforceContainment: the run resolves a handle, under the configuration it *)
(* was given, and VerifyHighRiskNative looks that one up. *)

ResolveHandle ==
    /\ aWho.sha = 0 /\ aWho' = [cfg |-> aCfg.hash, sha |-> Content(aFs), ino |-> aFs.path]
    /\ aUse' = 0 /\ UNCHANGED <<aCap, aFs, aCfg, aNow, aLeft, at, aRows>>

RequiredProbesPassed(r) == r.passed

\* Current: the newest row of this identity and configuration.
Subject(r, sha, ino, cfg) == r.sha = sha /\ r.ino = ino /\ r.cfg = cfg
\* Mutant: the oldest matching attestation is taken.
Current_Oldest(sha, ino) ==
    LET S == {i \in DOMAIN aRows : Subject(aRows[i], sha, ino, aWho.cfg)} IN
    IF S = {} THEN 0 ELSE Min(S)

Current(sha, ino) ==
    LET S == {i \in DOMAIN aRows : Subject(aRows[i], sha, ino, aWho.cfg)} IN
    IF S = {} THEN 0 ELSE Max(S)

Honoured(i) ==
    /\ aCap.sandbox /\ aCfg.known /\ i # 0
    /\ aNow < aRows[i].made + Ttl
    /\ RequiredProbesPassed(aRows[i])

VerifyHighRiskNative ==
    /\ aWho.sha # 0
    /\ LET i == Current(aWho.sha, aWho.ino) IN aUse' = IF Honoured(i) THEN i ELSE 0
    /\ UNCHANGED <<aCap, aFs, aCfg, aNow, aLeft, at, aRows, aWho>>

AttestNext == ChangeBinary \/ EditConfig \/ Tick \/ HashBackend \/ StatBackend \/ ProbeVersion
              \/ sandboxProbe \/ readOnlyProbe \/ approvalProbe \/ StoreRow
              \/ ResolveHandle \/ VerifyHighRiskNative

----------------------------------------------------------------------------

\* A native sandbox is relied on only for a backend that declares one and whose
\* identity is known, on a record not yet expired, of the very file the run has
\* resolved and of its configuration, whose every required probe passed and whose sandbox
\* was seen to hold, while no newer record of
\* the same subject exists; and what was probed is what was hashed, unless the
\* file was changed while the attestation was made.
AttestationEarned ==
    aUse # 0 =>
        LET r == aRows[aUse]
            mine(q) == Subject(q, aWho.sha, aWho.ino, aWho.cfg) IN
        /\ aCap.sandbox /\ aCfg.known /\ r.passed /\ r.held
        /\ mine(r) /\ aNow < r.made + Ttl
        /\ \A j \in (aUse + 1)..Len(aRows) : ~mine(aRows[j])
        /\ r.ran = {r.sha} \/ aLeft < MaxChanges
=============================================================================
