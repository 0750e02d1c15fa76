----------------------------- MODULE RunOutcome -----------------------------
(***************************************************************************)
(* What a governed run promises its operator, without saying how: of the   *)
(* live root, that it changes only on the strength of a proof, under the   *)
(* run's own process, and comes back unless the run is accepted or says it *)
(* could not bring it back; of the run's row in the ledger, what each      *)
(* status lets a reader conclude.  RunPipeline is shown to implement it.   *)
(***************************************************************************)

VARIABLES
  alive,     \* the run's process: "yes", "no"
  proof,     \* the agent is extinct and its work passed the final barrier
  place,     \* the live root, see Places
  decision,  \* the run's own verdict: "none", "accepted", "rejected"
  ledger     \* the run's row, see Rows

outcome == <<alive, proof, place, decision, ledger>>

(* untouched; being changed; holding the run's work; holding it for good;  *)
(* changed and impossible to restore; reverted by an operator.             *)
Places == {"untouched", "changing", "holds", "committed", "stuck", "undone"}

(* no row; under way; accepted; refused, quarantined or abandoned;         *)
(* committed, with a ledger that is behind; rolled back.                   *)
Rows == {"none", "open", "approved", "closed", "pending", "rolledBack"}

OutcomeInit ==
  /\ alive = "yes" /\ proof = "no" /\ place = "untouched"
  /\ decision = "none" /\ ledger = "none"

-----------------------------------------------------------------------------
(* The live root                                                           *)

Move(from, to) ==
  /\ place \in from /\ place' = to
  /\ UNCHANGED <<alive, proof, decision, ledger>>

Prove ==
  /\ alive = "yes" /\ place = "untouched" /\ ledger = "open" /\ decision = "none"
  /\ proof = "no" /\ proof' = "yes"
  /\ UNCHANGED <<alive, place, decision, ledger>>

(* Only a living, proven and undecided run moves the root forward.         *)
Forward ==
  /\ alive = "yes" /\ proof = "yes" /\ decision = "none"
  /\ \/ Move({"untouched"}, "changing")
     \/ Move({"changing"}, "holds")
     \/ Move({"holds"}, "committed")

(* It goes back under the same process, and never once committed.          *)
TakeBack ==
  /\ alive = "yes" /\ decision = "none"
  /\ Move({"changing", "holds"}, "untouched") \/ Move({"changing", "holds"}, "stuck")

(* `gov run rollback` is for an approved run whose process is gone.        *)
Undo ==
  /\ alive = "no" /\ ledger = "approved"
  /\ Move({"holds", "committed"}, "undone")

-----------------------------------------------------------------------------
(* The verdict, the row and the end of the process                         *)

Decide ==
  /\ alive = "yes" /\ decision = "none"
  /\ \/ decision' = "accepted" /\ proof = "yes" /\ place \in {"holds", "committed"}
     \/ decision' = "rejected" /\ place \in {"untouched", "stuck"}
  /\ UNCHANGED <<alive, proof, place, ledger>>

Write(status) ==
  /\ ledger' = status
  /\ UNCHANGED <<alive, proof, place, decision>>

Open == alive = "yes" /\ ledger = "none" /\ decision = "none" /\ Write("open")

Approve == decision = "accepted" /\ place \in {"holds", "committed"} /\ Write("approved")

(* The process itself closes a run only if the root is untouched or stuck; *)
(* a recovery, once it is gone, whatever the root holds.                   *)
Close == (alive = "yes" => place \in {"untouched", "stuck"}) /\ Write("closed")

(* A committed root whose ledger could not be finished.                    *)
Defer == place = "committed" /\ decision = "accepted" /\ Write("pending")

RollBack == place = "undone" /\ Write("rolledBack")

End ==
  /\ alive = "yes" /\ alive' = "no"
  /\ UNCHANGED <<proof, place, decision, ledger>>

OutcomeNext ==
  \/ Prove \/ Forward \/ TakeBack \/ Undo
  \/ Decide \/ Open \/ Approve \/ Close \/ Defer \/ RollBack \/ End

OutcomeSpec == OutcomeInit /\ [][OutcomeNext]_outcome

=============================================================================
