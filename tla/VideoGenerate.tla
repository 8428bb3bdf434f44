--------------------------- MODULE VideoGenerate ---------------------------
(***************************************************************************)
(* One generation job of jobs/video.generate.ts: the row of                *)
(* video_generation_jobs, and the runs that deliveries of its queue start. *)
(*                                                                         *)
(* Deliveries are at least once: a retry, a recovery pass and a second     *)
(* worker may each start a run at any moment, beside a run that is still   *)
(* alive.  A run owns the row while claimed_by holds its token; here the   *)
(* token is the run, which may start again once the row names another.     *)
(***************************************************************************)
EXTENDS Naturals

CONSTANTS
    Run,          \* concurrent runs
    MaxTries,     \* MAX_RETRY_ATTEMPTS of withRetry
    MaxFaults     \* bound: deaths of a run, live runs gone quiet, failures not recorded

ASSUME TriesAssumption == MaxTries \in Nat \ {0}
ASSUME FaultsAssumption == MaxFaults \in Nat

NoRun == "no run"
ASSUME RunAssumption == NoRun \notin Run

InFlight == {"queued", "enhancing", "submitting", "generating", "downloading", "transcoding"}
Terminal == {"ready", "failed"}

VARIABLES
    row,        \* the job's row
    run,        \* the runs' local state
    bought,     \* generations the provider has accepted, counted to 2
    buyers,     \* claims that led to one, counted to 2
    published,  \* sections inserted, counted to 2
    faults

vars == <<row, run, bought, buyers, published, faults>>

(* file: whether the claim read a video_file_id; paid: whether the run bought. *)
IdleRun == [pc |-> "idle", file |-> FALSE, tries |-> 0, paid |-> FALSE]
NoRow == [status |-> "none", owner |-> NoRun, attempts |-> 0, quiet |-> FALSE,
          enhanced |-> FALSE, task |-> FALSE, file |-> FALSE, section |-> FALSE]

Status == InFlight \cup Terminal \cup {"none"}
Stage == {"enhancing", "enhanced", "submitting", "submit", "store task", "resume", "poll",
          "store file", "transcoding", "finalise"}
Pc == Stage \cup {"idle", "claim", "poisoned", "failing", "done"}

Row == [status : Status, owner : Run \cup {NoRun}, attempts : 0..2, quiet : BOOLEAN,
        enhanced : BOOLEAN, task : BOOLEAN, file : BOOLEAN, section : BOOLEAN]
RunState == [pc : Pc, file : BOOLEAN, tries : 0..(MaxTries - 1), paid : BOOLEAN]

(* The POST handler: enhanced also stands for enhance_enabled being false. *)
Init ==
    /\ row \in {[NoRow EXCEPT !.status = "queued", !.enhanced = e] : e \in BOOLEAN}
    /\ run = [r \in Run |-> IdleRun]
    /\ bought = 0 /\ buyers = 0 /\ published = 0 /\ faults = 0

Fault == faults < MaxFaults /\ faults' = faults + 1

Count(n) == IF n = 2 THEN 2 ELSE n + 1

GoTo(r, pc) == run' = [run EXCEPT ![r].pc = pc]
End(r) == run' = [run EXCEPT ![r] = IdleRun]

-----------------------------------------------------------------------------
(* The lease. *)

MayClaim_IfUnowned == row.status \in InFlight /\ row.owner = NoRun
MayClaim == row.status \in InFlight /\ (row.owner = NoRun \/ row.quiet)

Poisoned_Never(attempts) == FALSE

(* A run that died between submitting and storing the task id left no handle. *)
Poisoned(attempts) == attempts > 1 /\ row.status = "submitting" /\ ~row.task

Deliver(r) ==
    /\ run[r].pc = "idle" /\ row.owner # r /\ row.status \in InFlight
    /\ GoTo(r, "claim")
    /\ UNCHANGED <<row, bought, buyers, published, faults>>

Claim(r) ==
    LET attempts == Count(row.attempts)
    IN  /\ run[r].pc = "claim"
        /\ IF MayClaim
           THEN /\ row' = [row EXCEPT !.owner = r, !.attempts = attempts, !.quiet = FALSE]
                /\ run' = [run EXCEPT ![r] =
                     [pc |-> IF Poisoned(attempts) THEN "poisoned"
                             ELSE IF row.task THEN "resume"
                             ELSE IF row.enhanced THEN "submitting" ELSE "enhancing",
                      file |-> row.file, tries |-> 0, paid |-> FALSE]]
           ELSE End(r) /\ UNCHANGED row
        /\ UNCHANGED <<bought, buyers, published, faults>>

(* fencedSet: the write of a run that lost its lease changes nothing and ends it. *)
Owns(r) == row.owner = r

FencedSet(r, new, pc) ==
    IF Owns(r)
    THEN row' = [new EXCEPT !.quiet = FALSE] /\ GoTo(r, pc)
    ELSE End(r) /\ UNCHANGED row

Beat(r) ==
    /\ run[r].pc \notin {"idle", "claim", "poisoned"} /\ Owns(r) /\ row.quiet
    /\ row' = [row EXCEPT !.quiet = FALSE]
    /\ UNCHANGED <<run, bought, buyers, published, faults>>

(* VIDEO_GEN_STALE_AFTER_MS without a beat: the owner is gone, or it is alive *)
(* and was held up for as long, which is counted among the faults.           *)
GoQuiet ==
    /\ row.owner # NoRun /\ ~row.quiet
    /\ IF run[row.owner].pc = "idle" THEN UNCHANGED faults ELSE Fault
    /\ row' = [row EXCEPT !.quiet = TRUE]
    /\ UNCHANGED <<run, bought, buyers, published>>

-----------------------------------------------------------------------------
(* The stages of runVideoGenerate. *)

(* The write of a failure may fail itself: it is caught and forgotten. *)
RecordFailed(r) ==
    \/ FencedSet(r, [row EXCEPT !.status = "failed"], "done") /\ UNCHANGED faults
    \/ GoTo(r, "done") /\ Fault /\ UNCHANGED row

Poison(r) ==
    /\ run[r].pc = "poisoned"
    /\ RecordFailed(r)
    /\ UNCHANGED <<bought, buyers, published>>

Enhancing(r) ==
    /\ run[r].pc = "enhancing"
    /\ FencedSet(r, [row EXCEPT !.status = "enhancing"], "enhanced")
    /\ UNCHANGED <<bought, buyers, published, faults>>

Enhanced(r) ==
    /\ run[r].pc = "enhanced"
    /\ FencedSet(r, [row EXCEPT !.status = "submitting", !.enhanced = TRUE], "submit")
    /\ UNCHANGED <<bought, buyers, published, faults>>

Submitting(r) ==
    /\ run[r].pc = "submitting"
    /\ FencedSet(r, [row EXCEPT !.status = "submitting"], "submit")
    /\ UNCHANGED <<bought, buyers, published, faults>>

(* withRetry(submit): the provider accepts or not, and its answer arrives or *)
(* not.  An error that looks transient is tried again.                       *)
Answer(r, accepted, next) ==
    LET tries == IF next = "submit" THEN run[r].tries + 1 ELSE 0
    IN  /\ run[r].pc = "submit"
        /\ next = "store task" => accepted
        /\ tries < MaxTries
        /\ run' = [run EXCEPT ![r] = [run[r] EXCEPT !.pc = next, !.tries = tries,
                                                    !.paid = run[r].paid \/ accepted]]
        /\ bought' = IF accepted THEN Count(bought) ELSE bought
        /\ buyers' = IF accepted /\ ~run[r].paid THEN Count(buyers) ELSE buyers
        /\ UNCHANGED <<row, published, faults>>

Submit(r) ==
    \E accepted \in BOOLEAN, next \in {"submit", "store task", "failing"} :
        Answer(r, accepted, next)

StoreTask(r) ==
    /\ run[r].pc = "store task"
    /\ FencedSet(r, [row EXCEPT !.status = "generating", !.task = TRUE],
                 IF run[r].file THEN "transcoding" ELSE "poll")
    /\ UNCHANGED <<bought, buyers, published, faults>>

Resume(r) ==
    /\ run[r].pc = "resume"
    /\ FencedSet(r, [row EXCEPT !.status = "generating"],
                 IF run[r].file THEN "transcoding" ELSE "poll")
    /\ UNCHANGED <<bought, buyers, published, faults>>

(* The provider reports failure, or nothing for MAX_POLL_ATTEMPTS. *)
GiveUp(r) ==
    /\ run[r].pc = "poll"
    /\ FencedSet(r, [row EXCEPT !.status = "failed"], "done")
    /\ UNCHANGED <<bought, buyers, published, faults>>

Downloading(r) ==
    /\ run[r].pc = "poll"
    /\ FencedSet(r, [row EXCEPT !.status = "downloading"], "store file")
    /\ UNCHANGED <<bought, buyers, published, faults>>

StoreFile(r) ==
    /\ run[r].pc = "store file"
    /\ FencedSet(r, [row EXCEPT !.status = "transcoding", !.file = TRUE], "finalise")
    /\ UNCHANGED <<bought, buyers, published, faults>>

Transcoding(r) ==
    /\ run[r].pc = "transcoding"
    /\ FencedSet(r, [row EXCEPT !.status = "transcoding"], "finalise")
    /\ UNCHANGED <<bought, buyers, published, faults>>

Finalise_WithoutLock(r) ==
    /\ run[r].pc = "finalise" /\ row.status # "none"
    /\ row' = [row EXCEPT !.status = "ready", !.section = TRUE, !.quiet = FALSE]
    /\ published' = Count(published)
    /\ GoTo(r, "done")
    /\ UNCHANGED <<bought, buyers, faults>>

Finalise_TwoWrites(r) ==
    /\ run[r].pc = "finalise" /\ Owns(r)
    /\ row' = IF row.section THEN [row EXCEPT !.status = "ready"] ELSE [row EXCEPT !.section = TRUE]
    /\ published' = IF row.section THEN published ELSE Count(published)
    /\ IF row.section THEN GoTo(r, "done") ELSE UNCHANGED run
    /\ UNCHANGED <<bought, buyers, faults>>

(* The finalising transaction, under the lock of the row: the claim and      *)
(* section_id are read after the wait, and the section and the terminal      *)
(* write commit together.  The answer to the COMMIT may be lost.             *)
Finalise(r) ==
    /\ run[r].pc = "finalise"
    /\ IF Owns(r)
       THEN /\ row' = [row EXCEPT !.status = "ready", !.section = TRUE, !.quiet = FALSE]
            /\ published' = IF row.section THEN published ELSE Count(published)
            /\ \E next \in {"done", "failing"} : GoTo(r, next)
       ELSE /\ IF row.status = "none" THEN GoTo(r, "failing") ELSE End(r)
            /\ UNCHANGED <<row, published, faults>>
    /\ UNCHANGED <<bought, buyers, faults>>

(* Any stage may throw; the handler then records the failure if it still can. *)
Throw(r) ==
    /\ run[r].pc \in Stage \ {"submit"}
    /\ GoTo(r, "failing")
    /\ UNCHANGED <<row, bought, buyers, published, faults>>

RecordFailure(r) ==
    /\ run[r].pc = "failing"
    /\ RecordFailed(r)
    /\ UNCHANGED <<bought, buyers, published>>

Return(r) ==
    /\ run[r].pc = "done"
    /\ End(r)
    /\ UNCHANGED <<row, bought, buyers, published, faults>>

Die(r) ==
    /\ run[r].pc # "idle"
    /\ End(r) /\ Fault
    /\ UNCHANGED <<row, bought, buyers, published>>

-----------------------------------------------------------------------------
(* The user deletes the job, or the published section (section_id SET NULL). *)

DeleteJob ==
    /\ row.status # "none"
    /\ row' = NoRow
    /\ UNCHANGED <<run, bought, buyers, published, faults>>

DeleteSection ==
    /\ row.section
    /\ row' = [row EXCEPT !.section = FALSE]
    /\ UNCHANGED <<run, bought, buyers, published, faults>>

-----------------------------------------------------------------------------
RunStep(r) ==
    \/ Deliver(r) \/ Claim(r) \/ Beat(r) \/ Poison(r)
    \/ Enhancing(r) \/ Enhanced(r) \/ Submitting(r) \/ Submit(r) \/ StoreTask(r) \/ Resume(r)
    \/ GiveUp(r) \/ Downloading(r) \/ StoreFile(r) \/ Transcoding(r) \/ Finalise(r)
    \/ RecordFailure(r) \/ Return(r)

Next ==
    \/ \E r \in Run : RunStep(r) \/ Throw(r) \/ Die(r)
    \/ GoQuiet \/ DeleteJob \/ DeleteSection

Spec == Init /\ [][Next]_vars

(* Deliveries keep coming (queue retries, a recovery pass on every boot), a  *)
(* run that does not die goes on, and time passes for a run that is gone.    *)
(* Beyond MaxFaults nothing else goes wrong.                                 *)
Fairness ==
    /\ WF_vars(GoQuiet /\ run[row.owner].pc = "idle")
    /\ \A r \in Run : WF_vars(RunStep(r))

FairSpec == Spec /\ Fairness

-----------------------------------------------------------------------------
(* Every variable has its type, and a row names a section only once it is    *)
(* terminal: the section and the terminal status are one write.              *)
TypeOK ==
    /\ row \in Row
    /\ row.section => row.status \in Terminal
    /\ run \in [Run -> RunState]
    /\ bought \in 0..2 /\ buyers \in 0..2 /\ published \in 0..2 /\ faults \in 0..MaxFaults

(* One automatic finalisation publishes at most one section, whatever        *)
(* retries, recoveries and superseded runs do, the section's deletion by the *)
(* user and the loss of the answer to the COMMIT included (migration 062).   *)
OneSection == published <= 1

(* A run that was superseded never drags a terminal row back to life.        *)
TerminalIsFinal ==
    [][row.status \in Terminal => row'.status \in Terminal \cup {"none"}]_vars

(* A re-drive never buys what an earlier run may have bought: the un-resumable *)
(* window between submit() and the stored task id ends in one failed row.      *)
RedriveNeverBuysAgain == buyers <= 1

(* While deliveries keep coming, every job that is not deleted ends, however *)
(* often its runs die or seem to.                                            *)
JobEnds == row.status \in InFlight ~> row.status \notin InFlight

(* "would rather ask for one more click than silently buy a second video".   *)
BoughtOnce == bought <= 1
=============================================================================
