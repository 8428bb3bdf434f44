------------------------- MODULE ProjectDuplication -------------------------
(***************************************************************************)
(* The duplication of one source project, of ProjectDuplicationService:    *)
(* the rows of project_duplications, the runs that deliveries of the queue *)
(* start, and the source they read while its owner goes on editing it.     *)
(*                                                                         *)
(* The source is one video: its master and its HLS trees, of which the row *)
(* names one.  A run mints the ids it copies to, so its bytes are its own. *)
(***************************************************************************)
EXTENDS Naturals, Sequences

CONSTANTS
    Job,          \* rows that may be inserted
    Run,          \* concurrent runs
    Tree,         \* HLS run trees of the source video
    FirstTree,    \* the one the row names at the start
    MaxFaults     \* bound: deaths, lost writes and answers, live runs gone quiet

ASSUME TreeAssumption == FirstTree \in Tree
ASSUME FaultsAssumption == MaxFaults \in Nat

NoTree == "no tree"
NoJob == "no job"
ASSUME NamesAssumption == NoTree \notin Tree /\ NoJob \notin Job

VARIABLES
    source,    \* the source project: its video row, and the bytes under its keys
    rows,      \* the rows of project_duplications
    run,       \* the runs' local state
    copies,    \* the projects committed for each row
    faults

vars == <<source, rows, run, copies, faults>>

InFlight == {"queued", "copying", "committing"}
Status == InFlight \cup {"none", "ready", "failed", "gone"}

(* What a run has read and copied: trees is what its own HLS prefix holds. *)
Nothing == [video |-> FALSE, tree |-> NoTree, skip |-> {}, master |-> FALSE, trees |-> {}]
IdleRun == [pc |-> "idle", job |-> NoJob, got |-> Nothing]

Working == {"load", "plan", "copy master", "copy trees", "verify", "committing", "commit"}

Init ==
    /\ source = [project |-> TRUE, video |-> TRUE, tree |-> FirstTree,
                 retired |-> {}, master |-> TRUE, stored |-> {FirstTree}]
    /\ rows = [j \in Job |-> [status |-> "none", quiet |-> FALSE]]
    /\ run = [r \in Run |-> IdleRun]
    /\ copies = [j \in Job |-> <<>>]
    /\ faults = 0

Fault == faults < MaxFaults /\ faults' = faults + 1

GoTo(r, pc) == run' = [run EXCEPT ![r].pc = pc]
Learn(r, pc, got) == run' = [run EXCEPT ![r].pc = pc, ![r].got = got]
Fail(r) == Learn(r, "failing", Nothing)
End(r) == run' = [run EXCEPT ![r] = IdleRun]

SetStatus(j, status) == rows' = [rows EXCEPT ![j] = [status |-> status, quiet |-> FALSE]]
StatusOf(r) == rows[run[r].job].status

-----------------------------------------------------------------------------
(* Requests, and the rows no process is running any more. *)

(* The insert of the POST handler; the partial unique index of migration 056 *)
(* refuses a second row in flight.                                           *)
Insert(j) ==
    /\ source.project /\ rows[j].status = "none"
    /\ \A k \in Job : rows[k].status \notin InFlight
    /\ SetStatus(j, "queued")
    /\ UNCHANGED <<source, run, copies, faults>>

Abandoned_Copying(j) == rows[j].status = "copying" /\ rows[j].quiet

Abandoned(j) == rows[j].status \in InFlight /\ rows[j].quiet

(* sweepAbandonedDuplications, and the compare-and-set of liveDuplicationFor. *)
Reap(j) ==
    /\ Abandoned(j)
    /\ SetStatus(j, "failed")
    /\ UNCHANGED <<source, run, copies, faults>>

Alive(j) == \E r \in Run : run[r].job = j

(* DUPLICATION_STALE_AFTER_MS without a write: the row has no live run, or   *)
(* the run it has was held up for as long, which is counted as a fault.      *)
GoQuiet(j) ==
    /\ rows[j].status \in InFlight /\ ~rows[j].quiet
    /\ IF Alive(j) THEN Fault ELSE UNCHANGED faults
    /\ rows' = [rows EXCEPT ![j].quiet = TRUE]
    /\ UNCHANGED <<source, run, copies>>

(* The heartbeat and the progress write: by id, whoever runs the row. *)
Beat(r) ==
    /\ run[r].pc # "idle" /\ rows[run[r].job].quiet
    /\ rows' = [rows EXCEPT ![run[r].job].quiet = FALSE]
    /\ UNCHANGED <<source, run, copies, faults>>

-----------------------------------------------------------------------------
(* One run. *)

(* A delivery of project_duplicate (the first, a retry, or one to another    *)
(* worker) that gets past the claim, a compare-and-set; others change nothing. *)
Claim(r, j) ==
    /\ run[r].pc = "idle"
    /\ rows[j].status = "queued" \/ Abandoned(j)
    /\ SetStatus(j, "copying")
    /\ run' = [run EXCEPT ![r] = [IdleRun EXCEPT !.pc = "load", !.job = j]]
    /\ UNCHANGED <<source, copies, faults>>

(* loadSnapshot reads the rows first and hls_retired_runs afterwards, in no  *)
(* transaction.                                                              *)
Load(r) ==
    /\ run[r].pc = "load"
    /\ IF source.project
       THEN Learn(r, "plan", [Nothing EXCEPT !.video = source.video, !.tree = source.tree])
       ELSE Fail(r)
    /\ UNCHANGED <<source, rows, copies, faults>>

(* The fence of every write of a run but its last: the row is in flight.  A  *)
(* run whose write changed nothing goes on.                                  *)
Fenced(r, status) ==
    IF StatusOf(r) \in InFlight THEN SetStatus(run[r].job, status) ELSE UNCHANGED rows

Plan(r) ==
    /\ run[r].pc = "plan"
    /\ Learn(r, IF run[r].got.video THEN "copy master" ELSE "committing",
             [run[r].got EXCEPT !.skip = source.retired])
    /\ Fenced(r, "copying")
    /\ UNCHANGED <<source, copies, faults>>

(* A key that names nothing any more fails the run. *)
CopyMaster(r) ==
    /\ run[r].pc = "copy master"
    /\ IF source.master
       THEN Learn(r, "copy trees", [run[r].got EXCEPT !.master = TRUE])
       ELSE Fail(r)
    /\ UNCHANGED <<source, rows, copies, faults>>

Wanted(r) == source.stored \ run[r].got.skip

(* copyPrefix, or copyPrefixExcept: what the source's prefix holds now. *)
CopyTrees(r) ==
    /\ run[r].pc = "copy trees"
    /\ Learn(r, "verify", [run[r].got EXCEPT !.trees = Wanted(r)])
    /\ UNCHANGED <<source, rows, copies, faults>>

(* A prefix whose source is empty by now is taken to have had nothing. *)
Verify(r) ==
    /\ run[r].pc = "verify"
    /\ IF run[r].got.master /\ (Wanted(r) = {} \/ run[r].got.trees # {})
       THEN GoTo(r, "committing") ELSE Fail(r)
    /\ UNCHANGED <<source, rows, copies, faults>>

WriteCommitting(r) ==
    /\ run[r].pc = "committing"
    /\ Fenced(r, "committing") /\ GoTo(r, "commit")
    /\ UNCHANGED <<source, copies, faults>>

NamedTree_Unmapped(got) == got.tree

(* mapStorageKey: a key under an excluded subtree maps to nothing. *)
NamedTree(got) == IF got.tree \in got.skip THEN NoTree ELSE got.tree

Copy(r) == [video |-> run[r].got.video, master |-> run[r].got.master,
            tree |-> NamedTree(run[r].got), trees |-> run[r].got.trees]

MayFinalize_Unfenced(status) == status # "gone"

(* finalizeDuplication's fence asks for the status, not for the run. *)
MayFinalize(status) == status = "committing"

Commit_TwoStatements(r) ==
    /\ run[r].pc = "commit"
    /\ copies' = [copies EXCEPT ![run[r].job] = Append(@, Copy(r))]
    /\ \/ MayFinalize(StatusOf(r)) /\ SetStatus(run[r].job, "ready") /\ End(r)
       \/ Fail(r) /\ UNCHANGED rows
    /\ UNCHANGED <<source, faults>>

(* One transaction: the rows of the copy and the outcome of the request.  The *)
(* answer to its COMMIT may be lost.                                          *)
Commit(r) ==
    /\ run[r].pc = "commit"
    /\ IF MayFinalize(StatusOf(r))
       THEN /\ copies' = [copies EXCEPT ![run[r].job] = Append(@, Copy(r))]
            /\ SetStatus(run[r].job, "ready")
            /\ \/ End(r) /\ UNCHANGED faults
               \/ Fail(r) /\ Fault
       ELSE Fail(r) /\ UNCHANGED <<rows, copies, faults>>
    /\ UNCHANGED source

Throw(r) ==
    /\ run[r].pc \in Working
    /\ Fail(r)
    /\ UNCHANGED <<source, rows, copies, faults>>

(* The catch: the write is fenced, and is forgotten when it fails itself. *)
RecordFailure(r) ==
    /\ run[r].pc = "failing"
    /\ \/ Fenced(r, "failed") /\ UNCHANGED faults
       \/ Fault /\ UNCHANGED rows
    /\ End(r)
    /\ UNCHANGED <<source, copies>>

Die(r) ==
    /\ run[r].pc # "idle"
    /\ End(r) /\ Fault
    /\ UNCHANGED <<source, rows, copies>>

-----------------------------------------------------------------------------
(* The source, meanwhile. *)

Edit(new) == source' = new /\ UNCHANGED <<run, copies, faults>>

(* A transcode publishes a tree; the one it replaces is retired afterwards.   *)
(* The sweep that deletes retired trees waits an hour at least, longer than a *)
(* copy takes, and is left out.                                               *)
Transcode(t) ==
    /\ source.video /\ t \notin source.stored
    /\ Edit([source EXCEPT !.tree = t, !.stored = @ \cup {t}])
    /\ UNCHANGED rows

Retire(t) ==
    /\ source.video /\ t \in source.stored \ (source.retired \cup {source.tree})
    /\ Edit([source EXCEPT !.retired = @ \cup {t}])
    /\ UNCHANGED rows

(* DELETE of the video: its row first, then its bytes one key after another. *)
DeleteVideo ==
    /\ source.video
    /\ Edit([source EXCEPT !.video = FALSE, !.tree = NoTree])
    /\ UNCHANGED rows

DeleteBytes ==
    /\ ~source.video
    /\ \/ source.master /\ Edit([source EXCEPT !.master = FALSE])
       \/ \E t \in source.stored :
             Edit([source EXCEPT !.stored = @ \ {t}, !.retired = @ \ {t}])
    /\ UNCHANGED rows

(* DELETE of the project: its rows and, by cascade, those of its requests. *)
DeleteProject ==
    /\ source.project
    /\ Edit([source EXCEPT !.project = FALSE, !.video = FALSE, !.tree = NoTree])
    /\ rows' = [j \in Job |-> [status |-> "gone", quiet |-> FALSE]]

-----------------------------------------------------------------------------
RunStep(r) ==
    \/ Load(r) \/ Plan(r) \/ CopyMaster(r) \/ CopyTrees(r) \/ Verify(r)
    \/ WriteCommitting(r) \/ Commit(r) \/ RecordFailure(r)

Next ==
    \/ \E j \in Job : Insert(j) \/ Reap(j) \/ GoQuiet(j) \/ \E r \in Run : Claim(r, j)
    \/ \E r \in Run : RunStep(r) \/ Beat(r) \/ Throw(r) \/ Die(r)
    \/ \E t \in Tree : Transcode(t) \/ Retire(t)
    \/ DeleteVideo \/ DeleteBytes \/ DeleteProject

Spec == Init /\ [][Next]_vars

(* A run that does not die goes on, time passes for a row without one, and   *)
(* the reaper's timer keeps firing.  Nothing is assumed of deliveries: the   *)
(* inline driver makes one, and makes none after a restart.                  *)
Fairness ==
    /\ \A r \in Run : WF_vars(RunStep(r))
    /\ \A j \in Job : WF_vars(GoQuiet(j) /\ ~Alive(j)) /\ WF_vars(Reap(j))

FairSpec == Spec /\ Fairness

-----------------------------------------------------------------------------
(* Every variable has its type, and a project exists for a request only once *)
(* its row says so: one transaction writes the two.                          *)
TypeOK ==
    /\ source \in [project : BOOLEAN, video : BOOLEAN, tree : Tree \cup {NoTree},
                   retired : SUBSET Tree, master : BOOLEAN, stored : SUBSET Tree]
    /\ rows \in [Job -> [status : Status, quiet : BOOLEAN]]
    /\ run \in [Run -> [pc : Working \cup {"idle", "failing"}, job : Job \cup {NoJob},
                        got : [video : BOOLEAN, tree : Tree \cup {NoTree}, skip : SUBSET Tree,
                               master : BOOLEAN, trees : SUBSET Tree]]]
    /\ \A r \in Run : run[r].pc = "idle" <=> run[r].job = NoJob
    /\ copies \in [Job -> Seq([video : BOOLEAN, master : BOOLEAN, tree : Tree \cup {NoTree},
                               trees : SUBSET Tree])]
    /\ \A j \in Job : copies[j] # <<>> => rows[j].status \in {"ready", "gone"}
    /\ faults \in 0..MaxFaults

(* While the owner keeps the source video, every copy holds the bytes that   *)
(* its rows name, whatever was transcoded and retired while it was made.     *)
CopiesOfAKeptVideoAreWhole ==
    source.video => \A j \in Job : \A i \in DOMAIN copies[j] :
        LET c == copies[j][i] IN (c.video => c.master) /\ (c.tree # NoTree => c.tree \in c.trees)

(* "Nothing was created" is a promise: takeovers, reaped and superseded runs, *)
(* lost answers and the deletion of the source included, a request makes one  *)
(* project in the step that answers it "ready", and none otherwise.           *)
Promise == INSTANCE CopyPromise WITH
    answer <- [j \in Job |-> IF rows[j].status \in InFlight THEN "open" ELSE rows[j].status],
    made <- [j \in Job |-> Len(copies[j])]

KeepsThePromise == Promise!Spec

(* A request is answered even if every run of it dies, so that its row stops *)
(* blocking the project.                                                     *)
EveryRequestIsAnswered ==
    \A j \in Job : rows[j].status \in InFlight ~> rows[j].status \notin InFlight
=============================================================================
