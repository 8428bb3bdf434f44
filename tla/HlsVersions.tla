---------------------------- MODULE HlsVersions ----------------------------
(***************************************************************************)
(* The HLS trees of one video: its row in video_files, the runs of         *)
(* runVideoTranscode, the trees they write and retire, the sweep that      *)
(* deletes retired trees after a grace period, and the viewers who play    *)
(* them.                                                                   *)
(*                                                                         *)
(* A run writes one fresh tree, which bears its name.  Nothing claims the  *)
(* row: a second worker, an expired delivery or the inline driver may run  *)
(* two transcodes of the video side by side.                               *)
(***************************************************************************)
EXTENDS Naturals

CONSTANTS
    Run,          \* the transcodes that may be started, each once
    Viewer,
    MaxMedia,     \* bound: media uploaded onto this video
    Mishap        \* what may go wrong, see below

ASSUME MediaAssumption == MaxMedia \in Nat \ {0}

(* answer: a write commits and its answer is lost; send: the queue does not  *)
(* take a job; delivery: it loses one; overlap: two runs at once; stall: a    *)
(* live run is not heard of; beat: one that is over still is.  Bound: one     *)
(* kind in a behaviour, any number of times.                                  *)
ASSUME MishapAssumption ==
    Mishap \subseteq {"answer", "send", "delivery", "overlap", "stall", "beat"}

NoTree == "no tree"
ASSUME RunAssumption == NoTree \notin Run

VARIABLES
    row,        \* the video's row; quiet: no beat for HLS_STALE_AFTER_MS
    run,        \* the runs' local state
    waiting,    \* a transcode of this video waits in the queue
    stored,     \* trees with bytes in storage
    retired,    \* hls_retired_runs, one state for each tree
    viewer,     \* the tree a viewer plays, and whether it was retired before
    mishap      \* what has gone wrong so far

vars == <<row, run, waiting, stored, retired, viewer, mishap>>

Active == {"begin", "encode", "ladder", "retire old", "failing", "retire own"}

(* early: this run knows that it wrote hls_360p_key. *)
NewRun == [pc |-> "new", media |-> 1, old |-> NoTree, early |-> FALSE]
NotWatching == [tree |-> NoTree, late |-> FALSE]

Row == [media : 1..MaxMedia, status : {"pending", "processing", "ready", "failed"},
        master : Run \cup {NoTree}, early : Run \cup {NoTree}, quiet : BOOLEAN]

(* finalizeUpload of a first upload. *)
Init ==
    /\ row = [media |-> 1, status |-> "pending", master |-> NoTree, early |-> NoTree,
              quiet |-> FALSE]
    /\ run = [r \in Run |-> NewRun]
    /\ \/ waiting = TRUE /\ mishap = "none"
       \/ waiting = FALSE /\ mishap \in Mishap \cap {"send"}
    /\ stored = {} /\ retired = [t \in Run |-> "no"]
    /\ viewer = [v \in Viewer |-> NotWatching]

Suffer(m) == m \in Mishap /\ mishap \in {"none", m} /\ mishap' = m

GoTo(r, pc) == run' = [run EXCEPT ![r].pc = pc]
EndAs(r, pc) == run' = [run EXCEPT ![r] = [NewRun EXCEPT !.pc = pc, !.media = run[r].media]]
End(r) == EndAs(r, "done")
SomeoneRuns == \E r \in Run : run[r].pc \in Active

(* Of an orphan only the heartbeat is left. *)
BeatOutlivesRun == \E r \in Run : run[r].pc = "orphan"

(* The singleton key collapses the jobs that wait, and only those; a send    *)
(* that fails is logged, for a transcode is never run in the API.            *)
Send_UnlessActive ==
    \/ waiting' = (waiting \/ ~SomeoneRuns) /\ UNCHANGED mishap
    \/ UNCHANGED waiting /\ Suffer("send")

Send ==
    \/ waiting' = TRUE /\ UNCHANGED mishap
    \/ UNCHANGED waiting /\ Suffer("send")

-----------------------------------------------------------------------------
(* The routes of the video controller. *)

(* Bound: a run is left for what is asked. *)
RunLeft == \E r \in Run : run[r].pc = "new"

(* REPLACE of finalizeUpload: the media is swapped, its HLS pointers stay. *)
Replace ==
    /\ row.media < MaxMedia /\ RunLeft
    /\ row' = [row EXCEPT !.media = @ + 1, !.status = "pending"]
    /\ Send
    /\ UNCHANGED <<run, stored, retired, viewer>>

(* The operator's retranscode forgets the pointers, and the tree they named. *)
Retranscode ==
    /\ RunLeft
    /\ row' = [row EXCEPT !.status = "pending", !.master = NoTree, !.early = NoTree,
                          !.quiet = FALSE]
    /\ Send
    /\ UNCHANGED <<run, stored, retired, viewer>>

Play == IF row.master # NoTree THEN row.master ELSE row.early

(* buildPlayerConfig: the master, or else the early tier. *)
Load(v) ==
    /\ viewer[v].tree = NoTree /\ Play # NoTree
    /\ viewer' = [viewer EXCEPT ![v] = [tree |-> Play, late |-> retired[Play] # "no"]]
    /\ UNCHANGED <<row, run, waiting, stored, retired, mishap>>

Leave(v) ==
    /\ viewer[v].tree # NoTree
    /\ viewer' = [viewer EXCEPT ![v] = NotWatching]
    /\ UNCHANGED <<row, run, waiting, stored, retired, mishap>>

-----------------------------------------------------------------------------
(* One run of runVideoTranscode. *)

Start(r) ==
    /\ run[r].pc = "new" /\ waiting
    /\ IF SomeoneRuns THEN Suffer("overlap") ELSE UNCHANGED mishap
    /\ waiting' = FALSE
    /\ run' = [run EXCEPT ![r] =
         [pc |-> "begin", media |-> row.media, old |-> row.master, early |-> FALSE]]
    /\ UNCHANGED <<row, stored, retired, viewer>>

Processing(r) ==
    /\ run[r].pc = "begin"
    /\ row' = [row EXCEPT !.status = "processing", !.quiet = FALSE]
    /\ GoTo(r, "encode")
    /\ UNCHANGED <<waiting, stored, retired, viewer, mishap>>

(* The source is downloaded, and the first tier, 360p, is uploaded and named: *)
(* a tree no pointer has named yet is nobody's but its run's.                *)
Publish(r) ==
    /\ run[r].pc = "encode"
    /\ stored' = stored \cup {r}
    /\ row' = [row EXCEPT !.early = r]
    /\ \/ run' = [run EXCEPT ![r].pc = "ladder", ![r].early = TRUE] /\ UNCHANGED mishap
       \/ GoTo(r, "failing") /\ Suffer("answer")
    /\ UNCHANGED <<waiting, retired, viewer>>

(* The remaining tiers are up: the pointer flips. *)
Flip(r) ==
    /\ run[r].pc = "ladder"
    /\ row' = [row EXCEPT !.status = "ready", !.master = r, !.quiet = FALSE]
    /\ \/ GoTo(r, "retire old") /\ UNCHANGED mishap
       \/ GoTo(r, "failing") /\ Suffer("answer")
    /\ UNCHANGED <<waiting, stored, retired, viewer>>

(* retireHlsRun is idempotent, and its failure is logged: the tree leaks. *)
RetireTree(t) ==
    \/ retired' = IF t # NoTree /\ retired[t] = "no" THEN [retired EXCEPT ![t] = "kept"] ELSE retired
    \/ UNCHANGED retired

RetireOld_AsNamedNow(r) ==
    /\ run[r].pc = "retire old"
    /\ RetireTree(row.master) /\ End(r)
    /\ UNCHANGED <<row, waiting, stored, viewer, mishap>>

RetireOld_Early(r) ==
    /\ run[r].pc = "retire old"
    /\ RetireTree(IF row.early = r THEN run[r].old ELSE row.early) /\ End(r)
    /\ UNCHANGED <<row, waiting, stored, viewer, mishap>>

RetireOld(r) ==
    /\ run[r].pc = "retire old"
    /\ RetireTree(run[r].old) /\ End(r)
    /\ UNCHANGED <<row, waiting, stored, viewer, mishap>>

(* Between the start of the heartbeat and the try whose finally stops it     *)
(* stands mkdtemp.  If that throws, the run is over and its heartbeat is not. *)
WorkDirFails(r) ==
    /\ run[r].pc = "encode"
    /\ EndAs(r, "orphan") /\ waiting' \in {waiting, TRUE}
    /\ Suffer("beat")
    /\ UNCHANGED <<row, stored, retired, viewer>>

(* Anything inside the try throws. *)
Throw(r) ==
    /\ run[r].pc \in {"encode", "ladder"}
    /\ GoTo(r, "failing")
    /\ UNCHANGED <<row, waiting, stored, retired, viewer, mishap>>

(* The catch: this run's early pointer goes first, then its tree is retired. *)
(* A write that fails ends the run there and then.                           *)
WriteFailure(r) ==
    /\ run[r].pc = "failing"
    /\ \/ /\ row' = [row EXCEPT !.status = "failed", !.quiet = FALSE,
                                !.early = IF run[r].early THEN NoTree ELSE @]
          /\ GoTo(r, "retire own") /\ UNCHANGED waiting
       \/ UNCHANGED row /\ End(r) /\ waiting' \in {waiting, TRUE}
    /\ UNCHANGED <<stored, retired, viewer, mishap>>

(* A delivery that failed may be repeated, after a delay. *)
RetireOwn(r) ==
    /\ run[r].pc = "retire own"
    /\ IF r \in stored THEN RetireTree(r) ELSE UNCHANGED retired
    /\ End(r) /\ waiting' \in {waiting, TRUE}
    /\ UNCHANGED <<row, stored, viewer, mishap>>

(* The process dies, or the first write throws: the queue repeats the        *)
(* delivery, or, on the inline driver or out of retries, it does not.        *)
Die(r) ==
    /\ run[r].pc \in Active
    /\ End(r)
    /\ waiting' \in {waiting, TRUE}
    /\ IF run[r].pc = "begin" THEN Suffer("delivery") ELSE UNCHANGED mishap
    /\ UNCHANGED <<row, stored, retired, viewer>>

(* The process of an orphan stops, some day. *)
Restart(r) ==
    /\ run[r].pc = "orphan" /\ End(r)
    /\ UNCHANGED <<row, waiting, stored, retired, viewer, mishap>>

(* A delivery is repeated while its first run is still alive. *)
Expire ==
    /\ SomeoneRuns /\ ~waiting
    /\ "overlap" \in Mishap
    /\ waiting' = TRUE
    /\ UNCHANGED <<row, run, stored, retired, viewer, mishap>>

-----------------------------------------------------------------------------
(* The heartbeat and the reaper of hlsRecovery. *)

Beat(r) ==
    /\ run[r].pc \in (Active \ {"begin"}) \cup {"orphan"}
    /\ row.status = "processing" /\ row.quiet
    /\ row' = [row EXCEPT !.quiet = FALSE]
    /\ UNCHANGED <<run, waiting, stored, retired, viewer, mishap>>

GoQuiet ==
    /\ row.status = "processing" /\ ~row.quiet
    /\ IF SomeoneRuns \/ BeatOutlivesRun THEN Suffer("stall") ELSE UNCHANGED mishap
    /\ row' = [row EXCEPT !.quiet = TRUE]
    /\ UNCHANGED <<run, waiting, stored, retired, viewer>>

Stuck_AtBoot == row.quiet /\ ~SomeoneRuns /\ row.early = NoTree

Stuck == row.status = "processing" /\ row.quiet

Reap ==
    /\ Stuck
    /\ row' = [row EXCEPT !.status = "failed", !.quiet = FALSE]
    /\ UNCHANGED <<run, waiting, stored, retired, viewer, mishap>>

-----------------------------------------------------------------------------
(* Retention: no session outlives the grace period of a tree it was given    *)
(* before that tree was retired.                                             *)

Due_AtOnce(t) == retired[t] = "kept"

Due(t) ==
    /\ retired[t] = "kept"
    /\ \A v \in Viewer : viewer[v].tree = t => viewer[v].late

Ripen(t) ==
    /\ Due(t)
    /\ retired' = [retired EXCEPT ![t] = "due"]
    /\ UNCHANGED <<row, run, waiting, stored, viewer, mishap>>

(* sweepRetiredHlsRuns, which does not look at the row of the video: the     *)
(* bytes, until that succeeds.  The mark that follows changes nothing else.  *)
Sweep(t) ==
    /\ retired[t] = "due" /\ t \in stored
    /\ stored' = stored \ {t}
    /\ UNCHANGED <<row, run, waiting, retired, viewer, mishap>>

-----------------------------------------------------------------------------
RunStep(r) ==
    \/ Processing(r) \/ Publish(r) \/ Flip(r)
    \/ RetireOld(r) \/ WriteFailure(r) \/ RetireOwn(r)

Next ==
    \/ Replace \/ Retranscode \/ Expire \/ GoQuiet \/ Reap
    \/ \E r \in Run : \/ Start(r) \/ RunStep(r) \/ WorkDirFails(r) \/ Throw(r)
                      \/ Die(r) \/ Restart(r) \/ Beat(r)
    \/ \E v \in Viewer : Load(v) \/ Leave(v)
    \/ \E t \in Run : Ripen(t) \/ Sweep(t)

Spec == Init /\ [][Next]_vars

(* A run that does not die goes on, workers take what waits, time passes for *)
(* a row nobody beats for, and the reaper's timer keeps firing.  No process  *)
(* has to stop.                                                              *)
Fairness ==
    /\ \A r \in Run : WF_vars(RunStep(r)) /\ WF_vars(Start(r) /\ ~SomeoneRuns)
    /\ WF_vars(GoQuiet /\ ~SomeoneRuns /\ ~BeatOutlivesRun) /\ WF_vars(Reap)

FairSpec == Spec /\ Fairness

-----------------------------------------------------------------------------
(* Every variable has its type, and no tree is retired while its own run     *)
(* still writes it.                                                          *)
TypeOK ==
    /\ row \in Row
    /\ run \in [Run -> [pc : Active \cup {"new", "done", "orphan"}, media : 1..MaxMedia,
                        old : Run \cup {NoTree}, early : BOOLEAN]]
    /\ waiting \in BOOLEAN
    /\ stored \in SUBSET Run
    /\ retired \in [Run -> {"no", "kept", "due"}]
    /\ \A t \in Run : retired[t] # "no" => run[t].pc \notin {"new", "begin", "encode", "ladder"}
    /\ viewer \in [Viewer -> [tree : Run \cup {NoTree}, late : BOOLEAN]]
    /\ mishap \in Mishap \cup {"none"}

(* No viewer's tree, and no tree the row would give the next viewer, is      *)
(* deleted: overlapping runs, failures at any point, deaths, replacements    *)
(* and retranscodes included, as long as no answer to a write is lost.       *)
Offered == {row.master, row.early} \ {NoTree}
Watched == {viewer[v].tree : v \in Viewer} \ {NoTree}

PlayedTreesAreStored == mishap # "answer" => Offered \cup Watched \subseteq stored

(* When runs do not overlap and the queue loses nothing, a video at rest     *)
(* that claims to be ready plays the media it was last given.                *)
ReadyIsCurrent ==
    /\ mishap \notin {"send", "delivery", "overlap"}
    /\ ~SomeoneRuns /\ ~waiting /\ row.status = "ready"
    => row.master # NoTree /\ run[row.master].media = row.media

(* Whatever dies, every upload, replacement and retranscode is decided, and  *)
(* the row says so: unless the queue lost the job, a heartbeat outlives its  *)
(* run, or (bound) overlapping runs have used up those of the instance.      *)
InProgress == row.status \in {"pending", "processing"}

EveryRequestIsDecided ==
    InProgress ~> \/ ~InProgress \/ BeatOutlivesRun
                  \/ mishap \in {"send", "delivery", "overlap"}

(* hlsRecovery.ts promises a user watching a spinner "a truthful answer in   *)
(* minutes instead of never", for silence "means the writer is gone".  It    *)
(* may be gone without silence: the heartbeat of an orphan keeps the row.    *)
Abandoned == row.status = "processing" /\ ~SomeoneRuns /\ ~waiting

AbandonedRowsAreReaped == Abandoned ~> ~Abandoned

(* "Refusing does not lose the work": "the row keeps its own non-terminal    *)
(* status" and "a recovery sweep will re-drive it".                          *)
PendingIsDriven == row.status = "pending" ~> row.status # "pending"
=============================================================================
