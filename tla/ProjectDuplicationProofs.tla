---------------------- MODULE ProjectDuplicationProofs ----------------------
(***************************************************************************)
(* Proofs about ProjectDuplication, for any number of requests, runs,      *)
(* trees and faults.                                                       *)
(*                                                                         *)
(* The commit writes a copy and "ready" together, and only over            *)
(* "committing"; every other write to a row starts from a status in        *)
(* flight.  Hence a request with a copy is over, whoever runs it still.    *)
(***************************************************************************)
EXTENDS ProjectDuplication, TLAPS

Source == [project : BOOLEAN, video : BOOLEAN, tree : Tree \cup {NoTree},
           retired : SUBSET Tree, master : BOOLEAN, stored : SUBSET Tree]
RowState == [status : Status, quiet : BOOLEAN]
Got == [video : BOOLEAN, tree : Tree \cup {NoTree}, skip : SUBSET Tree,
        master : BOOLEAN, trees : SUBSET Tree]
RunState == [pc : Working \cup {"idle", "failing"}, job : Job \cup {NoJob}, got : Got]
CopyState == [video : BOOLEAN, master : BOOLEAN, tree : Tree \cup {NoTree}, trees : SUBSET Tree]

(* A row that has made its copy is over. *)
RowOK(j) ==
    /\ copies[j] # <<>> => rows[j].status \in {"ready", "gone"}
    /\ rows[j].status = "ready" => Len(copies[j]) = 1
    /\ Len(copies[j]) <= 1

RunOK(r) == run[r].pc = "idle" <=> run[r].job = NoJob

Core ==
    /\ source \in Source
    /\ rows \in [Job -> RowState]
    /\ run \in [Run -> RunState]
    /\ copies \in [Job -> Seq(CopyState)]
    /\ faults \in 0..MaxFaults
    /\ \A j \in Job : RowOK(j)
    /\ \A r \in Run : RunOK(r)

-----------------------------------------------------------------------------
(* The ways a step moves a run. *)
LEMMA Statuses ==
    /\ InFlight \subseteq Status
    /\ \A st : st \in InFlight <=> st \in {"queued", "copying", "committing"}
    /\ "none" \notin InFlight /\ "ready" \notin InFlight
    /\ "failed" \notin InFlight /\ "gone" \notin InFlight
    /\ {"none", "ready", "failed", "gone"} \subseteq Status
BY DEF InFlight, Status

LEMMA NothingIsGot == Nothing \in Got /\ IdleRun \in RunState
BY DEF Nothing, Got, IdleRun, RunState

(* The field updates by which a run records what it has learnt. *)
LEMMA GotUpdates ==
    ASSUME NEW g \in Got, NEW s \in SUBSET Tree
    PROVE  /\ [g EXCEPT !.skip = s] \in Got /\ [g EXCEPT !.trees = s] \in Got
           /\ [g EXCEPT !.master = TRUE] \in Got
<1>1. [g EXCEPT !.skip = s] \in Got
    BY DEF Got
<1>2. [g EXCEPT !.trees = s] \in Got
    BY DEF Got
<1>3. [g EXCEPT !.master = TRUE] \in Got
    BY DEF Got
<1> QED BY <1>1, <1>2, <1>3

LEMMA CoreParts ==
    ASSUME Core, NEW r \in Run
    PROVE  /\ run[r].got \in Got /\ Wanted(r) \in SUBSET Tree
           /\ source.retired \in SUBSET Tree /\ source.stored \in SUBSET Tree
<1>1. run[r].got \in Got
    BY DEF Core, RunState
<1>2. source.retired \in SUBSET Tree /\ source.stored \in SUBSET Tree
    BY DEF Core, Source
<1> QED BY <1>1, <1>2 DEF Wanted

Moves(r, pc, job, got) ==
    /\ run' \in [Run -> RunState]
    /\ run'[r].pc = pc /\ run'[r].job = job /\ run'[r].got = got
    /\ \A s \in Run \ {r} : run'[s] = run[s]

LEMMA LearnMoves ==
    ASSUME Core, NEW r \in Run, NEW pc \in Working \cup {"idle", "failing"}, NEW got \in Got,
           Learn(r, pc, got)
    PROVE  Moves(r, pc, run[r].job, got)
<1>1. run' = [run EXCEPT ![r] = [run[r] EXCEPT !.pc = pc, !.got = got]]
    BY DEF Learn, Core
<1> DEFINE rec == [run[r] EXCEPT !.pc = pc, !.got = got]
<1>2. rec \in RunState /\ rec.pc = pc /\ rec.job = run[r].job /\ rec.got = got
    BY DEF Core, RunState
<1> HIDE DEF rec
<1> QED BY <1>1, <1>2 DEF Core, Moves, rec

LEMMA GoToMoves ==
    ASSUME Core, NEW r \in Run, NEW pc \in Working \cup {"idle", "failing"}, GoTo(r, pc)
    PROVE  Moves(r, pc, run[r].job, run[r].got)
<1>1. run' = [run EXCEPT ![r] = [run[r] EXCEPT !.pc = pc]]
    BY DEF GoTo, Core
<1> DEFINE rec == [run[r] EXCEPT !.pc = pc]
<1>2. rec \in RunState /\ rec.pc = pc /\ rec.job = run[r].job /\ rec.got = run[r].got
    BY DEF Core, RunState
<1> HIDE DEF rec
<1> QED BY <1>1, <1>2 DEF Core, Moves, rec

LEMMA EndMoves ==
    ASSUME Core, NEW r \in Run, End(r)
    PROVE  Moves(r, "idle", NoJob, Nothing)
<1>1. IdleRun.pc = "idle" /\ IdleRun.job = NoJob /\ IdleRun.got = Nothing
    BY DEF IdleRun
<1> QED BY <1>1, NothingIsGot DEF Core, End, Moves

LEMMA FailMoves ==
    ASSUME Core, NEW r \in Run, Fail(r)
    PROVE  Moves(r, "failing", run[r].job, Nothing)
BY NothingIsGot, LearnMoves DEF Fail

LEMMA MovesOK ==
    ASSUME Core, NEW r \in Run, NEW pc, NEW job, NEW got, Moves(r, pc, job, got),
           pc = "idle" <=> job = NoJob
    PROVE  run' \in [Run -> RunState] /\ \A s \in Run : RunOK(s)'
BY DEF Core, Moves, RunOK

-----------------------------------------------------------------------------
(* The ways a step moves the rows, with what they are in terms of the promise. *)
Answers == [j \in Job |-> IF rows[j].status \in InFlight THEN "open" ELSE rows[j].status]
Made == [j \in Job |-> Len(copies[j])]

StayRows ==
    /\ rows' \in [Job -> RowState] /\ copies' = copies
    /\ \A j \in Job : \/ rows'[j].status = rows[j].status
                      \/ rows[j].status \in InFlight /\ rows'[j].status \in InFlight

LEMMA StayOK ==
    ASSUME Core, StayRows
    PROVE  (\A j \in Job : RowOK(j)') /\ UNCHANGED Promise!promise
<1>1. ASSUME NEW j \in Job PROVE RowOK(j)'
    BY Statuses DEF Core, StayRows, RowOK
<1>2. Answers' = Answers /\ Made' = Made
    BY DEF StayRows, Answers, Made
<1> QED BY <1>1, <1>2 DEF Promise!promise, Answers, Made

LEMMA SetStatusFacts ==
    ASSUME Core, NEW j \in Job, NEW st \in Status, SetStatus(j, st)
    PROVE  /\ rows' \in [Job -> RowState] /\ rows'[j].status = st
           /\ \A k \in Job \ {j} : rows'[k] = rows[k]
<1>1. [status |-> st, quiet |-> FALSE] \in RowState
    BY DEF RowState
<1> QED BY <1>1 DEF Core, SetStatus

(* One row is answered, and at most a copy is made with the answer. *)
LEMMA AnswerOK ==
    ASSUME Core, NEW j \in Job, NEW from, NEW to, Answers[j] = from,
           rows' \in [Job -> RowState], Answers'[j] = to,
           \A k \in Job \ {j} : rows'[k] = rows[k]
    PROVE  Promise!Answer(j, from, to)
<1>1. Answers' = [Answers EXCEPT ![j] = to]
    BY DEF Answers
<1> QED BY <1>1 DEF Promise!Answer, Answers

LEMMA DeclineOK ==
    ASSUME Core, NEW j \in Job, rows[j].status \in InFlight, SetStatus(j, "failed"),
           copies' = copies
    PROVE  /\ rows' \in [Job -> RowState]
           /\ \A k \in Job : RowOK(k)'
           /\ Promise!Next
<1>1. /\ rows' \in [Job -> RowState] /\ rows'[j].status = "failed"
      /\ \A k \in Job \ {j} : rows'[k] = rows[k]
    BY SetStatusFacts, Statuses
<1>2. ASSUME NEW k \in Job PROVE RowOK(k)'
    BY <1>1, Statuses DEF Core, RowOK
<1>3. Answers[j] = "open" /\ Answers'[j] = "failed"
    BY <1>1, Statuses DEF Answers
<1>4. Promise!Decline(j)
    BY <1>1, <1>3, AnswerOK DEF Promise!Decline
<1> QED BY <1>1, <1>2, <1>4 DEF Promise!Next

(* A fenced write of a run keeps the answer, unless it is "failed". *)
LEMMA FencedOK ==
    ASSUME Core, NEW r \in Run, run[r].pc # "idle", NEW st \in InFlight \cup {"failed"},
           Fenced(r, st), copies' = copies
    PROVE  /\ rows' \in [Job -> RowState]
           /\ \A k \in Job : RowOK(k)'
           /\ [Promise!Next]_(Promise!promise)
<1>1. run[r].job \in Job
    BY DEF Core, RunOK, RunState
<1>2. CASE StatusOf(r) \in InFlight /\ st = "failed"
    BY <1>1, <1>2, DeclineOK DEF Fenced, StatusOf
<1>3. CASE StatusOf(r) \in InFlight /\ st \in InFlight
    <2>1. StayRows
        BY <1>1, <1>3, SetStatusFacts, Statuses DEF Fenced, StatusOf, StayRows
    <2> QED BY <2>1, StayOK DEF StayRows
<1>4. CASE StatusOf(r) \notin InFlight
    <2>1. StayRows
        BY <1>4 DEF Fenced, Core, StayRows
    <2> QED BY <2>1, StayOK DEF StayRows
<1> QED BY <1>2, <1>3, <1>4

-----------------------------------------------------------------------------
(* What each step does to the parts of the invariant, and to the promise.    *)
RunsOK == run' \in [Run -> RunState] /\ \A r \in Run : RunOK(r)'
RowsOK == rows' \in [Job -> RowState] /\ \A j \in Job : RowOK(j)'
Kept == [Promise!Next]_(Promise!promise)

(* A run that steps without a look at the rows. *)
LEMMA LearnOK ==
    ASSUME Core, NEW r \in Run, run[r].pc # "idle", NEW pc \in Working \cup {"failing"},
           NEW got, Moves(r, pc, run[r].job, got)
    PROVE  RunsOK
<1>1. pc # "idle" /\ run[r].job # NoJob
    BY DEF Working, Core, RunOK
<1> QED BY <1>1, MovesOK DEF RunsOK

LEMMA IdleOK == ASSUME Core, NEW r \in Run, End(r) PROVE RunsOK
BY EndMoves, MovesOK DEF RunsOK

LEMMA FailOK ==
    ASSUME Core, NEW r \in Run, run[r].pc # "idle", Fail(r) PROVE RunsOK
BY FailMoves, LearnOK

LEMMA FaultOK == ASSUME Core, Fault \/ UNCHANGED faults PROVE faults' \in 0..MaxFaults
BY FaultsAssumption DEF Core, Fault

LEMMA UnmovedRows ==
    ASSUME Core, UNCHANGED <<rows, copies>> PROVE RowsOK /\ Kept
<1>1. StayRows
    BY DEF Core, StayRows
<1> QED BY <1>1, StayOK DEF RowsOK, Kept, StayRows

LEMMA UnmovedRuns == ASSUME Core, UNCHANGED run PROVE RunsOK
BY DEF Core, RunsOK, RunOK

LEMMA Together ==
    ASSUME Core, RunsOK, RowsOK, source' \in Source, faults' \in 0..MaxFaults,
           copies' \in [Job -> Seq(CopyState)]
    PROVE  Core'
BY DEF Core, RunsOK, RowsOK

LEMMA InsertOK == ASSUME Core, NEW j \in Job, Insert(j) PROVE Core' /\ Kept
<1>1. /\ rows' \in [Job -> RowState] /\ rows'[j].status = "queued"
      /\ \A k \in Job \ {j} : rows'[k] = rows[k]
    BY SetStatusFacts, Statuses DEF Insert
<1>2. UNCHANGED <<source, run, copies, faults>>
    BY DEF Insert
<1>3. RowsOK
    BY <1>1, <1>2 DEF Core, RowsOK, RowOK, Insert
<1>4. Answers[j] = "none" /\ Answers'[j] = "open"
    BY <1>1, Statuses DEF Answers, Insert
<1>5. Promise!Ask(j)
    BY <1>1, <1>2, <1>4, AnswerOK DEF Promise!Ask, Made
<1>6. Kept
    BY <1>5 DEF Kept, Promise!Next
<1> QED BY <1>2, <1>3, <1>6, UnmovedRuns, Together DEF Core

LEMMA ReapOK == ASSUME Core, NEW j \in Job, Reap(j) PROVE Core' /\ Kept
<1>1. UNCHANGED <<source, run, copies, faults>>
    BY DEF Reap
<1>2. RowsOK /\ Kept
    BY <1>1, DeclineOK DEF Reap, Abandoned, RowsOK, Kept
<1> QED BY <1>1, <1>2, UnmovedRuns, Together DEF Core

LEMMA QuietOK ==
    ASSUME Core, NEW j \in Job, NEW quiet \in BOOLEAN,
           rows' = [rows EXCEPT ![j].quiet = quiet],
           UNCHANGED <<source, run, copies>>, faults' \in 0..MaxFaults
    PROVE  Core' /\ Kept
<1>1. rows' = [rows EXCEPT ![j] = [rows[j] EXCEPT !.quiet = quiet]]
    BY DEF Core
<1> DEFINE rec == [rows[j] EXCEPT !.quiet = quiet]
<1>2. rec \in RowState /\ rec.status = rows[j].status
    BY DEF Core, RowState
<1> HIDE DEF rec
<1>3. StayRows
    BY <1>1, <1>2 DEF Core, StayRows, rec
<1> QED BY <1>3, StayOK, UnmovedRuns, Together DEF Core, RowsOK, Kept, StayRows

LEMMA GoQuietOK == ASSUME Core, NEW j \in Job, GoQuiet(j) PROVE Core' /\ Kept
BY FaultOK, QuietOK DEF GoQuiet

LEMMA BeatOK == ASSUME Core, NEW r \in Run, Beat(r) PROVE Core' /\ Kept
<1>1. run[r].job \in Job
    BY DEF Core, RunOK, RunState, Beat
<1> QED BY <1>1, QuietOK DEF Beat, Core

LEMMA ClaimMoves ==
    ASSUME Core, NEW r \in Run, NEW j \in Job, Claim(r, j)
    PROVE  Moves(r, "load", j, Nothing)
<1> DEFINE rec == [IdleRun EXCEPT !.pc = "load", !.job = j]
<1>1. rec \in RunState /\ rec.pc = "load" /\ rec.job = j /\ rec.got = Nothing
    BY NothingIsGot DEF IdleRun, RunState, Working
<1>2. run' = [run EXCEPT ![r] = rec]
    BY DEF Claim
<1> HIDE DEF rec
<1> QED BY <1>1, <1>2 DEF Core, Moves

LEMMA ClaimOK == ASSUME Core, NEW r \in Run, NEW j \in Job, Claim(r, j) PROVE Core' /\ Kept
<1>1. rows[j].status \in InFlight
    BY Statuses DEF Claim, Abandoned
<1>2. StayRows
    BY <1>1, SetStatusFacts, Statuses DEF Claim, StayRows
<1>3. RunsOK
    BY ClaimMoves, MovesOK, NamesAssumption DEF RunsOK
<1> QED BY <1>2, <1>3, StayOK, Together DEF Core, Claim, RowsOK, Kept, StayRows

(* Steps of a run that read, copy or compare, and write nothing shared. *)
Inner(r) == Load(r) \/ CopyMaster(r) \/ CopyTrees(r) \/ Verify(r) \/ Throw(r)

(* What a run has after such a step. *)
LEMMA InnerMoves ==
    ASSUME Core, NEW r \in Run, Inner(r)
    PROVE  /\ run[r].pc # "idle" /\ UNCHANGED <<source, rows, copies, faults>>
           /\ \/ Moves(r, "failing", run[r].job, Nothing)
              \/ /\ Load(r) /\ Moves(r, "plan", run[r].job,
                      [Nothing EXCEPT !.video = source.video, !.tree = source.tree])
              \/ /\ CopyMaster(r)
                 /\ Moves(r, "copy trees", run[r].job, [run[r].got EXCEPT !.master = TRUE])
              \/ /\ CopyTrees(r)
                 /\ Moves(r, "verify", run[r].job, [run[r].got EXCEPT !.trees = Wanted(r)])
              \/ Verify(r) /\ run[r].got.master /\ Moves(r, "committing", run[r].job, run[r].got)
<1>1. run[r].pc # "idle" /\ UNCHANGED <<source, rows, copies, faults>>
    BY DEF Inner, Load, CopyMaster, CopyTrees, Verify, Throw, Working
<1>2. CASE Fail(r)
    BY <1>1, <1>2, FailMoves
<1>3. CASE Load(r) /\ ~Fail(r)
    <2>1. [Nothing EXCEPT !.video = source.video, !.tree = source.tree] \in Got
        BY DEF Core, Source, Nothing, Got
    <2> QED BY <1>1, <1>3, <2>1, LearnMoves DEF Load, Working
<1>4. CASE CopyMaster(r) /\ ~Fail(r)
    <2>1. [run[r].got EXCEPT !.master = TRUE] \in Got
        BY CoreParts, GotUpdates
    <2> QED BY <1>1, <1>4, <2>1, LearnMoves DEF CopyMaster, Working
<1>5. CASE CopyTrees(r)
    <2>1. [run[r].got EXCEPT !.trees = Wanted(r)] \in Got
        BY CoreParts, GotUpdates
    <2> QED BY <1>1, <1>5, <2>1, LearnMoves DEF CopyTrees, Working
<1>6. CASE Verify(r) /\ ~Fail(r)
    BY <1>1, <1>6, GoToMoves DEF Verify, Working
<1> QED BY <1>2, <1>3, <1>4, <1>5, <1>6 DEF Inner, Throw

LEMMA InnerOK == ASSUME Core, NEW r \in Run, Inner(r) PROVE Core' /\ Kept
<1>1. RunsOK
    BY InnerMoves, LearnOK DEF Working
<1> QED BY <1>1, InnerMoves, UnmovedRows, Together DEF Core

LEMMA PlanMoves ==
    ASSUME Core, NEW r \in Run, Plan(r)
    PROVE  Moves(r, IF run[r].got.video THEN "copy master" ELSE "committing", run[r].job,
                 [run[r].got EXCEPT !.skip = source.retired])
<1>1. [run[r].got EXCEPT !.skip = source.retired] \in Got
    BY CoreParts, GotUpdates
<1> QED BY <1>1, LearnMoves DEF Plan, Working

LEMMA PlanOK == ASSUME Core, NEW r \in Run, Plan(r) PROVE Core' /\ Kept
<1>1. RunsOK
    BY PlanMoves, LearnOK DEF Plan, Working
<1>2. RowsOK /\ Kept
    BY FencedOK, Statuses DEF Plan, RowsOK, Kept
<1> QED BY <1>1, <1>2, Together DEF Core, Plan

LEMMA WriteCommittingOK ==
    ASSUME Core, NEW r \in Run, WriteCommitting(r) PROVE Core' /\ Kept
<1>1. RunsOK
    BY GoToMoves, LearnOK DEF WriteCommitting, Working
<1>2. RowsOK /\ Kept
    BY FencedOK, Statuses DEF WriteCommitting, RowsOK, Kept
<1> QED BY <1>1, <1>2, Together DEF Core, WriteCommitting

LEMMA RecordFailureOK ==
    ASSUME Core, NEW r \in Run, RecordFailure(r) PROVE Core' /\ Kept
<1>1. RunsOK
    BY IdleOK DEF RecordFailure
<1>2. RowsOK /\ Kept
    BY FencedOK, UnmovedRows DEF RecordFailure, RowsOK, Kept
<1> QED BY <1>1, <1>2, FaultOK, Together DEF Core, RecordFailure

LEMMA DieOK == ASSUME Core, NEW r \in Run, Die(r) PROVE Core' /\ Kept
<1>1. RunsOK
    BY IdleOK DEF Die
<1> QED BY <1>1, UnmovedRows, FaultOK, Together DEF Core, Die

(* The commit: a copy and the answer "ready" together, or neither. *)
LEMMA CopyIsTyped ==
    ASSUME Core, NEW r \in Run PROVE Copy(r) \in CopyState
BY DEF Core, RunState, Got, Copy, CopyState, NamedTree

LEMMA CommitRows ==
    ASSUME Core, NEW r \in Run, Commit(r), MayFinalize(StatusOf(r))
    PROVE  /\ copies' \in [Job -> Seq(CopyState)] /\ RowsOK /\ Kept
           /\ copies'[run[r].job] = <<Copy(r)>>
           /\ \A k \in Job \ {run[r].job} : copies'[k] = copies[k]
<1> DEFINE j == run[r].job
<1>1. j \in Job /\ rows[j].status = "committing"
    BY DEF Core, RunOK, RunState, Commit, MayFinalize, StatusOf
<1>2. copies[j] = <<>> /\ rows[j].status \in InFlight
    BY <1>1 DEF Core, RowOK, InFlight
<1>3. /\ rows' \in [Job -> RowState] /\ rows'[j].status = "ready"
      /\ \A k \in Job \ {j} : rows'[k] = rows[k]
    BY <1>1, SetStatusFacts, Statuses DEF Commit
<1>4. Append(copies[j], Copy(r)) = <<Copy(r)>>
    BY <1>2
<1>5. /\ copies' = [copies EXCEPT ![j] = <<Copy(r)>>]
      /\ <<Copy(r)>> \in Seq(CopyState) /\ Len(<<Copy(r)>>) = 1
    BY <1>4, CopyIsTyped DEF Commit
<1>6. copies' \in [Job -> Seq(CopyState)] /\ copies'[j] = <<Copy(r)>>
    BY <1>1, <1>5 DEF Core
<1>7. \A k \in Job \ {j} : copies'[k] = copies[k]
    BY <1>1, <1>5 DEF Core
<1>8. RowsOK
    BY <1>1, <1>3, <1>5, <1>6, <1>7 DEF Core, RowsOK, RowOK
<1>9. Kept
    <2>1. Answers[j] = "open" /\ Answers'[j] = "ready"
        BY <1>1, <1>2, <1>3, Statuses DEF Answers
    <2>2. Promise!Answer(j, "open", "ready")
        BY <1>1, <1>3, <2>1, AnswerOK
    <2>3. Made' = [Made EXCEPT ![j] = @ + 1]
        BY <1>1, <1>2, <1>5, <1>6, <1>7 DEF Made
    <2> QED BY <1>1, <2>2, <2>3 DEF Kept, Promise!Next, Promise!Keep, Made
<1> QED BY <1>6, <1>7, <1>8, <1>9

LEMMA CommitOK == ASSUME Core, NEW r \in Run, Commit(r) PROVE Core' /\ Kept
<1>1. RunsOK
    BY IdleOK, FailOK DEF Commit
<1>2. CASE MayFinalize(StatusOf(r))
    BY <1>1, <1>2, CommitRows, FaultOK, Together DEF Core, Commit
<1>3. CASE ~MayFinalize(StatusOf(r))
    BY <1>1, <1>3, UnmovedRows, Together DEF Core, Commit
<1> QED BY <1>2, <1>3

(* The owner's edits leave the requests alone, and the deletion of the       *)
(* project forgets them all.                                                 *)
Edits ==
    \/ \E t \in Tree : Transcode(t) \/ Retire(t)
    \/ DeleteVideo \/ DeleteBytes

LEMMA SourceIsTyped == ASSUME Core, Edits \/ DeleteProject PROVE source' \in Source
<1>1. ASSUME NEW t \in Tree, Transcode(t) \/ Retire(t) PROVE source' \in Source
    <2>1. source.retired \cup {t} \in SUBSET Tree /\ source.stored \cup {t} \in SUBSET Tree
        BY DEF Core, Source
    <2> QED BY <1>1, <2>1 DEF Core, Transcode, Retire, Edit, Source
<1>2. CASE DeleteVideo \/ DeleteProject
    BY <1>2 DEF Core, DeleteVideo, DeleteProject, Edit, Source
<1>3. CASE DeleteBytes
    BY <1>3 DEF Core, DeleteBytes, Edit, Source
<1> QED BY <1>1, <1>2, <1>3 DEF Edits

LEMMA EditsOK == ASSUME Core, Edits PROVE Core' /\ Kept
<1>1. UNCHANGED <<rows, run, copies, faults>>
    BY DEF Edits, Transcode, Retire, DeleteVideo, DeleteBytes, Edit
<1> QED BY <1>1, SourceIsTyped, UnmovedRows, UnmovedRuns, Together DEF Core

LEMMA DeleteProjectOK == ASSUME Core, DeleteProject PROVE Core' /\ Kept
<1>1. UNCHANGED <<run, copies, faults>>
    BY DEF DeleteProject, Edit
<1>2. [status |-> "gone", quiet |-> FALSE] \in RowState
    BY Statuses DEF RowState
<1>3. rows' \in [Job -> RowState] /\ \A j \in Job : rows'[j].status = "gone"
    BY <1>2 DEF DeleteProject
<1>4. RowsOK
    BY <1>1, <1>3 DEF Core, RowsOK, RowOK
<1>5. Answers' = [j \in Job |-> "gone"] /\ Made' = Made
    BY <1>1, <1>3, Statuses DEF Answers, Made
<1>6. Kept
    BY <1>5 DEF Kept, Promise!Next, Promise!Forget, Answers, Made
<1> QED BY <1>1, <1>4, <1>6, SourceIsTyped, UnmovedRuns, Together DEF Core

LEMMA InitOK == ASSUME Init PROVE Core /\ Promise!Init
<1>1. source \in Source
    BY TreeAssumption DEF Init, Source
<1>2. rows \in [Job -> RowState]
    BY Statuses DEF Init, RowState
<1>3. run \in [Run -> RunState] /\ \A r \in Run : RunOK(r)
    BY NothingIsGot DEF Init, RunOK, IdleRun
<1>4. /\ copies \in [Job -> Seq(CopyState)] /\ faults \in 0..MaxFaults
      /\ \A j \in Job : RowOK(j)
    BY FaultsAssumption DEF Init, RowOK
<1>5. Promise!Init
    <2>1. Answers = [j \in Job |-> "none"] /\ Made = [j \in Job |-> 0]
        BY Statuses DEF Init, Answers, Made
    <2> QED BY <2>1 DEF Promise!Init, Answers, Made
<1> QED BY <1>1, <1>2, <1>3, <1>4, <1>5 DEF Core

LEMMA NextOK == ASSUME Core, [Next]_vars PROVE Core' /\ Kept
<1>1. ASSUME NEW j \in Job, Insert(j) \/ Reap(j) \/ GoQuiet(j) PROVE Core' /\ Kept
    BY <1>1, InsertOK, ReapOK, GoQuietOK
<1>2. ASSUME NEW j \in Job, NEW r \in Run, Claim(r, j) PROVE Core' /\ Kept
    BY <1>2, ClaimOK
<1>3. ASSUME NEW r \in Run, RunStep(r) \/ Throw(r) PROVE Core' /\ Kept
    BY <1>3, InnerOK, PlanOK, WriteCommittingOK, CommitOK, RecordFailureOK
    DEF RunStep, Inner
<1>4. ASSUME NEW r \in Run, Beat(r) \/ Die(r) PROVE Core' /\ Kept
    BY <1>4, BeatOK, DieOK
<1>5. CASE UNCHANGED vars
    BY <1>5, UnmovedRows, UnmovedRuns, Together DEF vars, Core
<1> QED BY <1>1, <1>2, <1>3, <1>4, <1>5, EditsOK, DeleteProjectOK DEF Next, Edits

(* Every variable has its type, and a copy is there only once its row says so. *)
THEOREM TypeCorrect == Spec => []TypeOK
<1>1. Init => Core
    BY InitOK
<1>2. Core /\ [Next]_vars => Core'
    BY NextOK
<1>3. Core => TypeOK
    BY DEF Core, TypeOK, RowOK, RunOK, Source, RowState, RunState, Got, CopyState
<1> QED BY <1>1, <1>2, <1>3, PTL DEF Spec

(* The rows, runs and sweeps of finalizeDuplication and its callers implement *)
(* the promise made to the user.                                              *)
THEOREM PromiseKept == Spec => KeepsThePromise
<1>1. Init => Core /\ Promise!Init
    BY InitOK
<1>2. Core /\ [Next]_vars => Core' /\ [Promise!Next]_(Promise!promise)
    BY NextOK DEF Kept
<1> QED BY <1>1, <1>2, PTL DEF Spec, KeepsThePromise, Promise!Spec

(* Hence a request makes at most one project, however often it is delivered. *)
THEOREM AtMostOneCopy == Spec => []Promise!OneCopyPerRequest
<1>1. Init => Core
    BY InitOK
<1>2. Core /\ [Next]_vars => Core'
    BY NextOK
<1>3. ASSUME Core PROVE Promise!OneCopyPerRequest
    <2>1. ASSUME NEW j \in Job
          PROVE  Made[j] = CASE Answers[j] = "ready" -> 1
                             [] Answers[j] = "gone" -> IF Made[j] = 0 THEN 0 ELSE 1
                             [] OTHER -> 0
        <3>1. /\ copies[j] \in Seq(CopyState) /\ RowOK(j) /\ Made[j] = Len(copies[j])
            BY <1>3 DEF Core, Made
        <3>2. Len(copies[j]) \in Nat /\ Len(copies[j]) <= 1
            BY <3>1 DEF RowOK
        <3>3. Made[j] \in {0, 1}
            <4>1. \A n \in Nat : n <= 1 => n \in {0, 1}
                OBVIOUS
            <4> QED BY <3>1, <3>2, <4>1
        <3>4. copies[j] = <<>> => Made[j] = 0
            BY <3>1
        <3> QED BY <3>1, <3>3, <3>4, Statuses DEF RowOK, Answers
    <2> QED BY <2>1 DEF Promise!OneCopyPerRequest, Answers, Made
<1> QED BY <1>1, <1>2, <1>3, PTL DEF Spec

-----------------------------------------------------------------------------
(* The bytes of the source while its video stays, and what a run holds of     *)
(* them.  Trees are only added to such a source, so that what a run found     *)
(* named is still there when it copies; what it skips it does not name.       *)
SourceOK == source.tree # NoTree => source.video /\ source.tree \in source.stored

GotOK(r) ==
    LET got == run[r].got IN
    /\ got.tree # NoTree => got.video
    /\ run[r].pc \in {"committing", "commit"} /\ got.video => got.master
    /\ source.video /\ got.tree # NoTree => got.tree \in source.stored
    /\ source.video /\ run[r].pc \in {"verify", "committing", "commit"}
          /\ NamedTree(got) # NoTree => NamedTree(got) \in got.trees

CopyOK(c) == (c.video => c.master) /\ (c.tree # NoTree => c.tree \in c.trees)

Whole ==
    /\ SourceOK
    /\ \A r \in Run : GotOK(r)
    /\ source.video => \A j \in Job : \A i \in DOMAIN copies[j] : CopyOK(copies[j][i])

LEMMA NothingIsOK ==
    /\ Nothing.video = FALSE /\ Nothing.tree = NoTree /\ NamedTree(Nothing) = NoTree
BY DEF Nothing, NamedTree

(* The source does not change: a run that moves need only be right itself. *)
LEMMA OthersWhole ==
    ASSUME Core, Whole, UNCHANGED source, NEW r \in Run, NEW pc, NEW job, NEW got,
           Moves(r, pc, job, got), GotOK(r)', UNCHANGED copies
    PROVE  Whole'
<1>1. ASSUME NEW s \in Run PROVE GotOK(s)'
    BY DEF Whole, GotOK, Moves
<1> QED BY <1>1 DEF Whole, SourceOK

LEMMA NothingWhole ==
    ASSUME Core, Whole, UNCHANGED <<source, copies>>, NEW r \in Run, NEW pc, NEW job,
           Moves(r, pc, job, Nothing)
    PROVE  Whole'
<1>1. GotOK(r)'
    BY NothingIsOK DEF GotOK, Moves
<1> QED BY <1>1, OthersWhole

LEMMA UnmovedWhole ==
    ASSUME Core, Whole, UNCHANGED <<source, run, copies>> PROVE Whole'
BY DEF Whole, SourceOK, GotOK

LEMMA LoadWhole ==
    ASSUME Core, Whole, UNCHANGED <<source, copies>>, NEW r \in Run,
           Moves(r, "plan", run[r].job,
                 [Nothing EXCEPT !.video = source.video, !.tree = source.tree])
    PROVE  Whole'
<1> DEFINE got == [Nothing EXCEPT !.video = source.video, !.tree = source.tree]
<1>1. got.video = source.video /\ got.tree = source.tree
    BY DEF Nothing
<1> HIDE DEF got
<1>2. GotOK(r)'
    BY <1>1 DEF Whole, SourceOK, GotOK, Moves
<1> QED BY <1>2, OthersWhole

LEMMA PlanWhole ==
    ASSUME Core, Whole, NEW r \in Run, Plan(r) PROVE Whole'
<1> DEFINE got == [run[r].got EXCEPT !.skip = source.retired]
<1> DEFINE pc == IF run[r].got.video THEN "copy master" ELSE "committing"
<1>1. /\ got.video = run[r].got.video /\ got.tree = run[r].got.tree
    BY DEF Core, RunState, Got
<1>2. Moves(r, pc, run[r].job, got)
    BY PlanMoves
<1>3. pc \notin {"verify", "commit"} /\ (pc = "committing" => ~got.video)
    BY <1>1
<1>4. UNCHANGED <<source, copies>>
    BY DEF Plan
<1>5. pc = "committing" => NamedTree(got) = NoTree
    BY <1>1, <1>3 DEF Whole, GotOK, NamedTree
<1> HIDE DEF got, pc
<1>6. GotOK(r)'
    BY <1>1, <1>2, <1>3, <1>4, <1>5 DEF Whole, GotOK, Moves
<1> QED BY <1>2, <1>4, <1>6, OthersWhole

LEMMA CopyTreesWhole ==
    ASSUME Core, Whole, UNCHANGED <<source, copies>>, NEW r \in Run,
           Moves(r, "verify", run[r].job, [run[r].got EXCEPT !.trees = Wanted(r)])
    PROVE  Whole'
<1> DEFINE got == [run[r].got EXCEPT !.trees = Wanted(r)]
<1>1. /\ got.video = run[r].got.video /\ got.tree = run[r].got.tree
      /\ got.skip = run[r].got.skip /\ got.trees = Wanted(r)
    BY DEF Core, RunState, Got
<1>2. source.video /\ NamedTree(got) # NoTree => NamedTree(got) \in got.trees
    BY <1>1 DEF Whole, GotOK, NamedTree, Wanted
<1>3. Moves(r, "verify", run[r].job, got)
    OBVIOUS
<1> HIDE DEF got
<1>4. run'[r].got = got /\ run'[r].pc = "verify"
    BY <1>3 DEF Moves
<1>5. GotOK(r)'
    BY <1>1, <1>2, <1>4 DEF Whole, GotOK, NamedTree
<1> QED BY <1>3, <1>5, OthersWhole

LEMMA InnerWhole == ASSUME Core, Whole, NEW r \in Run, Inner(r) PROVE Whole'
<1>1. UNCHANGED <<source, copies>>
    BY InnerMoves
<1>2. CASE Moves(r, "failing", run[r].job, Nothing)
    BY <1>1, <1>2, NothingWhole
<1>3. CASE Moves(r, "plan", run[r].job,
                 [Nothing EXCEPT !.video = source.video, !.tree = source.tree])
    BY <1>1, <1>3, LoadWhole
<1>4. CASE Moves(r, "copy trees", run[r].job, [run[r].got EXCEPT !.master = TRUE])
    <2> DEFINE got == [run[r].got EXCEPT !.master = TRUE]
    <2>1. got.video = run[r].got.video /\ got.tree = run[r].got.tree
        BY DEF Core, RunState, Got
    <2> HIDE DEF got
    <2>2. GotOK(r)'
        BY <1>1, <1>4, <2>1 DEF Whole, GotOK, Moves, got
    <2> QED BY <1>1, <1>4, <2>2, OthersWhole
<1>5. CASE Moves(r, "verify", run[r].job, [run[r].got EXCEPT !.trees = Wanted(r)])
    BY <1>1, <1>5, CopyTreesWhole
<1>6. CASE Verify(r) /\ run[r].got.master /\ Moves(r, "committing", run[r].job, run[r].got)
    <2>1. GotOK(r)'
        BY <1>1, <1>6 DEF Whole, GotOK, Moves, Verify
    <2> QED BY <1>1, <1>6, <2>1, OthersWhole
<1> QED BY <1>2, <1>3, <1>4, <1>5, <1>6, InnerMoves

LEMMA WriteCommittingWhole ==
    ASSUME Core, Whole, NEW r \in Run, WriteCommitting(r) PROVE Whole'
<1>1. Moves(r, "commit", run[r].job, run[r].got)
    BY GoToMoves DEF WriteCommitting, Working
<1>2. UNCHANGED <<source, copies>> /\ run[r].pc = "committing"
    BY DEF WriteCommitting
<1>3. GotOK(r)'
    BY <1>1, <1>2 DEF Whole, GotOK, Moves
<1> QED BY <1>1, <1>2, <1>3, OthersWhole

LEMMA CommitWhole == ASSUME Core, Whole, NEW r \in Run, Commit(r) PROVE Whole'
<1>1. Moves(r, "failing", run[r].job, Nothing) \/ Moves(r, "idle", NoJob, Nothing)
    BY EndMoves, FailMoves DEF Commit
<1>2. UNCHANGED source
    BY DEF Commit
<1>3. CASE ~MayFinalize(StatusOf(r))
    BY <1>1, <1>2, <1>3, NothingWhole DEF Commit
<1>4. CASE MayFinalize(StatusOf(r))
    <2>1. CopyOK(Copy(r)) \/ ~source.video
        BY DEF Whole, GotOK, Commit, Copy, CopyOK
    <2>2. /\ copies'[run[r].job] = <<Copy(r)>>
          /\ \A k \in Job \ {run[r].job} : copies'[k] = copies[k]
        BY <1>4, CommitRows
    <2>3. \A i \in DOMAIN <<Copy(r)>> : <<Copy(r)>>[i] = Copy(r)
        OBVIOUS
    <2>4. source'.video => \A j \in Job : \A i \in DOMAIN copies'[j] : CopyOK(copies'[j][i])
        BY <1>2, <2>1, <2>2, <2>3 DEF Whole
    <2>5. ASSUME NEW s \in Run PROVE GotOK(s)'
        BY <1>1, <1>2, NothingIsOK DEF Whole, GotOK, Moves
    <2> QED BY <1>2, <2>4, <2>5 DEF Whole, SourceOK
<1> QED BY <1>3, <1>4

(* The source loses nothing a run found named as long as its video stays. *)
LEMMA SourceWhole ==
    ASSUME Core, Whole, UNCHANGED <<run, copies>>, SourceOK',
           source'.video => source.video /\ source.stored \subseteq source'.stored
    PROVE  Whole'
<1>1. ASSUME NEW r \in Run PROVE GotOK(r)'
    BY DEF Whole, GotOK
<1> QED BY <1>1 DEF Whole

LEMMA EditsWhole == ASSUME Core, Whole, Edits \/ DeleteProject PROVE Whole'
<1>1. UNCHANGED <<run, copies>>
    BY DEF Edits, Transcode, Retire, DeleteVideo, DeleteBytes, DeleteProject, Edit
<1>2. ASSUME NEW t \in Tree, Transcode(t) \/ Retire(t)
      PROVE  SourceOK' /\ source'.video /\ source.video /\ source.stored \subseteq source'.stored
    BY <1>2 DEF Whole, SourceOK, Core, Source, Transcode, Retire, Edit
<1>3. CASE DeleteVideo \/ DeleteProject
    BY <1>1, <1>3, SourceWhole DEF SourceOK, Core, Source, DeleteVideo, DeleteProject, Edit
<1>4. CASE DeleteBytes
    <2>1. SourceOK' /\ ~source'.video
        BY <1>4 DEF Whole, SourceOK, Core, Source, DeleteBytes, Edit
    <2> QED BY <1>1, <2>1, SourceWhole
<1> QED BY <1>1, <1>2, <1>3, <1>4, SourceWhole DEF Edits

LEMMA NextWhole == ASSUME Core, Whole, [Next]_vars PROVE Whole'
<1>1. ASSUME NEW j \in Job, Insert(j) \/ Reap(j) \/ GoQuiet(j) PROVE Whole'
    BY <1>1, UnmovedWhole DEF Insert, Reap, GoQuiet
<1>2. ASSUME NEW j \in Job, NEW r \in Run, Claim(r, j) PROVE Whole'
    BY <1>2, ClaimMoves, NothingWhole DEF Claim
<1>3. ASSUME NEW r \in Run, RunStep(r) \/ Throw(r) PROVE Whole'
    <2>1. CASE RecordFailure(r)
        BY <2>1, EndMoves, NothingWhole DEF RecordFailure
    <2> QED BY <1>3, <2>1, InnerWhole, PlanWhole, WriteCommittingWhole, CommitWhole
            DEF RunStep, Inner
<1>4. ASSUME NEW r \in Run, Beat(r) \/ Die(r) PROVE Whole'
    BY <1>4, UnmovedWhole, EndMoves, NothingWhole DEF Beat, Die
<1>5. CASE UNCHANGED vars
    BY <1>5, UnmovedWhole DEF vars
<1> QED BY <1>1, <1>2, <1>3, <1>4, <1>5, EditsWhole DEF Next, Edits

LEMMA InitWhole == ASSUME Init PROVE Whole
<1>1. SourceOK
    BY DEF Init, SourceOK
<1>2. ASSUME NEW r \in Run PROVE GotOK(r)
    BY NothingIsOK DEF Init, IdleRun, GotOK
<1>3. \A j \in Job : copies[j] = <<>>
    BY DEF Init
<1> QED BY <1>1, <1>2, <1>3 DEF Whole

(* The rows of a copy name bytes the copy has, for as long as the owner keeps *)
(* the source video: loadSnapshot's read of hls_retired_runs comes after that *)
(* of the rows, and what it finds there is left out of both.                  *)
THEOREM CopiesWhole == Spec => []CopiesOfAKeptVideoAreWhole
<1>1. Init => Core /\ Whole
    BY InitOK, InitWhole
<1>2. Core /\ Whole /\ [Next]_vars => (Core /\ Whole)'
    BY NextOK, NextWhole
<1>3. Whole => CopiesOfAKeptVideoAreWhole
    BY DEF Whole, CopyOK, CopiesOfAKeptVideoAreWhole
<1> QED BY <1>1, <1>2, <1>3, PTL DEF Spec
=============================================================================
