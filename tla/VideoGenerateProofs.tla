------------------------ MODULE VideoGenerateProofs ------------------------
(***************************************************************************)
(* Proofs about VideoGenerate, for any number of runs, tries and faults,   *)
(* however often a live run's heartbeats are late: safety rests on the     *)
(* run token alone, never on the clock.                                    *)
(***************************************************************************)
EXTENDS VideoGenerate, TLAPS

(* The stages that lead to a submission, and those that have a task id. *)
Before == {"enhancing", "enhanced", "submitting"}
After == {"resume", "poll", "store file", "transcoding", "finalise"}

(* A row that is over has no run that could still write a stage into it;    *)
(* nobody waits to claim what it owns; a claim is counted.                  *)
LeaseOK ==
    /\ row.status \notin InFlight /\ row.owner # NoRun
         => run[row.owner].pc \in {"idle", "failing", "done"}
    /\ \A r \in Run : run[r].pc = "claim" => row.owner # r
    /\ row.owner # NoRun => row.attempts # 0
    /\ row.status = "submitting" => row.attempts # 0

(* What was published ended the row. *)
PublishOK == published = 0 \/ (published = 1 /\ row.status \notin InFlight)

(* A submission may have happened, or may be happening. *)
Gone == buyers # 0 \/ \E r \in Run : run[r].pc = "submit"

(* Then the row keeps every later claim from another: it is over, it has a  *)
(* task id, or it is still submitting.                                      *)
BuyOK ==
    /\ buyers \in 0..1
    /\ Gone => row.status \notin InFlight \/ row.task \/ row.status = "submitting"
    /\ Gone /\ row.owner # NoRun => run[row.owner].pc \notin Before
    /\ row.owner # NoRun /\ run[row.owner].pc \in After => row.task
    /\ \A r, s \in Run : run[r].pc = "submit" /\ run[s].pc = "submit" => r = s
    /\ \A r \in Run : run[r].pc = "submit" /\ ~run[r].paid => buyers = 0

Core ==
    /\ row \in Row
    /\ row.section => row.status \in Terminal
    /\ run \in [Run -> RunState]
    /\ LeaseOK /\ PublishOK /\ BuyOK

Counters == bought \in 0..2 /\ buyers \in 0..2 /\ published \in 0..2 /\ faults \in 0..MaxFaults

IInv == Core /\ Counters

-----------------------------------------------------------------------------
(* What the three ways to move a run do to the other runs. *)
LEMMA GoToFacts ==
    ASSUME run \in [Run -> RunState], NEW r \in Run, NEW pc \in Pc, GoTo(r, pc)
    PROVE  /\ run' \in [Run -> RunState]
           /\ run'[r].pc = pc /\ run'[r].paid = run[r].paid
           /\ \A s \in Run \ {r} : run'[s] = run[s]
<1>1. run' = [run EXCEPT ![r] = [run[r] EXCEPT !.pc = pc]]
    BY DEF GoTo
<1>2. /\ [run[r] EXCEPT !.pc = pc] \in RunState
      /\ [run[r] EXCEPT !.pc = pc].pc = pc
      /\ [run[r] EXCEPT !.pc = pc].paid = run[r].paid
    BY DEF RunState
<1> QED BY <1>1, <1>2

LEMMA EndFacts ==
    ASSUME run \in [Run -> RunState], NEW r \in Run, End(r)
    PROVE  /\ run' \in [Run -> RunState]
           /\ run'[r].pc = "idle"
           /\ \A s \in Run \ {r} : run'[s] = run[s]
<1>1. IdleRun \in RunState /\ IdleRun.pc = "idle"
    BY TriesAssumption DEF IdleRun, RunState, Pc
<1> QED BY <1>1 DEF End

(* A fenced write either happened to the row its run owns or ended the run. *)
LEMMA FencedFacts ==
    ASSUME run \in [Run -> RunState], row \in Row,
           NEW r \in Run, NEW new \in Row, NEW pc \in Pc, FencedSet(r, new, pc)
    PROVE  /\ run' \in [Run -> RunState] /\ row' \in Row
           /\ \A s \in Run \ {r} : run'[s] = run[s]
           /\ \/ /\ row.owner = r
                 /\ row'.status = new.status /\ row'.owner = new.owner
                 /\ row'.attempts = new.attempts /\ row'.task = new.task
                 /\ row'.section = new.section
                 /\ run'[r].pc = pc /\ run'[r].paid = run[r].paid
              \/ row' = row /\ run'[r].pc = "idle"
<1>1. CASE Owns(r)
    <2>1. row' = [new EXCEPT !.quiet = FALSE] /\ GoTo(r, pc)
        BY <1>1 DEF FencedSet
    <2>2. /\ row' \in Row
          /\ row'.status = new.status /\ row'.owner = new.owner
          /\ row'.attempts = new.attempts /\ row'.task = new.task
          /\ row'.section = new.section
        BY <2>1 DEF Row
    <2> QED BY <1>1, <2>1, <2>2, GoToFacts DEF Owns
<1>2. CASE ~Owns(r)
    <2>1. End(r) /\ row' = row
        BY <1>2 DEF FencedSet
    <2> QED BY <2>1, EndFacts
<1> QED BY <1>1, <1>2

(* The fields of a row one stage writes. *)
LEMMA StageRow ==
    ASSUME row \in Row, NEW st \in Status
    PROVE  /\ [row EXCEPT !.status = st] \in Row
           /\ [row EXCEPT !.status = st].status = st
           /\ [row EXCEPT !.status = st].owner = row.owner
           /\ [row EXCEPT !.status = st].attempts = row.attempts
           /\ [row EXCEPT !.status = st].task = row.task
           /\ [row EXCEPT !.status = st].section = row.section
BY DEF Row

-----------------------------------------------------------------------------
(* The kinds of step there are, told by what they do to the fields that     *)
(* the invariant speaks of.                                                 *)

(* The row keeps its status, owner, attempts and task. *)
SameRow ==
    /\ row' \in Row
    /\ row'.status = row.status /\ row'.owner = row.owner
    /\ row'.attempts = row.attempts /\ row'.task = row.task
    /\ row'.section => row.section

Others(r) == run' \in [Run -> RunState] /\ \A s \in Run \ {r} : run'[s] = run[s]

LEMMA Owner ==
    ASSUME Core
    PROVE  row.owner \in Run \cup {NoRun} /\ \A r \in Run : r # NoRun
BY RunAssumption DEF Core, Row

LEMMA Stay ==
    ASSUME Core, SameRow, UNCHANGED <<run, buyers, published>>
    PROVE  Core'
BY Owner DEF Core, SameRow, LeaseOK, PublishOK, BuyOK, Gone

(* A run stops writing. *)
LEMMA Leave ==
    ASSUME Core, SameRow, NEW r \in Run, Others(r),
           run'[r].pc \in {"idle", "failing", "done"},
           UNCHANGED <<buyers, published>>
    PROVE  Core'
<1>1. LeaseOK'
    BY Owner DEF Core, SameRow, Others, LeaseOK
<1>2. PublishOK'
    BY DEF Core, SameRow, PublishOK
<1>3. BuyOK'
    <2>1. run'[r].pc \notin Before \cup After \cup {"submit"}
        BY DEF Before, After
    <2>2. Gone' => Gone
        BY <2>1 DEF Others, Gone
    <2>3. \A s \in Run : run'[s].pc \in Before \cup After \cup {"submit"}
                            => s # r /\ run'[s] = run[s]
        BY <2>1 DEF Others
    <2>4. row'.owner # NoRun => row.owner \in Run /\ row'.owner = row.owner
        BY Owner DEF SameRow
    <2>5. /\ Gone' /\ row'.owner # NoRun => run'[row'.owner].pc \notin Before
          /\ row'.owner # NoRun /\ run'[row'.owner].pc \in After => row'.task
        BY <2>2, <2>3, <2>4 DEF Core, SameRow, BuyOK
    <2>6. Gone' => row'.status \notin InFlight \/ row'.task \/ row'.status = "submitting"
        BY <2>2 DEF Core, SameRow, BuyOK
    <2>7. /\ \A s, q \in Run : run'[s].pc = "submit" /\ run'[q].pc = "submit" => s = q
          /\ \A s \in Run : run'[s].pc = "submit" /\ ~run'[s].paid => buyers' = 0
        BY <2>3 DEF Core, BuyOK
    <2>8. buyers' \in 0..1
        BY DEF Core, BuyOK
    <2> QED BY <2>5, <2>6, <2>7, <2>8 DEF BuyOK
<1> QED BY <1>1, <1>2, <1>3 DEF Core, SameRow, Others

(* The run that owns the row ends it. *)
LEMMA Terminate ==
    ASSUME Core, NEW r \in Run, Others(r), row.owner = r,
           run'[r].pc \in {"failing", "done"},
           row' \in Row, row'.status \in Terminal,
           row'.owner = row.owner, row'.attempts = row.attempts,
           UNCHANGED buyers, published' \in 0..1
    PROVE  Core'
<1>1. row'.status \notin InFlight
    BY DEF InFlight, Terminal
<1>2. LeaseOK'
    BY <1>1, Owner DEF Core, Others, LeaseOK, InFlight
<1>3. PublishOK'
    BY <1>1 DEF PublishOK
<1>4. BuyOK'
    BY <1>1, Owner DEF Core, Others, BuyOK, Gone, Before, After
<1> QED BY <1>2, <1>3, <1>4 DEF Core, Others

(* The run that owns the row moves it from one stage to another. *)
LEMMA Advance ==
    ASSUME Core, NEW r \in Run, Others(r), row.owner = r, run[r].pc \in Stage,
           run'[r].pc \in Before => run[r].pc \in Before,
           run'[r].pc = "submit" => run[r].pc \in Before /\ row'.status = "submitting",
           run'[r].pc \in Before \cup {"submit"} \/ (run'[r].pc \in After /\ row'.task),
           row' \in Row, row'.status \in InFlight,
           row'.owner = row.owner, row'.attempts = row.attempts,
           row'.section => row.section,
           UNCHANGED <<buyers, published>>
    PROVE  Core'
<1>1. r # NoRun /\ row.status \in InFlight
    BY RunAssumption DEF Core, LeaseOK, Stage
<1>2. ~row.section
    BY <1>1 DEF Core, InFlight, Terminal
<1>3. LeaseOK'
    BY <1>1, Owner DEF Core, Others, LeaseOK, Before, After
<1>4. PublishOK'
    BY <1>1 DEF Core, PublishOK
<1>5. run[r].pc \in Before => ~Gone
    BY <1>1 DEF Core, BuyOK
<1>6. BuyOK'
    <2>1. CASE run'[r].pc \in Before
        <3>1. ~Gone /\ ~Gone'
            BY <1>5, <2>1 DEF Gone, Others, Before
        <3> QED BY <2>1, <3>1, Owner DEF Core, Others, BuyOK, Gone, Before, After
    <2>2. CASE run'[r].pc = "submit"
        <3>1. buyers = 0 /\ \A s \in Run : run[s].pc # "submit"
            BY <1>5, <2>2 DEF Gone, Core, BuyOK
        <3>2. buyers' = 0 /\ row'.status = "submitting" /\ row'.owner = r
            BY <2>2, <3>1
        <3>3. run'[r].pc \notin Before \cup After
            BY <2>2 DEF Before, After
        <3>4. \A s \in Run : run'[s].pc = "submit" => s = r
            BY <3>1 DEF Others
        <3> QED BY <3>2, <3>3, <3>4 DEF BuyOK
    <2>3. CASE run'[r].pc \in After /\ row'.task
        <3>1. run'[r].pc \notin Before \cup {"submit"}
            BY <2>3 DEF Before, After
        <3>2. buyers' = buyers /\ (Gone' => row'.task)
            BY <2>3
        <3>3. \A s \in Run : run'[s].pc = "submit" => s # r /\ run[s].pc = "submit"
            BY <3>1 DEF Others
        <3>4. \A s \in Run : run'[s].pc = "submit" /\ ~run'[s].paid => buyers' = 0
            BY <3>2, <3>3 DEF Core, BuyOK, Others
        <3>5. buyers' \in 0..1 /\ \A s, q \in Run : run'[s].pc = "submit" /\ run'[q].pc = "submit" => s = q
            BY <3>2, <3>3 DEF Core, BuyOK
        <3>6. row'.owner = r
            OBVIOUS
        <3> QED BY <2>3, <3>1, <3>2, <3>4, <3>5, <3>6 DEF BuyOK
    <2> QED BY <2>1, <2>2, <2>3
<1> QED BY <1>2, <1>3, <1>4, <1>6 DEF Core, Others

-----------------------------------------------------------------------------
LEMMA InitOK == Init => IInv
<1> SUFFICES ASSUME Init PROVE IInv
    OBVIOUS
<1>1. PICK e \in BOOLEAN : row = [NoRow EXCEPT !.status = "queued", !.enhanced = e]
    BY DEF Init
<1>2. row \in Row /\ row.status = "queued" /\ row.owner = NoRun /\ ~row.section
    <2>1. "queued" \in Status
        BY DEF Status, InFlight
    <2>2. row = [status |-> "queued", owner |-> NoRun, attempts |-> 0, quiet |-> FALSE,
                 enhanced |-> e, task |-> FALSE, file |-> FALSE, section |-> FALSE]
        BY <1>1 DEF NoRow
    <2> QED BY <2>1, <2>2 DEF Row
<1>3. IdleRun \in RunState /\ IdleRun.pc = "idle"
    BY TriesAssumption DEF IdleRun, RunState, Pc
<1>4. run \in [Run -> RunState] /\ \A r \in Run : run[r].pc = "idle"
    BY <1>3 DEF Init
<1>5. row.status \in InFlight /\ published = 0 /\ buyers = 0
    BY <1>2 DEF Init, InFlight
<1>6. LeaseOK /\ PublishOK /\ BuyOK
    BY <1>2, <1>4, <1>5 DEF LeaseOK, PublishOK, BuyOK, Gone
<1>7. bought = 0 /\ faults = 0
    BY DEF Init
<1>8. Counters
    BY <1>5, <1>7, FaultsAssumption DEF Counters
<1> QED BY <1>2, <1>4, <1>6, <1>8 DEF IInv, Core

(* The failure of a run is recorded or not. *)
LEMMA RecordFailedOK ==
    ASSUME Core, NEW r \in Run, RecordFailed(r), UNCHANGED <<buyers, published>>
    PROVE  Core'
<1>1. CASE FencedSet(r, [row EXCEPT !.status = "failed"], "done")
    <2> DEFINE new == [row EXCEPT !.status = "failed"]
    <2>1. /\ new \in Row /\ new.status = "failed"
          /\ new.owner = row.owner /\ new.attempts = row.attempts
        BY StageRow DEF Core, Status, Terminal
    <2> HIDE DEF new
    <2>2. FencedSet(r, new, "done") /\ "done" \in Pc
        BY <1>1 DEF new, Pc
    <2>3. CASE row' = row /\ run'[r].pc = "idle"
        BY <2>1, <2>2, <2>3, FencedFacts, Leave DEF Core, SameRow, Others
    <2>4. CASE ~(row' = row /\ run'[r].pc = "idle")
        <3>1. /\ Others(r) /\ row.owner = r /\ run'[r].pc = "done"
              /\ row' \in Row /\ row'.status = "failed"
              /\ row'.owner = row.owner /\ row'.attempts = row.attempts
            BY <2>1, <2>2, <2>4, FencedFacts DEF Core, Others
        <3> QED BY <3>1, Terminate DEF Terminal, Core, PublishOK
    <2> QED BY <2>3, <2>4
<1>2. CASE GoTo(r, "done") /\ row' = row
    <2>1. Others(r) /\ run'[r].pc = "done"
        BY <1>2, GoToFacts DEF Core, Others, Pc
    <2> QED BY <1>2, <2>1, Leave DEF Core, SameRow
<1> QED BY <1>1, <1>2 DEF RecordFailed

(* One fenced write of a stage, given the stage it leads to. *)
LEMMA StageOK ==
    ASSUME Core, NEW r \in Run, run[r].pc \in Stage,
           NEW new \in Row, new.status \in InFlight,
           new.owner = row.owner, new.attempts = row.attempts, new.section = row.section,
           NEW pc \in Pc, FencedSet(r, new, pc),
           \/ pc = "enhanced" /\ run[r].pc \in Before
           \/ pc = "submit" /\ run[r].pc \in Before /\ new.status = "submitting"
           \/ pc \in After /\ (row.owner = r => new.task),
           UNCHANGED <<buyers, published>>
    PROVE  Core'
<1>1. CASE row' = row /\ run'[r].pc = "idle"
    BY <1>1, FencedFacts, Leave DEF Core, SameRow, Others
<1>2. CASE ~(row' = row /\ run'[r].pc = "idle")
    <2>1. /\ Others(r) /\ row.owner = r /\ run'[r].pc = pc
          /\ row' \in Row /\ row'.status = new.status /\ row'.task = new.task
          /\ row'.owner = row.owner /\ row'.attempts = row.attempts
          /\ row'.section = row.section
        BY <1>2, FencedFacts DEF Core, Others
    <2>2. CASE pc = "enhanced" /\ run[r].pc \in Before
        BY <2>1, <2>2, Advance DEF Before
    <2>3. CASE pc = "submit" /\ run[r].pc \in Before /\ new.status = "submitting"
        BY <2>1, <2>3, Advance DEF Before
    <2>4. CASE pc \in After /\ new.task
        BY <2>1, <2>4, Advance DEF Before, After
    <2> QED BY <2>1, <2>2, <2>3, <2>4
<1> QED BY <1>1, <1>2

-----------------------------------------------------------------------------
(* The claim: a row that may have been bought goes to nobody who would buy. *)
LEMMA ClaimOK ==
    ASSUME Core, NEW r \in Run, Claim(r)
    PROVE  Core'
<1>1. CASE ~MayClaim
    BY <1>1, EndFacts, Leave DEF Core, Claim, SameRow, Others
<1>2. CASE MayClaim
    <2> DEFINE attempts == Count(row.attempts)
               pc == IF Poisoned(attempts) THEN "poisoned"
                     ELSE IF row.task THEN "resume"
                     ELSE IF row.enhanced THEN "submitting" ELSE "enhancing"
    <2>1. /\ row' = [row EXCEPT !.owner = r, !.attempts = attempts, !.quiet = FALSE]
          /\ run' = [run EXCEPT ![r] = [pc |-> pc, file |-> row.file, tries |-> 0, paid |-> FALSE]]
          /\ UNCHANGED <<buyers, published>>
        BY <1>2 DEF Claim
    <2>2. /\ attempts \in 1..2
          /\ row.attempts # 0 => attempts = 2
        BY DEF Core, Row, Count
    <2>3. /\ row' \in Row /\ row'.owner = r /\ row'.attempts = attempts
          /\ row'.status = row.status /\ row'.task = row.task /\ row'.section = row.section
        <3>1. attempts \in 0..2
            BY <2>2
        <3> HIDE DEF attempts, pc
        <3> QED BY <2>1, <3>1 DEF Core, Row
    <2>4. pc \in Before \cup {"poisoned", "resume"} /\ pc \in Pc
        BY DEF Before, Pc, Stage
    <2>5. row.file \in BOOLEAN /\ row.task \in BOOLEAN
        BY DEF Core, Row
    <2>6. pc \in Before => ~row.task /\ ~Poisoned(attempts)
        BY <2>5 DEF Before
    <2>7. pc = "resume" => row.task
        BY <2>5
    <2> HIDE DEF pc
    <2>8. [pc |-> pc, file |-> row.file, tries |-> 0, paid |-> FALSE] \in RunState
        BY <2>4, <2>5, TriesAssumption DEF RunState
    <2>9. Others(r) /\ run'[r].pc = pc
        BY <2>1, <2>8 DEF Core, Others
    <2>10. row.status \in InFlight
        BY <1>2 DEF MayClaim
    <2>11. Gone => pc \notin Before
        <3> SUFFICES ASSUME Gone, pc \in Before PROVE FALSE
            OBVIOUS
        <3>1. row.status = "submitting" /\ ~row.task
            BY <2>6, <2>10 DEF Core, BuyOK
        <3>2. attempts = 2
            BY <2>2, <3>1 DEF Core, LeaseOK
        <3> QED BY <2>6, <3>1, <3>2 DEF Poisoned
    <2>12. Gone' => Gone
        BY <2>1, <2>4, <2>9 DEF Gone, Others, Before
    <2> HIDE DEF attempts
    <2>13. LeaseOK'
        BY <2>2, <2>3, <2>4, <2>9, <2>10 DEF Core, Others, LeaseOK, Before
    <2>14. PublishOK'
        BY <2>1, <2>3 DEF Core, PublishOK
    <2>15. BuyOK'
        <3>1. Gone' => row'.status \notin InFlight \/ row'.task \/ row'.status = "submitting"
            BY <2>3, <2>12 DEF Core, BuyOK
        <3>2. Gone' => pc \notin Before
            BY <2>11, <2>12
        <3>3. pc # "submit" /\ (pc \in After => row'.task)
            BY <2>3, <2>4, <2>7 DEF Before, After
        <3> QED BY <2>1, <2>3, <2>9, <3>1, <3>2, <3>3 DEF Core, Others, BuyOK
    <2> QED BY <2>3, <2>9, <2>13, <2>14, <2>15 DEF Core, Others
<1> QED BY <1>1, <1>2

LEMMA SmallNumbers == Count(0) = 1 /\ 1 \in 0..1 /\ 0 \in 0..(MaxTries - 1)
BY TriesAssumption DEF Count

(* The submission: only one run is ever there, and it counts itself once. *)
LEMMA SubmitOK ==
    ASSUME Core, NEW r \in Run, Submit(r)
    PROVE  Core'
<1>1. PICK accepted \in BOOLEAN, next \in {"submit", "store task", "failing"} :
        Answer(r, accepted, next)
    BY DEF Submit
<1> DEFINE tries == IF next = "submit" THEN run[r].tries + 1 ELSE 0
           paid == run[r].paid \/ accepted
           new == [run[r] EXCEPT !.pc = next, !.tries = tries, !.paid = paid]
<1>2. run[r] \in RunState /\ run[r].tries \in 0..(MaxTries - 1) /\ run[r].paid \in BOOLEAN
    BY DEF Core, RunState
<1>0. /\ run[r].pc = "submit" /\ tries < MaxTries
      /\ run' = [run EXCEPT ![r] = new]
      /\ buyers' = IF accepted /\ ~run[r].paid THEN Count(buyers) ELSE buyers
      /\ UNCHANGED <<row, published>>
    BY <1>1 DEF Answer
<1>3. tries \in 0..(MaxTries - 1) /\ paid \in BOOLEAN /\ next \in Pc
    <2>1. tries \in 0..(MaxTries - 1)
        <3>1. CASE next = "submit"
            BY <1>0, <1>2, <3>1, TriesAssumption
        <3>2. CASE next # "submit"
            <4>1. tries = 0
                BY <3>2
            <4> HIDE DEF tries
            <4> QED BY <4>1, SmallNumbers
        <3> QED BY <3>1, <3>2
    <2>2. next \in Pc
        BY DEF Pc, Stage
    <2> QED BY <2>1, <2>2
<1>4. new \in RunState /\ new.pc = next /\ new.paid = paid
    <2> HIDE DEF tries, paid
    <2> QED BY <1>2, <1>3 DEF RunState
<1>5. Others(r) /\ run'[r].pc = next /\ run'[r].paid = paid
    <2> HIDE DEF new
    <2> QED BY <1>0, <1>4 DEF Core, Others
<1>6. /\ ~run[r].paid => buyers = 0
      /\ buyers \in 0..1
      /\ \A s \in Run \ {r} : run[s].pc # "submit"
    BY <1>0 DEF Core, BuyOK
<1>7. buyers' \in 0..1 /\ (~paid => buyers' = 0)
    <2>1. CASE accepted /\ ~run[r].paid
        <3>1. buyers = 0 /\ buyers' = Count(buyers)
            BY <1>0, <1>6, <2>1
        <3>2. paid
            BY <2>1
        <3>3. buyers' = 1
            BY <3>1, SmallNumbers
        <3>4. buyers' \in 0..1
            BY <3>3, SmallNumbers
        <3> QED BY <3>2, <3>4, Zenon
    <2>2. CASE ~(accepted /\ ~run[r].paid)
        <3>1. buyers' = buyers /\ (~paid => ~run[r].paid)
            BY <1>0, <2>2
        <3> QED BY <1>6, <3>1
    <2> QED BY <2>1, <2>2
<1> HIDE DEF paid
<1>8. Gone
    BY <1>0 DEF Gone
<1>9. LeaseOK'
    BY <1>0, <1>5, Owner DEF Core, Others, LeaseOK
<1>10. PublishOK'
    BY <1>0 DEF Core, PublishOK
<1>11. BuyOK'
    BY <1>0, <1>5, <1>6, <1>7, <1>8, Owner DEF Core, Others, BuyOK, Before, After
<1> QED BY <1>0, <1>5, <1>9, <1>10, <1>11 DEF Core, Others

-----------------------------------------------------------------------------
(* Every step preserves the invariant. *)
LEMMA CoreStep ==
    ASSUME IInv, [Next]_vars
    PROVE  Core'
<1>0. Core
    BY DEF IInv
<1>1. CASE UNCHANGED vars
    BY <1>0, <1>1, Stay DEF vars, SameRow, Core
<1> SUFFICES ASSUME Next PROVE Core'
    BY <1>1
<1>2. ASSUME NEW r \in Run, Deliver(r) PROVE Core'
    <2>1. /\ run' = [run EXCEPT ![r].pc = "claim"] /\ "claim" \in Pc
          /\ row.owner # r /\ row.status \in InFlight
          /\ UNCHANGED <<row, buyers, published>>
        BY <1>2 DEF Deliver, GoTo, Pc
    <2>2. Others(r) /\ run'[r].pc = "claim"
        BY <1>0, <2>1, GoToFacts DEF Core, Others, GoTo
    <2>3. LeaseOK' /\ PublishOK'
        BY <1>0, <2>1, <2>2, Owner DEF Core, Others, LeaseOK, PublishOK
    <2>4. BuyOK'
        BY <1>0, <2>1, <2>2, Owner DEF Core, Others, BuyOK, Gone, Before, After
    <2> QED BY <1>0, <2>1, <2>2, <2>3, <2>4 DEF Core, Others
<1>3. ASSUME NEW r \in Run, Claim(r) PROVE Core'
    BY <1>0, <1>3, ClaimOK
<1>4. ASSUME NEW r \in Run, Beat(r) PROVE Core'
    <2>1. row' = [row EXCEPT !.quiet = FALSE] /\ UNCHANGED <<run, buyers, published>>
        BY <1>4 DEF Beat
    <2>2. SameRow
        BY <1>0, <2>1 DEF Core, SameRow, Row
    <2> QED BY <1>0, <2>1, <2>2, Stay
<1>5. ASSUME NEW r \in Run, Poison(r) \/ RecordFailure(r) PROVE Core'
    BY <1>0, <1>5, RecordFailedOK DEF Poison, RecordFailure
<1>6. ASSUME NEW r \in Run, Enhancing(r) PROVE Core'
    <2>1. "enhancing" \in Status /\ "enhancing" \in InFlight /\ "enhanced" \in Pc
          /\ "enhancing" \in Before /\ "enhancing" \in Stage
        BY DEF Status, InFlight, Pc, Stage, Before
    <2> QED BY <1>0, <1>6, <2>1, StageRow, StageOK DEF Enhancing, Core
<1>7. ASSUME NEW r \in Run, Enhanced(r) PROVE Core'
    <2> DEFINE new == [row EXCEPT !.status = "submitting", !.enhanced = TRUE]
    <2>1. /\ "submitting" \in Status /\ "submitting" \in InFlight /\ "submit" \in Pc
          /\ "enhanced" \in Before /\ "enhanced" \in Stage
        BY DEF Status, InFlight, Pc, Stage, Before
    <2>2. /\ new \in Row /\ new.status = "submitting" /\ new.owner = row.owner
          /\ new.attempts = row.attempts /\ new.section = row.section
        BY <1>0, <2>1 DEF Core, Row
    <2>3. /\ FencedSet(r, new, "submit") /\ run[r].pc = "enhanced"
          /\ UNCHANGED <<buyers, published>>
        BY <1>7 DEF Enhanced
    <2> HIDE DEF new
    <2> QED BY <1>0, <2>1, <2>2, <2>3, StageOK
<1>8. ASSUME NEW r \in Run, Submitting(r) PROVE Core'
    <2>1. /\ "submitting" \in Status /\ "submitting" \in InFlight /\ "submit" \in Pc
          /\ "submitting" \in Before /\ "submitting" \in Stage
        BY DEF Status, InFlight, Pc, Stage, Before
    <2> QED BY <1>0, <1>8, <2>1, StageRow, StageOK DEF Submitting, Core
<1>9. ASSUME NEW r \in Run, Submit(r) PROVE Core'
    BY <1>0, <1>9, SubmitOK
<1>10. ASSUME NEW r \in Run, StoreTask(r) PROVE Core'
    <2> DEFINE new == [row EXCEPT !.status = "generating", !.task = TRUE]
               pc == IF run[r].file THEN "transcoding" ELSE "poll"
    <2>1. /\ "generating" \in Status /\ "generating" \in InFlight
          /\ pc \in Pc /\ pc \in After /\ "store task" \in Stage
        BY DEF Status, InFlight, Pc, Stage, After
    <2>2. /\ new \in Row /\ new.status = "generating" /\ new.owner = row.owner
          /\ new.attempts = row.attempts /\ new.section = row.section /\ new.task
        BY <1>0, <2>1 DEF Core, Row
    <2>3. /\ FencedSet(r, new, pc) /\ run[r].pc = "store task"
          /\ UNCHANGED <<buyers, published>>
        BY <1>10 DEF StoreTask
    <2> HIDE DEF new, pc
    <2> QED BY <1>0, <2>1, <2>2, <2>3, StageOK
<1>11. ASSUME NEW r \in Run,
              Resume(r) \/ Downloading(r) \/ StoreFile(r) \/ Transcoding(r)
       PROVE  Core'
    <2>1. PICK new \in Row, pc \in Pc :
            /\ FencedSet(r, new, pc) /\ pc \in After
            /\ new.status \in InFlight /\ new.owner = row.owner
            /\ new.attempts = row.attempts /\ new.section = row.section
            /\ new.task = row.task
        <3>1. {"generating", "downloading", "transcoding"} \subseteq InFlight \cap Status
            BY DEF InFlight, Status
        <3>2. {"transcoding", "poll", "store file", "finalise"} \subseteq After \cap Pc
            BY DEF After, Pc, Stage
        <3>3. CASE Resume(r)
            <4> DEFINE new == [row EXCEPT !.status = "generating"]
                       pc == IF run[r].file THEN "transcoding" ELSE "poll"
            <4>1. /\ new \in Row /\ new.status = "generating" /\ new.owner = row.owner
                  /\ new.attempts = row.attempts /\ new.section = row.section
                  /\ new.task = row.task
                BY <1>0, <3>1, StageRow DEF Core
            <4>2. FencedSet(r, new, pc) /\ pc \in After /\ pc \in Pc
                BY <3>2, <3>3 DEF Resume
            <4> HIDE DEF new, pc
            <4> QED BY <3>1, <4>1, <4>2
        <3>4. CASE Downloading(r)
            <4> DEFINE new == [row EXCEPT !.status = "downloading"]
            <4>1. /\ new \in Row /\ new.status = "downloading" /\ new.owner = row.owner
                  /\ new.attempts = row.attempts /\ new.section = row.section
                  /\ new.task = row.task
                BY <1>0, <3>1, StageRow DEF Core
            <4>2. FencedSet(r, new, "store file")
                BY <3>4 DEF Downloading
            <4> HIDE DEF new
            <4> QED BY <3>1, <3>2, <4>1, <4>2
        <3>5. CASE StoreFile(r)
            <4> DEFINE new == [row EXCEPT !.status = "transcoding", !.file = TRUE]
            <4>1. /\ new \in Row /\ new.status = "transcoding" /\ new.owner = row.owner
                  /\ new.attempts = row.attempts /\ new.section = row.section
                  /\ new.task = row.task
                BY <1>0, <3>1 DEF Core, Row
            <4>2. FencedSet(r, new, "finalise")
                BY <3>5 DEF StoreFile
            <4> HIDE DEF new
            <4> QED BY <3>1, <3>2, <4>1, <4>2
        <3>6. CASE Transcoding(r)
            <4> DEFINE new == [row EXCEPT !.status = "transcoding"]
            <4>1. /\ new \in Row /\ new.status = "transcoding" /\ new.owner = row.owner
                  /\ new.attempts = row.attempts /\ new.section = row.section
                  /\ new.task = row.task
                BY <1>0, <3>1, StageRow DEF Core
            <4>2. FencedSet(r, new, "finalise")
                BY <3>6 DEF Transcoding
            <4> HIDE DEF new
            <4> QED BY <3>1, <3>2, <4>1, <4>2
        <3> QED BY <1>11, <3>3, <3>4, <3>5, <3>6
    <2>2. run[r].pc \in After /\ run[r].pc \in Stage /\ UNCHANGED <<buyers, published>>
        BY <1>11 DEF Resume, Downloading, StoreFile, Transcoding, After, Stage
    <2>3. row.owner = r => row.task
        BY <1>0, <2>2, Owner DEF Core, BuyOK
    <2> QED BY <1>0, <2>1, <2>2, <2>3, StageOK
<1>12. ASSUME NEW r \in Run, GiveUp(r) PROVE Core'
    <2>1. RecordFailed(r) \/ (GiveUp(r) /\ FencedSet(r, [row EXCEPT !.status = "failed"], "done"))
        BY <1>12 DEF GiveUp
    <2> QED BY <1>0, <1>12, RecordFailedOK DEF GiveUp, RecordFailed
<1>13. ASSUME NEW r \in Run, Finalise(r) PROVE Core'
    <2>1. CASE Owns(r)
        <3>1. /\ row' = [row EXCEPT !.status = "ready", !.section = TRUE, !.quiet = FALSE]
              /\ published' = IF row.section THEN published ELSE Count(published)
              /\ run[r].pc = "finalise" /\ UNCHANGED buyers
            BY <1>13, <2>1 DEF Finalise
        <3>2. PICK next \in {"done", "failing"} : GoTo(r, next)
            BY <1>13, <2>1 DEF Finalise
        <3>3. next \in Pc
            BY DEF Pc
        <3>4. Others(r) /\ run'[r].pc \in {"failing", "done"}
            BY <1>0, <3>2, <3>3, GoToFacts DEF Core, Others
        <3>5. row.owner = r /\ row.status \in InFlight
            BY <1>0, <2>1, <3>1, Owner DEF Owns, Core, LeaseOK
        <3>6. published = 0 /\ published' \in 0..1
            BY <1>0, <3>1, <3>5 DEF Core, PublishOK, Count
        <3>7. /\ row' \in Row /\ row'.status \in Terminal
              /\ row'.owner = row.owner /\ row'.attempts = row.attempts
            <4>1. "ready" \in Status /\ "ready" \in Terminal
                BY DEF Status, Terminal
            <4> QED BY <1>0, <3>1, <4>1 DEF Core, Row
        <3> QED BY <1>0, <3>1, <3>4, <3>5, <3>6, <3>7, Terminate
    <2>2. CASE ~Owns(r)
        <3>1. UNCHANGED <<row, buyers, published>> /\ (GoTo(r, "failing") \/ End(r))
            BY <1>13, <2>2 DEF Finalise
        <3>2. Others(r) /\ run'[r].pc \in {"idle", "failing"}
            BY <1>0, <3>1, GoToFacts, EndFacts DEF Core, Others, Pc
        <3> QED BY <1>0, <3>1, <3>2, Leave DEF Core, SameRow
    <2> QED BY <2>1, <2>2
<1>14. ASSUME NEW r \in Run, Throw(r) \/ Return(r) \/ Die(r) PROVE Core'
    <2>1. UNCHANGED <<row, buyers, published>> /\ (GoTo(r, "failing") \/ End(r))
        BY <1>14 DEF Throw, Return, Die
    <2>2. Others(r) /\ run'[r].pc \in {"idle", "failing"}
        BY <1>0, <2>1, GoToFacts, EndFacts DEF Core, Others, Pc
    <2> QED BY <1>0, <2>1, <2>2, Leave DEF Core, SameRow
<1>15. ASSUME GoQuiet PROVE Core'
    <2>1. row' = [row EXCEPT !.quiet = TRUE] /\ UNCHANGED <<run, buyers, published>>
        BY <1>15 DEF GoQuiet
    <2>2. SameRow
        BY <1>0, <2>1 DEF Core, SameRow, Row
    <2> QED BY <1>0, <2>1, <2>2, Stay
<1>16. ASSUME DeleteJob PROVE Core'
    <2>1. row' = NoRow /\ UNCHANGED <<run, buyers, published>>
        BY <1>16 DEF DeleteJob
    <2>2. /\ row' \in Row /\ row'.status = "none" /\ row'.owner = NoRun /\ ~row'.section
          /\ row'.status \notin InFlight
        BY <2>1 DEF NoRow, Row, Status, InFlight
    <2>3. LeaseOK' /\ PublishOK' /\ BuyOK'
        BY <1>0, <2>1, <2>2, Owner DEF Core, LeaseOK, PublishOK, BuyOK, Gone
    <2> QED BY <1>0, <2>1, <2>2, <2>3 DEF Core
<1>17. ASSUME DeleteSection PROVE Core'
    <2>1. row' = [row EXCEPT !.section = FALSE] /\ UNCHANGED <<run, buyers, published>>
        BY <1>17 DEF DeleteSection
    <2>2. SameRow
        BY <1>0, <2>1 DEF Core, SameRow, Row
    <2> QED BY <1>0, <2>1, <2>2, Stay
<1> QED BY <1>2, <1>3, <1>4, <1>5, <1>6, <1>7, <1>8, <1>9, <1>10, <1>11, <1>12, <1>13,
           <1>14, <1>15, <1>16, <1>17 DEF Next, RunStep

LEMMA CountersStep ==
    ASSUME IInv, [Next]_vars
    PROVE  Counters'
<1>1. Count(bought) \in 0..2 /\ Count(buyers) \in 0..2 /\ Count(published) \in 0..2
    BY DEF IInv, Counters, Count
<1>2. bought' \in {bought, Count(bought)} /\ buyers' \in {buyers, Count(buyers)}
      /\ published' \in {published, Count(published)}
    BY DEF Next, RunStep, vars, Deliver, Claim, Beat, Poison, Enhancing, Enhanced, Submitting,
           Submit, Answer, StoreTask, Resume, GiveUp, Downloading, StoreFile, Transcoding,
           Finalise, Throw, RecordFailure, Return, Die, GoQuiet, DeleteJob, DeleteSection
<1>3. UNCHANGED faults \/ Fault
    BY DEF Next, RunStep, vars, Deliver, Claim, Beat, Poison, RecordFailed, Enhancing, Enhanced,
           Submitting, Submit, Answer, StoreTask, Resume, GiveUp, Downloading, StoreFile,
           Transcoding, Finalise, Throw, RecordFailure, Return, Die, GoQuiet, DeleteJob,
           DeleteSection
<1>4. faults' \in 0..MaxFaults
    BY <1>3, FaultsAssumption DEF IInv, Counters, Fault
<1> QED BY <1>1, <1>2, <1>4 DEF IInv, Counters

THEOREM Invariant == Spec => []IInv
<1>1. IInv /\ [Next]_vars => IInv'
    BY CoreStep, CountersStep DEF IInv
<1> QED BY <1>1, InitOK, PTL DEF Spec

-----------------------------------------------------------------------------
(* Type correctness, and that only a row that is over names a section. *)
THEOREM TypeCorrect == Spec => []TypeOK
<1>1. IInv => TypeOK
    BY DEF IInv, Core, Counters, TypeOK
<1> QED BY <1>1, Invariant, PTL

(* Any number of runs, retries, takeovers and lost acknowledgements publish *)
(* at most one section between them.                                        *)
THEOREM AtMostOneSection == Spec => []OneSection
<1>1. IInv => OneSection
    BY DEF IInv, Core, PublishOK, OneSection
<1> QED BY <1>1, Invariant, PTL

(* Whatever the runs are, at most one of them ever buys. *)
THEOREM AtMostOneBuyer == Spec => []RedriveNeverBuysAgain
<1>1. IInv => RedriveNeverBuysAgain
    BY DEF IInv, Core, BuyOK, RedriveNeverBuysAgain
<1> QED BY <1>1, Invariant, PTL

(* No step, of a superseded run in particular, brings a row that is over    *)
(* back into flight.                                                        *)
THEOREM TerminalStays == Spec => TerminalIsFinal
<1> DEFINE P == row.status \in Terminal => row'.status \in Terminal \cup {"none"}
<1>1. ASSUME IInv, Next PROVE P
    <2> SUFFICES ASSUME row.status \in Terminal PROVE row'.status \in Terminal \cup {"none"}
        OBVIOUS
    <2>1. row \in Row /\ row.status \notin InFlight
        BY <1>1 DEF IInv, Core, InFlight, Terminal
    <2>2. ASSUME NEW r \in Run, run[r].pc \in Stage \cup {"poisoned"}, NEW new, NEW pc,
                 FencedSet(r, new, pc)
          PROVE  row' = row
        <3>1. ~Owns(r)
            BY <1>1, <2>1, <2>2, Owner DEF IInv, Core, LeaseOK, Owns, Stage
        <3> QED BY <2>2, <3>1 DEF FencedSet
    <2>3. ASSUME NEW r \in Run, RecordFailed(r) PROVE row'.status \in Terminal
        <3>1. row' = row \/
                  row' = [[row EXCEPT !.status = "failed"] EXCEPT !.quiet = FALSE]
            BY <2>3 DEF RecordFailed, FencedSet
        <3>2. [[row EXCEPT !.status = "failed"] EXCEPT !.quiet = FALSE].status = "failed"
            BY <2>1 DEF Row
        <3> QED BY <3>1, <3>2 DEF Terminal
    <2>4. ASSUME NEW r \in Run, RunStep(r) PROVE row'.status \in Terminal
        <3>1. CASE Deliver(r) \/ Submit(r) \/ Return(r)
            BY <3>1 DEF Deliver, Submit, Answer, Return
        <3>2. CASE Claim(r)
            BY <2>1, <3>2 DEF Claim, MayClaim
        <3>3. CASE Beat(r)
            BY <2>1, <3>3 DEF Beat, Row
        <3>4. CASE Poison(r) \/ RecordFailure(r)
            BY <2>3, <3>4 DEF Poison, RecordFailure
        <3>5. CASE \/ Enhancing(r) \/ Enhanced(r) \/ Submitting(r) \/ StoreTask(r) \/ Resume(r)
                   \/ GiveUp(r) \/ Downloading(r) \/ StoreFile(r) \/ Transcoding(r)
            <4>1. /\ run[r].pc \in Stage
                  /\ \E new, pc : FencedSet(r, new, pc)
                BY <3>5 DEF Enhancing, Enhanced, Submitting, StoreTask, Resume, GiveUp,
                            Downloading, StoreFile, Transcoding, Stage
            <4> QED BY <2>2, <4>1
        <3>6. CASE Finalise(r)
            <4>1. ~Owns(r)
                BY <1>1, <2>1, <3>6, Owner DEF IInv, Core, LeaseOK, Owns, Finalise
            <4> QED BY <3>6, <4>1 DEF Finalise
        <3> QED BY <2>4, <3>1, <3>2, <3>3, <3>4, <3>5, <3>6 DEF RunStep
    <2>5. ASSUME NEW r \in Run, Throw(r) \/ Die(r) PROVE row' = row
        BY <2>5 DEF Throw, Die
    <2>6. CASE GoQuiet \/ DeleteSection
        BY <2>1, <2>6 DEF GoQuiet, DeleteSection, Row
    <2>7. CASE DeleteJob
        BY <2>7 DEF DeleteJob, NoRow
    <2> QED BY <1>1, <2>4, <2>5, <2>6, <2>7 DEF Next
<1>2. IInv /\ [Next]_vars => [P]_vars
    BY <1>1
<1> QED BY <1>2, Invariant, PTL DEF Spec, TerminalIsFinal
=============================================================================
