------------------------- MODULE HlsVersionsProofs -------------------------
(***************************************************************************)
(* Proofs about HlsVersions, for any number of transcodes, viewers and     *)
(* media and any mishaps.                                                  *)
(*                                                                         *)
(* A pointer names a tree only while its run goes through Publish or Flip, *)
(* and a tree is retired only by a run beyond them: by its own, or by one   *)
(* that found it named and has named another since.                        *)
(***************************************************************************)
EXTENDS HlsVersions, TLAPS

Names == Run \cup {NoTree}
Pc == Active \cup {"new", "done", "orphan"}
RunState == [pc : Pc, media : 1..MaxMedia, old : Names, early : BOOLEAN]
ViewerState == [tree : Names, late : BOOLEAN]

(* The run of this tree names it no more. *)
Past(t) == run[t].pc \notin {"new", "begin", "encode", "ladder"}

Types ==
    /\ row \in Row /\ run \in [Run -> RunState]
    /\ waiting \in BOOLEAN /\ stored \in SUBSET Run
    /\ retired \in [Run -> {"no", "kept", "due"}]
    /\ viewer \in [Viewer -> ViewerState]
    /\ mishap \in Mishap \cup {"none"}

PastOK ==
    /\ row.master # NoTree => Past(row.master)
    /\ \A r \in Run : run[r].old # NoTree => Past(run[r].old)
    /\ \A t \in Run : retired[t] # "no" => Past(t)

Core == Types /\ PastOK

-----------------------------------------------------------------------------
(* What a step does to the run that takes it. *)
Moves(r, pc, media, old, early) ==
    /\ run' \in [Run -> RunState]
    /\ run'[r].pc = pc /\ run'[r].media = media /\ run'[r].old = old /\ run'[r].early = early
    /\ \A s \in Run \ {r} : run'[s] = run[s]

LEMMA Pcs ==
    /\ {"begin", "encode", "ladder", "retire old", "failing", "retire own", "done",
       "orphan"} \subseteq Pc
    /\ Active \subseteq Pc
    /\ \A pc : pc \in Active <=>
         pc \in {"begin", "encode", "ladder", "retire old", "failing", "retire own"}
BY DEF Pc, Active

LEMMA GoToMoves ==
    ASSUME Types, NEW r \in Run, NEW pc \in Pc, GoTo(r, pc)
    PROVE  Moves(r, pc, run[r].media, run[r].old, run[r].early)
<1> DEFINE rec == [run[r] EXCEPT !.pc = pc]
<1>1. run' = [run EXCEPT ![r] = rec]
    BY DEF GoTo, Types
<1>2. /\ rec \in RunState /\ rec.pc = pc /\ rec.media = run[r].media
      /\ rec.old = run[r].old /\ rec.early = run[r].early
    BY DEF Types, RunState
<1> HIDE DEF rec
<1> QED BY <1>1, <1>2 DEF Types, Moves

LEMMA EndAsMoves ==
    ASSUME Types, NEW r \in Run, NEW pc \in Pc, EndAs(r, pc)
    PROVE  Moves(r, pc, run[r].media, NoTree, FALSE)
<1> DEFINE rec == [NewRun EXCEPT !.pc = pc, !.media = run[r].media]
<1>1. run' = [run EXCEPT ![r] = rec]
    BY DEF EndAs
<1>2. /\ rec \in RunState /\ rec.pc = pc /\ rec.media = run[r].media
      /\ rec.old = NoTree /\ rec.early = FALSE
    BY DEF Types, RunState, NewRun, Names
<1> HIDE DEF rec
<1> QED BY <1>1, <1>2 DEF Types, Moves

LEMMA EndMoves ==
    ASSUME Types, NEW r \in Run, End(r)
    PROVE  Moves(r, "done", run[r].media, NoTree, FALSE)
BY EndAsMoves, Pcs DEF End

LEMMA StartMoves ==
    ASSUME Types, NEW r \in Run, Start(r)
    PROVE  Moves(r, "begin", row.media, row.master, FALSE)
<1> DEFINE rec == [pc |-> "begin", media |-> row.media, old |-> row.master, early |-> FALSE]
<1>1. run' = [run EXCEPT ![r] = rec]
    BY DEF Start
<1>2. rec \in RunState
    BY Pcs DEF Types, RunState, Row, Names
<1> HIDE DEF rec
<1>3. run'[r] = rec /\ run' \in [Run -> RunState] /\ \A s \in Run \ {r} : run'[s] = run[s]
    BY <1>1, <1>2 DEF Types
<1> QED BY <1>3 DEF Moves, rec

LEMMA PublishMoves ==
    ASSUME Types, NEW r \in Run, Publish(r)
    PROVE  \/ Moves(r, "ladder", run[r].media, run[r].old, TRUE) /\ UNCHANGED mishap
           \/ Moves(r, "failing", run[r].media, run[r].old, run[r].early) /\ Suffer("answer")
<1>1. CASE /\ run' = [run EXCEPT ![r].pc = "ladder", ![r].early = TRUE] /\ UNCHANGED mishap
    <2> DEFINE rec == [[run[r] EXCEPT !.pc = "ladder"] EXCEPT !.early = TRUE]
    <2>1. run' = [run EXCEPT ![r] = rec]
        BY <1>1 DEF Types
    <2>2. /\ rec \in RunState /\ rec.pc = "ladder" /\ rec.media = run[r].media
          /\ rec.old = run[r].old /\ rec.early = TRUE
        BY Pcs DEF Types, RunState
    <2> HIDE DEF rec
    <2> QED BY <1>1, <2>1, <2>2 DEF Types, Moves
<1> QED BY <1>1, GoToMoves, Pcs DEF Publish

-----------------------------------------------------------------------------
(* Every run step, with what it does to the row and to the trees. *)
RowIs(media, status, master, early) ==
    /\ row' \in Row /\ row'.media = media /\ row'.status = status
    /\ row'.master = master /\ row'.early = early

LEMMA RowParts ==
    ASSUME Types
    PROVE  /\ row.media \in 1..MaxMedia /\ row.master \in Names /\ row.early \in Names
           /\ row.status \in {"pending", "processing", "ready", "failed"}
           /\ row.quiet \in BOOLEAN
BY DEF Types, Row, Names

LEMMA ProcessingRow ==
    ASSUME Types, NEW r \in Run, Processing(r)
    PROVE  RowIs(row.media, "processing", row.master, row.early)
BY DEF Types, Row, Processing, RowIs

LEMMA PublishRow ==
    ASSUME Types, NEW r \in Run, Publish(r)
    PROVE  RowIs(row.media, row.status, row.master, r)
BY DEF Types, Row, Publish, RowIs

LEMMA FlipRow ==
    ASSUME Types, NEW r \in Run, Flip(r)
    PROVE  RowIs(row.media, "ready", r, row.early)
BY DEF Types, Row, Flip, RowIs

LEMMA RetranscodeRow ==
    ASSUME Types, Retranscode PROVE RowIs(row.media, "pending", NoTree, NoTree)
BY DEF Types, Row, Retranscode, RowIs

LEMMA ReplaceRow ==
    ASSUME Types, Replace PROVE RowIs(row.media + 1, "pending", row.master, row.early)
<1>1. row.media + 1 \in 1..MaxMedia
    BY MediaAssumption DEF Types, Row, Replace
<1> QED BY <1>1 DEF Types, Row, Replace, RowIs

LEMMA QuietRow ==
    ASSUME Types, NEW quiet \in BOOLEAN, row' = [row EXCEPT !.quiet = quiet]
    PROVE  RowIs(row.media, row.status, row.master, row.early)
BY DEF Types, Row, RowIs

LEMMA ReapRow ==
    ASSUME Types, Reap PROVE RowIs(row.media, "failed", row.master, row.early)
BY DEF Types, Row, Reap, RowIs

LEMMA WriteFailureRow ==
    ASSUME Types, NEW r \in Run, WriteFailure(r), row' # row
    PROVE  RowIs(row.media, "failed", row.master, IF run[r].early THEN NoTree ELSE row.early)
BY DEF Types, Row, WriteFailure, RowIs
LEMMA RetireFacts ==
    ASSUME Types, NEW t \in Names, RetireTree(t)
    PROVE  /\ retired' \in [Run -> {"no", "kept", "due"}]
           /\ \A u \in Run : retired'[u] # "no" => retired[u] # "no" \/ u = t
           /\ \A u \in Run : retired'[u] = "due" => retired[u] = "due"
BY DEF Types, RetireTree, Names

-----------------------------------------------------------------------------
(* Types, and the order in which a tree is named and retired. *)
LEMMA Together ==
    ASSUME row' \in Row, run' \in [Run -> RunState], waiting' \in BOOLEAN,
           stored' \in SUBSET Run, retired' \in [Run -> {"no", "kept", "due"}],
           viewer' \in [Viewer -> ViewerState], mishap' \in Mishap \cup {"none"}
    PROVE  Types'
BY DEF Types

LEMMA SufferTyped ==
    ASSUME Types, NEW m, Suffer(m) \/ UNCHANGED mishap PROVE mishap' \in Mishap \cup {"none"}
BY DEF Types, Suffer

LEMMA PastStep ==
    ASSUME Types, PastOK,
           \A t \in Run : Past(t) => Past(t)',
           row'.master \in {row.master, NoTree} \/ Past(row.master)',
           \A r \in Run : run'[r].old \in {run[r].old, NoTree, row.master},
           \A t \in Run : retired'[t] # "no" => retired[t] # "no" \/ Past(t)'
    PROVE  PastOK'
<1>1. row.master # NoTree => row.master \in Run /\ Past(row.master)
    BY DEF Types, Row, PastOK
<1>2. \A r \in Run : run[r].old # NoTree => run[r].old \in Run /\ Past(run[r].old)
    BY DEF Types, RunState, Names, PastOK
<1>3. row'.master # NoTree => Past(row.master)'
    BY <1>1
<1>4. \A r \in Run : run'[r].old # NoTree => Past(run[r].old)'
    BY <1>1, <1>2
<1>5. \A t \in Run : retired'[t] # "no" => Past(t)'
    BY DEF PastOK
<1> QED BY <1>3, <1>4, <1>5 DEF PastOK

(* The steps that move no run. *)
LEMMA StandingPast ==
    ASSUME Types, PastOK, UNCHANGED run, row'.master \in {row.master, NoTree},
           \A t \in Run : retired'[t] # "no" => retired[t] # "no"
    PROVE  PastOK'
BY PastStep DEF Past

LEMMA SendTyped == ASSUME Types, Send PROVE waiting' \in BOOLEAN /\ mishap' \in Mishap \cup {"none"}
BY SufferTyped DEF Types, Send

LEMMA RoutesCore == ASSUME Core, Replace \/ Retranscode PROVE Core'
<1>1. Types /\ PastOK
    BY DEF Core
<1>2. row' \in Row /\ row'.master \in {row.master, NoTree}
    BY <1>1, ReplaceRow, RetranscodeRow DEF RowIs
<1>3. UNCHANGED <<run, stored, retired, viewer>> /\ Send
    BY DEF Replace, Retranscode
<1> QED BY <1>1, <1>2, <1>3, SendTyped, StandingPast, Together DEF Core, Types

LEMMA RowCore ==
    ASSUME Core, Expire \/ GoQuiet \/ Reap \/ \E r \in Run : Beat(r)
    PROVE  Core'
<1>1. Types /\ PastOK
    BY DEF Core
<1>2. row' \in Row /\ row'.master = row.master
    BY <1>1, QuietRow, ReapRow DEF Expire, GoQuiet, Beat, RowIs, Types
<1>3. UNCHANGED <<run, stored, retired, viewer>>
    BY DEF Expire, GoQuiet, Reap, Beat
<1>4. waiting' \in BOOLEAN /\ mishap' \in Mishap \cup {"none"}
    BY <1>1, SufferTyped DEF Expire, GoQuiet, Reap, Beat, Types
<1> QED BY <1>1, <1>2, <1>3, <1>4, StandingPast, Together DEF Core, Types

LEMMA ViewerCore == ASSUME Core, NEW v \in Viewer, Load(v) \/ Leave(v) PROVE Core'
<1>1. Types /\ PastOK
    BY DEF Core
<1>2. UNCHANGED <<row, run, waiting, stored, retired, mishap>>
    BY DEF Load, Leave
<1>3. Play \in Names /\ [tree |-> Play, late |-> retired[Play] # "no"] \in ViewerState
    BY <1>1, RowParts DEF Play, Names, ViewerState
<1>4. NotWatching \in ViewerState
    BY DEF NotWatching, ViewerState, Names
<1>5. viewer' \in [Viewer -> ViewerState]
    BY <1>1, <1>3, <1>4 DEF Load, Leave, Types
<1> QED BY <1>1, <1>2, <1>5, StandingPast, Together DEF Core, Types

LEMMA SweepCore == ASSUME Core, NEW t \in Run, Ripen(t) \/ Sweep(t) PROVE Core'
<1>1. Types /\ PastOK
    BY DEF Core
<1>2. UNCHANGED <<row, run, waiting, viewer, mishap>>
    BY DEF Ripen, Sweep
<1>3. /\ retired' \in [Run -> {"no", "kept", "due"}] /\ stored' \in SUBSET Run
      /\ \A u \in Run : retired'[u] # "no" => retired[u] # "no"
    BY <1>1 DEF Ripen, Sweep, Due, Types
<1> QED BY <1>1, <1>2, <1>3, StandingPast, Together DEF Core, Types

(* A run that moves on, with the pointers and the retired trees it may touch. *)
LEMMA MovesCore ==
    ASSUME Core, NEW r \in Run, NEW pc, NEW media, NEW old, NEW early,
           Moves(r, pc, media, old, early),
           Past(r) => pc \notin {"new", "begin", "encode", "ladder"},
           old \in {run[r].old, NoTree, row.master},
           row' \in Row,
           \/ row'.master \in {row.master, NoTree}
           \/ row'.master = r /\ pc \notin {"new", "begin", "encode", "ladder"},
           retired' \in [Run -> {"no", "kept", "due"}],
           \A t \in Run : retired'[t] # "no" => retired[t] # "no" \/ Past(t)',
           waiting' \in BOOLEAN, stored' \in SUBSET Run,
           UNCHANGED viewer, mishap' \in Mishap \cup {"none"}
    PROVE  Core'
<1>1. Types /\ PastOK
    BY DEF Core
<1>2. \A t \in Run : Past(t) => Past(t)'
    BY DEF Moves, Past
<1>3. row'.master \in {row.master, NoTree} \/ Past(row.master)'
    BY DEF Moves, Past
<1>4. \A s \in Run : run'[s].old \in {run[s].old, NoTree, row.master}
    BY DEF Moves
<1>5. PastOK'
    BY <1>1, <1>2, <1>3, <1>4, PastStep
<1>6. Types'
    BY <1>1, Together DEF Moves, Types
<1> QED BY <1>5, <1>6 DEF Core

LEMMA StartCore == ASSUME Core, NEW r \in Run, Start(r) PROVE Core'
<1>1. Types /\ ~Past(r)
    BY DEF Core, Start, Past
<1>2. Moves(r, "begin", row.media, row.master, FALSE)
    BY <1>1, StartMoves
<1> QED BY <1>1, <1>2, MovesCore, SufferTyped DEF Start, Types

LEMMA EarlyStepsCore ==
    ASSUME Core, NEW r \in Run,
           Processing(r) \/ Publish(r) \/ Flip(r) \/ Throw(r) \/ WorkDirFails(r)
    PROVE  Core'
<1>1. Types /\ ~Past(r)
    BY DEF Core, Processing, Publish, Flip, Throw, WorkDirFails, Past
<1>2. CASE Processing(r)
    <2>1. Moves(r, "encode", run[r].media, run[r].old, run[r].early)
        BY <1>1, <1>2, GoToMoves, Pcs DEF Processing
    <2>2. row' \in Row /\ row'.master = row.master
        BY <1>1, <1>2, ProcessingRow DEF RowIs
    <2> QED BY <1>1, <1>2, <2>1, <2>2, MovesCore DEF Processing, Types
<1>3. CASE Publish(r)
    <2>1. row' \in Row /\ row'.master = row.master
        BY <1>1, <1>3, PublishRow DEF RowIs
    <2>2. UNCHANGED <<waiting, retired, viewer>> /\ stored' = stored \cup {r}
        BY <1>3 DEF Publish
    <2>3. stored' \in SUBSET Run /\ mishap' \in Mishap \cup {"none"}
        BY <1>1, <1>3, <2>2, SufferTyped DEF Publish, Types
    <2> QED BY <1>1, <1>3, <2>1, <2>2, <2>3, PublishMoves, MovesCore DEF Types
<1>4. CASE Flip(r)
    <2>1. PICK pc \in {"retire old", "failing"} :
             Moves(r, pc, run[r].media, run[r].old, run[r].early)
        BY <1>1, <1>4, GoToMoves, Pcs DEF Flip
    <2>2. row' \in Row /\ row'.master = r
        BY <1>1, <1>4, FlipRow DEF RowIs
    <2> QED BY <1>1, <1>4, <2>1, <2>2, MovesCore, SufferTyped DEF Flip, Types
<1>5. CASE Throw(r)
    <2>1. Moves(r, "failing", run[r].media, run[r].old, run[r].early)
        BY <1>1, <1>5, GoToMoves, Pcs DEF Throw
    <2> QED BY <1>1, <1>5, <2>1, MovesCore DEF Throw, Types
<1>6. CASE WorkDirFails(r)
    <2>1. Moves(r, "orphan", run[r].media, NoTree, FALSE)
        BY <1>1, <1>6, EndAsMoves, Pcs DEF WorkDirFails
    <2> QED BY <1>1, <1>6, <2>1, MovesCore, SufferTyped DEF WorkDirFails, Types
<1> QED BY <1>2, <1>3, <1>4, <1>5, <1>6

LEMMA LateStepsCore ==
    ASSUME Core, NEW r \in Run, RetireOld(r) \/ WriteFailure(r) \/ RetireOwn(r)
                                  \/ Die(r) \/ Restart(r)
    PROVE  Core'
<1>1. Types
    BY DEF Core
<1>2. CASE RetireOld(r)
    <2>1. Moves(r, "done", run[r].media, NoTree, FALSE)
        BY <1>1, <1>2, EndMoves DEF RetireOld
    <2>2. run[r].old \in Names /\ RetireTree(run[r].old)
        BY <1>1, <1>2 DEF Types, RunState, RetireOld
    <2>3. \A t \in Run : retired'[t] # "no" => retired[t] # "no" \/ Past(t)'
        <3>1. ASSUME NEW x \in Run, x = run[r].old PROVE Past(x)'
            BY <2>1, <3>1, RunAssumption DEF Core, PastOK, Past, Moves
        <3> QED BY <1>1, <2>2, <3>1, RetireFacts
    <2> QED BY <1>1, <1>2, <2>1, <2>2, <2>3, RetireFacts, MovesCore DEF RetireOld, Types
<1>3. CASE WriteFailure(r)
    <2>1. \/ Moves(r, "retire own", run[r].media, run[r].old, run[r].early)
          \/ Moves(r, "done", run[r].media, NoTree, FALSE)
        BY <1>1, <1>3, GoToMoves, EndMoves, Pcs DEF WriteFailure
    <2>2. row' \in Row /\ row'.master = row.master
        BY <1>1, <1>3, WriteFailureRow DEF RowIs, Types
    <2>3. waiting' \in BOOLEAN
        BY <1>1, <1>3 DEF WriteFailure, Types
    <2> QED BY <1>1, <1>3, <2>1, <2>2, <2>3, MovesCore DEF WriteFailure, Types
<1>4. CASE RetireOwn(r)
    <2>1. Moves(r, "done", run[r].media, NoTree, FALSE)
        BY <1>1, <1>4, EndMoves DEF RetireOwn
    <2>2. /\ retired' \in [Run -> {"no", "kept", "due"}]
          /\ \A t \in Run : retired'[t] # "no" => retired[t] # "no" \/ t = r
        BY <1>1, <1>4, RetireFacts DEF RetireOwn, Types, Names
    <2>3. Past(r)' /\ waiting' \in BOOLEAN
        BY <1>1, <1>4, <2>1 DEF Past, Moves, RetireOwn, Types
    <2> QED BY <1>1, <1>4, <2>1, <2>2, <2>3, MovesCore DEF RetireOwn, Types
<1>5. CASE Die(r)
    <2>1. Moves(r, "done", run[r].media, NoTree, FALSE)
        BY <1>1, <1>5, EndMoves DEF Die
    <2> QED BY <1>1, <1>5, <2>1, MovesCore, SufferTyped DEF Die, Types
<1>6. CASE Restart(r)
    <2>1. Moves(r, "done", run[r].media, NoTree, FALSE)
        BY <1>1, <1>6, EndMoves DEF Restart
    <2> QED BY <1>1, <1>6, <2>1, MovesCore DEF Restart, Types
<1> QED BY <1>2, <1>3, <1>4, <1>5, <1>6

LEMMA NextCore == ASSUME Core, [Next]_vars PROVE Core'
<1>1. CASE UNCHANGED vars
    BY <1>1, StandingPast, Together DEF Core, vars, Types
<1> QED BY <1>1, RoutesCore, RowCore, ViewerCore, SweepCore, StartCore,
           EarlyStepsCore, LateStepsCore DEF Next, RunStep

LEMMA InitCore == ASSUME Init PROVE Core
<1>1. row \in Row
    BY MediaAssumption DEF Init, Row
<1>2. run \in [Run -> RunState] /\ \A r \in Run : run[r].old = NoTree
    BY MediaAssumption DEF Init, NewRun, RunState, Pc, Names
<1>3. viewer \in [Viewer -> ViewerState]
    BY DEF Init, NotWatching, ViewerState, Names
<1> QED BY <1>1, <1>2, <1>3 DEF Init, Core, Types, PastOK

(* Every variable has its type, and no run's tree is queued for deletion      *)
(* while the run still writes to it.                                          *)
THEOREM TypeCorrect == Spec => []TypeOK
<1>1. Init => Core
    BY InitCore
<1>2. Core /\ [Next]_vars => Core'
    BY NextCore
<1>3. Core => TypeOK
    BY DEF Core, Types, PastOK, Past, TypeOK, RunState, Pc, Names, ViewerState
<1> QED BY <1>1, <1>2, <1>3, PTL DEF Spec

-----------------------------------------------------------------------------
(* While no answer is lost, a pointer names only trees whose run can account *)
(* for it: the run that failed knows that it has to take its early pointer   *)
(* back before it retires its tree, and the run that flipped has left the    *)
(* tree it replaced without a pointer.                                       *)
MasterOK == row.master # NoTree =>
    row.master \in stored /\ run[row.master].pc \in {"retire old", "done"}

EarlyOK == row.early # NoTree =>
    /\ row.early \in stored
    /\ run[row.early].pc \in {"ladder", "failing", "retire old", "done"}
    /\ run[row.early].pc \in {"ladder", "failing"} => run[row.early].early

OldOK(r) ==
    /\ run[r].pc = "ladder" => r \in stored /\ run[r].old # row.early
    /\ run[r].pc = "retire old" => run[r].old \notin {row.master, row.early}

RetiredOK(t) == retired[t] # "no" => t \notin {row.master, row.early}

ViewerOK(v) == viewer[v].tree # NoTree =>
    viewer[v].tree \in stored /\ ~viewer[v].late /\ retired[viewer[v].tree] # "due"

Played ==
    /\ MasterOK /\ EarlyOK
    /\ \A r \in Run : run[r].old # NoTree => OldOK(r)
    /\ \A r \in Run : run[r].pc = "ladder" => r \in stored
    /\ \A t \in Run : RetiredOK(t)
    /\ \A v \in Viewer : ViewerOK(v)

LEMMA RowTrees ==
    ASSUME Core
    PROVE  /\ row.master # NoTree => row.master \in Run /\ Past(row.master)
           /\ row.early # NoTree => row.early \in Run
           /\ \A r \in Run : run[r].old # NoTree => run[r].old \in Run /\ Past(run[r].old)
           /\ \A v \in Viewer : viewer[v].tree # NoTree => viewer[v].tree \in Run
           /\ \A t \in Run : retired[t] # "no" => Past(t)
BY DEF Core, Types, PastOK, Row, RunState, ViewerState, Names

(* Steps that leave the runs, the pointers and the trees alone. *)
LEMMA StandingPlayed ==
    ASSUME Core, Played, UNCHANGED <<run, stored, retired, viewer>>,
           \/ row'.master = row.master /\ row'.early = row.early
           \/ row'.master = NoTree /\ row'.early = NoTree
    PROVE  Played'
<1>1. MasterOK' /\ EarlyOK'
    BY DEF Played, MasterOK, EarlyOK
<1>2. ASSUME NEW r \in Run, run[r].old # NoTree PROVE OldOK(r)'
    BY <1>2 DEF Played, OldOK
<1>3. ASSUME NEW t \in Run PROVE RetiredOK(t)'
    BY RunAssumption DEF Played, RetiredOK
<1>4. ASSUME NEW v \in Viewer PROVE ViewerOK(v)'
    BY DEF Played, ViewerOK
<1> QED BY <1>1, <1>2, <1>3, <1>4 DEF Played

LEMMA RowPlayed ==
    ASSUME Core, Played,
           Replace \/ Retranscode \/ Expire \/ GoQuiet \/ Reap \/ \E r \in Run : Beat(r)
    PROVE  Played'
<1>1. Types
    BY DEF Core
<1>2. UNCHANGED <<run, stored, retired, viewer>>
    BY DEF Replace, Retranscode, Expire, GoQuiet, Reap, Beat
<1>3. \/ row'.master = row.master /\ row'.early = row.early
      \/ row'.master = NoTree /\ row'.early = NoTree
    BY <1>1, ReplaceRow, RetranscodeRow, QuietRow, ReapRow
    DEF Expire, GoQuiet, Beat, RowIs
<1> QED BY <1>2, <1>3, StandingPlayed

LEMMA ViewerPlayed ==
    ASSUME Core, Played, NEW v \in Viewer, Load(v) \/ Leave(v) PROVE Played'
<1>1. UNCHANGED <<row, run, waiting, stored, retired, mishap>>
    BY DEF Load, Leave
<1>2. ASSUME NEW u \in Viewer PROVE ViewerOK(u)'
    <2>1. CASE u # v
        BY <1>1, <2>1 DEF Core, Types, Played, ViewerOK, Load, Leave
    <2>2. CASE u = v /\ Leave(v)
        BY <2>2 DEF Core, Types, ViewerOK, Leave, NotWatching
    <2>3. CASE u = v /\ Load(v)
        <3>1. viewer'[v] = [tree |-> Play, late |-> retired[Play] # "no"]
            BY <2>3 DEF Core, Types, Load
        <3>2. Play \in stored /\ retired[Play] = "no"
            BY <2>3, RowTrees DEF Played, MasterOK, EarlyOK, RetiredOK, Play, Load
        <3>3. viewer'[v].tree = Play /\ viewer'[v].late = (retired[Play] # "no")
            BY <3>1
        <3> QED BY <1>1, <2>3, <3>2, <3>3 DEF ViewerOK
    <2> QED BY <2>1, <2>2, <2>3
<1> QED BY <1>1, <1>2 DEF Played, MasterOK, EarlyOK, OldOK, RetiredOK

LEMMA SweepPlayed ==
    ASSUME Core, Played, NEW t \in Run, Ripen(t) \/ Sweep(t) PROVE Played'
<1>1. UNCHANGED <<row, run, viewer>> /\ retired[t] # "no"
    BY DEF Ripen, Sweep, Due
<1>2. t \notin {row.master, row.early} /\ Past(t)
    BY <1>1, RowTrees DEF Played, RetiredOK
<1>3. /\ \A u \in Run : retired'[u] # "no" => retired[u] # "no"
      /\ \A u \in Run \ {t} : retired'[u] = retired[u]
    BY DEF Core, Types, Ripen, Sweep, Due
<1>4. \A u \in Run \ {t} : u \in stored => u \in stored'
    BY DEF Ripen, Sweep
<1>5. ASSUME NEW v \in Viewer PROVE ViewerOK(v)'
    <2>1. viewer[v].tree # t
        BY <1>1, RunAssumption DEF Played, ViewerOK, Ripen, Sweep, Due
    <2> QED BY <1>1, <1>3, <1>4, <2>1, RowTrees DEF Played, ViewerOK
<1>6. MasterOK' /\ EarlyOK'
    BY <1>1, <1>2, <1>4, RowTrees DEF Played, MasterOK, EarlyOK
<1>7. \A r \in Run : run[r].pc = "ladder" => r \in stored'
    BY <1>2, <1>4 DEF Played, Past
<1>8. \A u \in Run : RetiredOK(u)'
    BY <1>1, <1>3 DEF Played, RetiredOK
<1>9. \A r \in Run : run[r].old # NoTree => OldOK(r)'
    BY <1>1, <1>7 DEF Played, OldOK
<1> QED BY <1>1, <1>5, <1>6, <1>7, <1>8, <1>9 DEF Played

RetiresUnnamed ==
    /\ \A t \in Run : retired'[t] # "no" =>
          retired[t] # "no" \/ t \notin {row.master, row.early}
    /\ \A t \in Run : retired'[t] = "due" => retired[t] = "due"

(* A run that moves and touches no pointer. *)
LEMMA MovesPlayed ==
    ASSUME Core, Played, NEW r \in Run, NEW pc, NEW media, NEW old, NEW early,
           Moves(r, pc, media, old, early), pc \notin {"ladder", "retire old"},
           UNCHANGED <<stored, viewer>>,
           row'.master = row.master /\ row'.early = row.early,
           row.master = r => pc = "done",
           row.early = r => pc = "done" \/ (pc = "failing" /\ early),
           RetiresUnnamed
    PROVE  Played'
<1>1. MasterOK' /\ EarlyOK'
    BY RowTrees DEF Played, MasterOK, EarlyOK, Moves
<1>2. ASSUME NEW s \in Run PROVE run'[s].old # NoTree => OldOK(s)'
    BY DEF Played, OldOK, Moves
<1>3. ASSUME NEW s \in Run PROVE run'[s].pc = "ladder" => s \in stored'
    BY DEF Played, Moves
<1>4. ASSUME NEW t \in Run PROVE RetiredOK(t)'
    BY DEF Played, RetiredOK, RetiresUnnamed
<1>5. ASSUME NEW v \in Viewer PROVE ViewerOK(v)'
    BY RowTrees DEF Core, Types, Played, ViewerOK, RetiresUnnamed
<1> QED BY <1>1, <1>2, <1>3, <1>4, <1>5 DEF Played

LEMMA EndPlayed ==
    ASSUME Core, Played, NEW r \in Run, End(r), UNCHANGED <<row, stored, viewer>>, RetiresUnnamed
    PROVE  Played'
<1>1. \E pc \in {"done"} : \E media, old, early : Moves(r, pc, media, old, early)
    BY EndMoves DEF Core
<1>2. row'.master = row.master /\ row'.early = row.early
    OBVIOUS
<1> QED BY <1>1, <1>2, MovesPlayed

LEMMA StartPlayed ==
    ASSUME Core, Played, NEW r \in Run,
           Start(r) \/ Processing(r) \/ WorkDirFails(r) \/ Throw(r) \/ Die(r)
    PROVE  Played'
<1>1. Types
    BY DEF Core
<1>2. \E pc \in {"begin", "encode", "orphan", "failing", "done"} : \E media, old, early :
          /\ Moves(r, pc, media, old, early)
          /\ run[r].pc \in {"new", "begin", "encode", "ladder"} \/ pc = "done"
          /\ run[r].pc \in {"new", "begin", "encode"} \/ pc = "done"
                \/ (pc = "failing" /\ early = run[r].early /\ run[r].pc = "ladder")
    BY <1>1, StartMoves, GoToMoves, EndMoves, EndAsMoves, Pcs
    DEF Start, Processing, WorkDirFails, Throw, Die
<1>3. row'.master = row.master /\ row'.early = row.early /\ UNCHANGED <<stored, viewer, retired>>
    BY <1>1, ProcessingRow DEF Start, Processing, WorkDirFails, Throw, Die, RowIs
<1>4. run[r].pc \in {"new", "begin", "encode", "ladder"} => row.master # r
    BY RowTrees, RunAssumption DEF Past
<1>5. /\ run[r].pc \in {"new", "begin", "encode"} => row.early # r
      /\ run[r].pc = "ladder" /\ row.early = r => run[r].early
    BY RunAssumption DEF Played, EarlyOK
<1>6. RetiresUnnamed
    BY <1>3 DEF RetiresUnnamed
<1> QED BY <1>2, <1>3, <1>4, <1>5, <1>6, MovesPlayed

LEMMA PublishPlayed ==
    ASSUME Core, Played, NEW r \in Run, Publish(r), mishap' # "answer" PROVE Played'
<1>1. Types /\ run[r].pc = "encode"
    BY DEF Core, Publish
<1>2. Moves(r, "ladder", run[r].media, run[r].old, TRUE)
    BY <1>1, PublishMoves DEF Suffer
<1>3. row'.master = row.master /\ row'.early = r
    BY <1>1, PublishRow DEF RowIs
<1>4. UNCHANGED <<retired, viewer>> /\ stored' = stored \cup {r}
    BY DEF Publish
<1>5. retired[r] = "no" /\ row.master # r /\ \A s \in Run : run[s].old # r
    BY <1>1, RowTrees, RunAssumption DEF Past
<1>6. MasterOK' /\ EarlyOK'
    BY <1>2, <1>3, <1>4, <1>5, RowTrees DEF Played, MasterOK, EarlyOK, Moves
<1>7. ASSUME NEW s \in Run PROVE run'[s].old # NoTree => OldOK(s)'
    <2>1. CASE s = r
        BY <1>2, <1>3, <1>4, <1>5, <2>1 DEF OldOK, Moves
    <2>2. CASE s # r
        <3>1. run'[s] = run[s]
            BY <1>2, <2>2 DEF Moves
        <3>2. run[s].old # NoTree => OldOK(s)
            BY DEF Played
        <3> QED BY <1>3, <1>4, <1>5, <3>1, <3>2 DEF OldOK
    <2> QED BY <2>1, <2>2
<1>8. ASSUME NEW s \in Run PROVE run'[s].pc = "ladder" => s \in stored'
    BY <1>2, <1>4 DEF Played, Moves
<1>9. ASSUME NEW t \in Run PROVE RetiredOK(t)'
    BY <1>3, <1>4, <1>5 DEF Played, RetiredOK
<1>10. ASSUME NEW v \in Viewer PROVE ViewerOK(v)'
    BY <1>4 DEF Played, ViewerOK
<1> QED BY <1>6, <1>7, <1>8, <1>9, <1>10 DEF Played

LEMMA FlipPlayed ==
    ASSUME Core, Played, NEW r \in Run, Flip(r), mishap' # "answer" PROVE Played'
<1>1. Types /\ run[r].pc = "ladder"
    BY DEF Core, Flip
<1>2. Moves(r, "retire old", run[r].media, run[r].old, run[r].early)
    BY <1>1, GoToMoves, Pcs DEF Flip, Suffer
<1>3. row'.master = r /\ row'.early = row.early
    BY <1>1, FlipRow DEF RowIs
<1>4. UNCHANGED <<stored, retired, viewer>> /\ r \in stored
    BY <1>1 DEF Flip, Played
<1>5. retired[r] = "no" /\ \A s \in Run : run[s].old # r
    BY <1>1, RowTrees, RunAssumption DEF Past
<1>6. MasterOK' /\ EarlyOK'
    <2>1. MasterOK'
        BY <1>2, <1>3, <1>4 DEF MasterOK, Moves
    <2>2. ASSUME row.early = r PROVE EarlyOK'
        BY <1>2, <1>3, <1>4, <2>2 DEF EarlyOK, Moves
    <2>3. ASSUME row.early # r PROVE EarlyOK'
        <3>1. row.early # NoTree => row.early \in Run \ {r}
            BY <2>3, RowTrees
        <3>2. row.early # NoTree => run'[row.early] = run[row.early]
            BY <1>2, <3>1 DEF Moves
        <3>3. EarlyOK
            BY DEF Played
        <3> QED BY <1>3, <1>4, <3>2, <3>3 DEF EarlyOK
    <2> QED BY <2>1, <2>2, <2>3
<1>7. ASSUME NEW s \in Run PROVE run'[s].old # NoTree => OldOK(s)'
    <2>0. run[s].old # NoTree => OldOK(s)
        BY DEF Played
    <2>1. CASE s = r
        BY <1>1, <1>2, <1>3, <1>5, <2>0, <2>1 DEF OldOK, Moves
    <2>2. CASE s # r
        <3>1. run'[s] = run[s]
            BY <1>2, <2>2 DEF Moves
        <3> QED BY <1>3, <1>4, <1>5, <2>0, <3>1 DEF OldOK
    <2> QED BY <2>1, <2>2
<1>8. ASSUME NEW s \in Run PROVE run'[s].pc = "ladder" => s \in stored'
    BY <1>2, <1>4 DEF Played, Moves
<1>9. ASSUME NEW t \in Run PROVE RetiredOK(t)'
    BY <1>3, <1>4, <1>5 DEF Played, RetiredOK
<1>10. ASSUME NEW v \in Viewer PROVE ViewerOK(v)'
    BY <1>4 DEF Played, ViewerOK
<1> QED BY <1>6, <1>7, <1>8, <1>9, <1>10 DEF Played

LEMMA RetireOldPlayed ==
    ASSUME Core, Played, NEW r \in Run, RetireOld(r) PROVE Played'
<1>1. Types /\ run[r].pc = "retire old"
    BY DEF Core, RetireOld
<1>2. run[r].old \in Names /\ RetireTree(run[r].old)
    BY <1>1 DEF Types, RunState, RetireOld
<1>3. ASSUME NEW t \in Run, t = run[r].old PROVE t \notin {row.master, row.early}
    BY <1>1, <1>3, RunAssumption DEF Played, OldOK
<1>4. RetiresUnnamed
    BY <1>1, <1>2, <1>3, RetireFacts DEF RetiresUnnamed
<1> QED BY <1>4, EndPlayed DEF RetireOld

LEMMA WriteFailurePlayed ==
    ASSUME Core, Played, NEW r \in Run, WriteFailure(r) PROVE Played'
<1>1. Types /\ run[r].pc = "failing" /\ UNCHANGED <<stored, retired, viewer>>
    BY DEF Core, WriteFailure
<1>2. row.master # r /\ (row.early = r => run[r].early)
    BY <1>1, RunAssumption DEF Played, MasterOK, EarlyOK
<1>3. CASE UNCHANGED row /\ End(r)
    BY <1>1, <1>3, EndPlayed DEF RetiresUnnamed
<1>4. CASE /\ row' = [row EXCEPT !.status = "failed", !.quiet = FALSE,
                                  !.early = IF run[r].early THEN NoTree ELSE @]
           /\ GoTo(r, "retire own")
    <2>1. Moves(r, "retire own", run[r].media, run[r].old, run[r].early)
        BY <1>1, <1>4, GoToMoves, Pcs
    <2>2. /\ row'.master = row.master
          /\ row'.early = IF run[r].early THEN NoTree ELSE row.early
        BY <1>1, <1>4 DEF Types, Row
    <2>3. row'.early # r
        BY <1>2, <2>2, RunAssumption
    <2>4. MasterOK' /\ EarlyOK'
        BY <1>1, <1>2, <2>1, <2>2, <2>3, RowTrees DEF Played, MasterOK, EarlyOK, Moves
    <2>5. ASSUME NEW s \in Run PROVE run'[s].old # NoTree => OldOK(s)'
        BY <1>1, <2>1, <2>2 DEF Played, OldOK, Moves
    <2>6. ASSUME NEW s \in Run PROVE run'[s].pc = "ladder" => s \in stored'
        BY <1>1, <2>1 DEF Played, Moves
    <2>7. ASSUME NEW t \in Run PROVE RetiredOK(t)'
        BY <1>1, <2>2, RunAssumption DEF Played, RetiredOK
    <2>8. ASSUME NEW v \in Viewer PROVE ViewerOK(v)'
        BY <1>1 DEF Played, ViewerOK
    <2> QED BY <2>4, <2>5, <2>6, <2>7, <2>8 DEF Played
<1> QED BY <1>3, <1>4 DEF WriteFailure

LEMMA RetireOwnPlayed ==
    ASSUME Core, Played, NEW r \in Run, RetireOwn(r) PROVE Played'
<1>1. Types /\ run[r].pc = "retire own"
    BY DEF Core, RetireOwn
<1>2. r \notin {row.master, row.early}
    BY <1>1, RunAssumption DEF Played, MasterOK, EarlyOK
<1>3. /\ \A t \in Run : retired'[t] # "no" => retired[t] # "no" \/ t = r
      /\ \A t \in Run : retired'[t] = "due" => retired[t] = "due"
    BY <1>1, RetireFacts DEF RetireOwn, Names
<1>4. RetiresUnnamed
    BY <1>2, <1>3 DEF RetiresUnnamed
<1> QED BY <1>4, EndPlayed DEF RetireOwn

LEMMA RestartPlayed ==
    ASSUME Core, Played, NEW r \in Run, Restart(r) PROVE Played'
<1>1. UNCHANGED <<row, stored, viewer>> /\ RetiresUnnamed /\ End(r)
    BY DEF Restart, RetiresUnnamed
<1> QED BY <1>1, EndPlayed

LEMMA NextPlayed ==
    ASSUME Core, [Next]_vars, mishap # "answer" => Played
    PROVE  mishap' # "answer" => Played'
<1> SUFFICES ASSUME mishap' # "answer" PROVE Played'
    OBVIOUS
<1>1. mishap # "answer"
    <2>1. \A m : Suffer(m) /\ mishap = "answer" => mishap' = "answer"
        BY DEF Suffer
    <2> QED BY <2>1 DEF Next, vars, RunStep, Replace, Retranscode, Send, Expire, GoQuiet, Reap,
                Start, Processing, Publish, Flip, RetireOld, WriteFailure, RetireOwn, Throw,
                WorkDirFails, Die, Restart, Beat, Load, Leave, Ripen, Sweep
<1>2. CASE UNCHANGED vars
    BY <1>1, <1>2, StandingPlayed DEF vars
<1> QED BY <1>1, <1>2, RowPlayed, ViewerPlayed, SweepPlayed, StartPlayed, PublishPlayed,
           FlipPlayed, RetireOldPlayed, WriteFailurePlayed, RetireOwnPlayed, RestartPlayed
       DEF Next, RunStep

LEMMA InitPlayed == ASSUME Init PROVE Played
BY DEF Init, NewRun, NotWatching, Played, MasterOK, EarlyOK, OldOK, RetiredOK, ViewerOK

(* Unless an answer is lost, no viewer's tree and no tree the row would give  *)
(* the next viewer is swept, though the sweep never looks at the row.         *)
THEOREM PlayedTreesStay == Spec => []PlayedTreesAreStored
<1>1. Init => Core /\ (mishap # "answer" => Played)
    BY InitCore, InitPlayed
<1>2. /\ Core /\ (mishap # "answer" => Played) /\ [Next]_vars
      => (Core /\ (mishap # "answer" => Played))'
    BY NextCore, NextPlayed
<1>3. Core /\ (mishap # "answer" => Played) => PlayedTreesAreStored
    BY DEF Played, MasterOK, EarlyOK, ViewerOK, PlayedTreesAreStored, Offered, Watched
<1> QED BY <1>1, <1>2, <1>3, PTL DEF Spec

-----------------------------------------------------------------------------
(* While runs do not overlap and the queue loses nothing, one run at most is *)
(* active, and if nothing waits it encodes the media the row has now: a      *)
(* replacement would have left a job waiting.                                *)
IsActive(r) == run[r].pc \in Active

Current ==
    /\ \A r, s \in Run : IsActive(r) /\ IsActive(s) => r = s
    /\ ~waiting => \A r \in Run : IsActive(r) => run[r].media = row.media
    /\ ~waiting /\ row.status = "ready" /\ (\A r \in Run : run[r].pc # "begin")
       => row.master # NoTree /\ run[row.master].media = row.media

Calm == mishap \notin {"send", "delivery", "overlap"}

SameMedia == row'.media = row.media
SamePlay == row'.status # "ready" \/ (row'.status = row.status /\ row'.master = row.master)

LEMMA StandingCurrent ==
    ASSUME Core, Current, UNCHANGED run, waiting' \in BOOLEAN,
           waiting' \/ (~waiting /\ SameMedia /\ SamePlay)
    PROVE  Current'
BY DEF Current, IsActive, SameMedia, SamePlay

LEMMA MovesCurrent ==
    ASSUME Core, Current, NEW r \in Run, NEW pc, NEW old, NEW early,
           Moves(r, pc, run[r].media, old, early), pc \in Active => IsActive(r),
           run[r].pc # "begin", pc # "begin", waiting' \in BOOLEAN, waiting => waiting',
           SameMedia, SamePlay
    PROVE  Current'
<1>1. \A s \in Run : IsActive(s)' => IsActive(s)
    BY DEF Moves, IsActive
<1>2. \A s \in Run : run'[s].media = run[s].media
    BY DEF Moves
<1>3. (\A s \in Run : run'[s].pc # "begin") => \A s \in Run : run[s].pc # "begin"
    BY DEF Moves
<1> QED BY <1>1, <1>2, <1>3, RowTrees DEF Current, SameMedia, SamePlay

LEMMA RowCurrent ==
    ASSUME Core, Current, Calm',
           Replace \/ Retranscode \/ Expire \/ GoQuiet \/ Reap \/ \E r \in Run : Beat(r)
    PROVE  Current'
<1>1. Types
    BY DEF Core
<1>2. UNCHANGED run
    BY DEF Replace, Retranscode, Expire, GoQuiet, Reap, Beat
<1>3. CASE Replace \/ Retranscode \/ Expire
    <2>1. waiting' = TRUE
        BY <1>3 DEF Replace, Retranscode, Expire, Send, Suffer, Calm
    <2> QED BY <1>2, <2>1, StandingCurrent
<1>4. CASE GoQuiet \/ Reap \/ \E r \in Run : Beat(r)
    <2>1. SameMedia /\ SamePlay
        BY <1>1, <1>4, QuietRow, ReapRow DEF GoQuiet, Beat, RowIs, SameMedia, SamePlay
    <2>2. UNCHANGED waiting
        BY <1>4 DEF GoQuiet, Reap, Beat
    <2> QED BY <1>1, <1>2, <2>1, <2>2, StandingCurrent DEF Types
<1> QED BY <1>3, <1>4

LEMMA StartCurrent ==
    ASSUME Core, Current, Calm', NEW r \in Run, Start(r) PROVE Current'
<1>1. Moves(r, "begin", row.media, row.master, FALSE)
    BY StartMoves DEF Core
<1>2. UNCHANGED row /\ \A s \in Run : ~IsActive(s)
    BY DEF Start, SomeoneRuns, Suffer, Calm, IsActive
<1>3. run'[r].media = row.media /\ run'[r].pc = "begin" /\ \A s \in Run : IsActive(s)' => s = r
    BY <1>1, <1>2 DEF Moves, IsActive
<1> QED BY <1>2, <1>3 DEF Current

LEMMA ProcessingCurrent ==
    ASSUME Core, Current, NEW r \in Run, Processing(r) PROVE Current'
<1>1. Types /\ IsActive(r) /\ UNCHANGED waiting
    BY DEF Core, Processing, Active, IsActive
<1>2. Moves(r, "encode", run[r].media, run[r].old, run[r].early)
    BY <1>1, GoToMoves, Pcs DEF Processing
<1>3. row'.media = row.media /\ row'.status # "ready"
    BY <1>1, ProcessingRow DEF RowIs
<1>4. \A s \in Run : (IsActive(s)' => IsActive(s)) /\ run'[s].media = run[s].media
    BY <1>1, <1>2 DEF Moves, IsActive
<1> QED BY <1>1, <1>3, <1>4 DEF Current

LEMMA FlipCurrent ==
    ASSUME Core, Current, NEW r \in Run, Flip(r) PROVE Current'
<1>1. Types /\ IsActive(r) /\ UNCHANGED waiting
    BY DEF Core, Flip, Active, IsActive
<1>2. PICK pc \in {"retire old", "failing"} :
         Moves(r, pc, run[r].media, run[r].old, run[r].early)
    BY <1>1, GoToMoves, Pcs DEF Flip
<1>3. row'.media = row.media /\ row'.master = r
    BY <1>1, FlipRow DEF RowIs
<1>4. \A s \in Run : (IsActive(s)' => IsActive(s)) /\ run'[s].media = run[s].media
    BY <1>1, <1>2 DEF Moves, IsActive
<1>5. r # NoTree
    BY RunAssumption
<1> QED BY <1>1, <1>3, <1>4, <1>5 DEF Current

LEMMA RunCurrent ==
    ASSUME Core, Current, Calm', NEW r \in Run,
           \/ Publish(r) \/ RetireOld(r) \/ WriteFailure(r) \/ RetireOwn(r)
           \/ WorkDirFails(r) \/ Throw(r) \/ Die(r) \/ Restart(r)
    PROVE  Current'
<1>1. Types /\ run[r].pc # "begin" /\ (IsActive(r) \/ Restart(r))
    BY DEF Core, Publish, RetireOld, WriteFailure, RetireOwn, WorkDirFails, Throw, Die, Restart,
           Active, IsActive, Suffer, Calm
<1>2. waiting' \in BOOLEAN /\ (waiting => waiting')
    BY <1>1 DEF Publish, RetireOld, WriteFailure, RetireOwn, WorkDirFails, Throw, Die, Restart,
                Types
<1>3. SameMedia /\ SamePlay
    BY <1>1, PublishRow, WriteFailureRow
    DEF Publish, RetireOld, RetireOwn, WorkDirFails, Throw, Die, Restart, RowIs, SameMedia,
        SamePlay
<1>4. \E pc \in {"ladder", "failing", "retire own", "done", "orphan"} : \E old, early :
          /\ Moves(r, pc, run[r].media, old, early)
          /\ pc \in Active => IsActive(r)
    <2>1. CASE Restart(r)
        BY <1>1, <2>1, EndMoves DEF Restart, Active
    <2>2. CASE ~Restart(r)
        BY <1>1, <2>2, PublishMoves, GoToMoves, EndMoves, EndAsMoves, Pcs
        DEF RetireOld, WriteFailure, RetireOwn, WorkDirFails, Throw, Die
    <2> QED BY <2>1, <2>2
<1> QED BY <1>1, <1>2, <1>3, <1>4, MovesCurrent

LEMMA NextCurrent ==
    ASSUME Core, [Next]_vars, Calm => Current PROVE Calm' => Current'
<1> SUFFICES ASSUME Calm' PROVE Current'
    OBVIOUS
<1>1. Calm
    <2>1. \A m : Suffer(m) => mishap' = mishap \/ mishap = "none"
        BY DEF Suffer
    <2>2. mishap' = mishap \/ mishap = "none"
        BY <2>1 DEF Next, vars, RunStep, Replace, Retranscode, Send, Expire, GoQuiet, Reap,
                Start, Processing, Publish, Flip, RetireOld, WriteFailure, RetireOwn, Throw,
                WorkDirFails, Die, Restart, Beat, Load, Leave, Ripen, Sweep
    <2> QED BY <2>2 DEF Calm
<1>2. CASE UNCHANGED vars \/ (\E v \in Viewer : Load(v) \/ Leave(v))
           \/ \E t \in Run : Ripen(t) \/ Sweep(t)
    <2>1. UNCHANGED <<row, run, waiting>>
        BY <1>2 DEF vars, Load, Leave, Ripen, Sweep
    <2> QED BY <1>1, <2>1 DEF Current, IsActive
<1> QED BY <1>1, <1>2, RowCurrent, StartCurrent, ProcessingCurrent, FlipCurrent, RunCurrent
        DEF Next, RunStep

LEMMA InitCurrent == ASSUME Init PROVE Current
BY DEF Init, NewRun, Current, IsActive, Active

(* A video at rest that is ready plays the media it was last given: the       *)
(* replacement leaves a job that no running transcode can absorb.             *)
THEOREM ReadyPlaysTheLatest == Spec => []ReadyIsCurrent
<1>1. Init => Core /\ (Calm => Current)
    BY InitCore, InitCurrent
<1>2. Core /\ (Calm => Current) /\ [Next]_vars => (Core /\ (Calm => Current))'
    BY NextCore, NextCurrent
<1>3. (Calm => Current) => ReadyIsCurrent
    BY DEF Calm, Current, ReadyIsCurrent, SomeoneRuns, Active
<1> QED BY <1>1, <1>2, <1>3, PTL DEF Spec

-----------------------------------------------------------------------------
(* The safety half of EveryRequestIsDecided.  Only a start takes the job off *)
(* the queue, and the run it starts says so in the row with its first write. *)
Undriven == row.status = "pending" /\ ~waiting /\ \A r \in Run : run[r].pc # "begin"

NothingLost == mishap \notin {"send", "delivery"}

Driven == NothingLost => ~Undriven

LEMMA RowDriven ==
    ASSUME Core, Driven, NothingLost',
           Replace \/ Retranscode \/ Expire \/ GoQuiet \/ Reap \/ \E r \in Run : Beat(r)
    PROVE  ~Undriven'
<1>1. Types
    BY DEF Core
<1>2. CASE Replace \/ Retranscode \/ Expire
    BY <1>2 DEF Replace, Retranscode, Expire, Send, Suffer, NothingLost, Undriven
<1>3. CASE GoQuiet \/ Reap \/ \E r \in Run : Beat(r)
    <2>1. row'.status # "pending"
        BY <1>1, <1>3, QuietRow, ReapRow DEF GoQuiet, Beat, RowIs
    <2> QED BY <2>1 DEF Undriven
<1> QED BY <1>2, <1>3

LEMMA RunDriven ==
    ASSUME Core, ~Undriven, NothingLost', NEW r \in Run,
           Start(r) \/ RunStep(r) \/ WorkDirFails(r) \/ Throw(r) \/ Die(r) \/ Restart(r)
    PROVE  ~Undriven'
<1>1. Types
    BY DEF Core
<1>2. CASE Start(r)
    <2>1. run'[r].pc = "begin"
        BY <1>1, <1>2, StartMoves DEF Moves
    <2> QED BY <2>1 DEF Undriven
<1>3. CASE Processing(r) \/ Flip(r)
    <2>1. row'.status # "pending"
        BY <1>1, <1>3, ProcessingRow, FlipRow DEF RowIs
    <2> QED BY <2>1 DEF Undriven
<1>4. CASE \/ Publish(r) \/ RetireOld(r) \/ WriteFailure(r) \/ RetireOwn(r)
           \/ WorkDirFails(r) \/ Throw(r) \/ Die(r) \/ Restart(r)
    <2>1. run[r].pc # "begin"
        BY <1>4 DEF Publish, RetireOld, WriteFailure, RetireOwn, WorkDirFails, Throw, Die,
               Restart, Suffer, NothingLost
    <2>2. \E pc \in Pc : \E old, early : Moves(r, pc, run[r].media, old, early)
        BY <1>1, <1>4, <2>1, PublishMoves, GoToMoves, EndMoves, EndAsMoves, Pcs
        DEF RetireOld, WriteFailure, RetireOwn, WorkDirFails, Throw, Die, Restart
    <2>3. \A s \in Run : run[s].pc = "begin" => run'[s].pc = "begin"
        BY <2>1, <2>2 DEF Moves
    <2>4. waiting' \in BOOLEAN /\ (waiting => waiting')
        BY <1>1, <1>4
        DEF Publish, RetireOld, WriteFailure, RetireOwn, WorkDirFails, Throw, Die, Restart, Types
    <2>5. row'.status = "pending" => row.status = "pending"
        BY <1>1, <1>4, PublishRow, WriteFailureRow
        DEF Publish, RetireOld, WriteFailure, RetireOwn, WorkDirFails, Throw, Die, Restart, RowIs
    <2> QED BY <2>3, <2>4, <2>5 DEF Undriven
<1> QED BY <1>2, <1>3, <1>4 DEF RunStep

LEMMA NextDriven ==
    ASSUME Core, [Next]_vars, Driven PROVE Driven'
<1> SUFFICES ASSUME NothingLost' PROVE ~Undriven'
    BY DEF Driven, NothingLost, Undriven
<1>1. NothingLost
    <2>1. \A m : Suffer(m) => mishap' = mishap \/ mishap = "none"
        BY DEF Suffer
    <2>2. mishap' = mishap \/ mishap = "none"
        BY <2>1 DEF Next, vars, RunStep, Replace, Retranscode, Send, Expire, GoQuiet, Reap,
                Start, Processing, Publish, Flip, RetireOld, WriteFailure, RetireOwn, Throw,
                WorkDirFails, Die, Restart, Beat, Load, Leave, Ripen, Sweep
    <2> QED BY <2>2 DEF NothingLost
<1>2. ~Undriven
    BY <1>1 DEF Driven
<1>3. CASE UNCHANGED vars \/ (\E v \in Viewer : Load(v) \/ Leave(v))
           \/ \E t \in Run : Ripen(t) \/ Sweep(t)
    <2>1. UNCHANGED <<row, run, waiting>>
        BY <1>3 DEF vars, Load, Leave, Ripen, Sweep
    <2> QED BY <1>2, <2>1 DEF Undriven
<1> QED BY <1>2, <1>3, RowDriven, RunDriven DEF Next

(* A video that is to be transcoded is never forgotten: a job waits for it,  *)
(* or a run has taken that job and is about to say so, unless the queue      *)
(* refused the job or gave it up.  Overlapping runs are included.            *)
THEOREM PendingIsHeld ==
    Spec => [](row.status = "pending" /\ mishap \notin {"send", "delivery"}
                 => waiting \/ \E r \in Run : run[r].pc = "begin")
<1>1. Init => Core /\ Driven
    BY InitCore DEF Init, Driven, NothingLost, Undriven
<1>2. Core /\ Driven /\ [Next]_vars => (Core /\ Driven)'
    BY NextCore, NextDriven
<1>3. Driven => (row.status = "pending" /\ mishap \notin {"send", "delivery"}
                    => waiting \/ \E r \in Run : run[r].pc = "begin")
    BY DEF Driven, NothingLost, Undriven
<1> QED BY <1>1, <1>2, <1>3, PTL DEF Spec
=============================================================================
