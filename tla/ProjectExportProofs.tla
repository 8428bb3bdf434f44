------------------------ MODULE ProjectExportProofs ------------------------
(***************************************************************************)
(* Proofs about ProjectExport, for any number of exports, runs, windows,   *)
(* deliveries and faults.                                                  *)
(***************************************************************************)
EXTENDS ProjectExport, TLAPS

(* The invariant speaks of one export at a time: of its row, its master and  *)
(* the runs that work on it.                                                 *)

(* A run works on a row that was claimed. *)
Started(e) == \A r \in Run : WorksOn(r, e) => row[e].status \notin {"queued", "none"}

(* The pointer was set by the write that published. *)
KeyOK(e) == row[e].key => row[e].status = "ready"
                           \/ (row[e].status = "failed" /\ row[e].error = "unavailable")

CancelOK(e) ==
    row[e].cancel => row[e].status # "ready" /\ (row[e].status = "failed" => row[e].error # "run")

MasterOK(e) ==
    /\ row[e].status = "ready" => master[e] # "none"
    /\ \A r \in Run : WorksOn(r, e) /\ run[r].pc = "publish" => master[e] # "none"

(* While no live run has stalled, the beats keep every claimed row from a    *)
(* second claim; so one run works on an export, and what it uploads is what  *)
(* it publishes.                                                             *)
Shows(e, still) == still <=> master[e] = "stills"

OneRunOK(e) ==
    /\ \A r \in Run : WorksOn(r, e) /\ InFlight(e) => ~row[e].quiet
    /\ \A r, s \in Run : WorksOn(r, e) /\ WorksOn(s, e) => r = s
    /\ \A r \in Run : WorksOn(r, e) /\ run[r].pc = "publish" => Shows(e, run[r].still)
    /\ \A r \in Run : WorksOn(r, e) /\ row[e].status = "ready" => run[r].pc \in {"cleanup", "failing"}
    /\ row[e].status = "ready" => Shows(e, row[e].still)

(* Only rows in flight have a clock that runs. *)
QuietOK(e) == row[e].quiet => InFlight(e)

ExportOK(e) ==
    /\ Started(e) /\ KeyOK(e) /\ CancelOK(e) /\ MasterOK(e) /\ QuietOK(e)
    /\ ~stalled => OneRunOK(e)

(* A capture is begun for a window that is left. *)
RunsOK == run \in [Run -> RunState] /\ \A r \in Run : run[r].pc = "capture" => run[r].left # 0

Types ==
    /\ row \in [Export -> Row]
    /\ request \in [Export -> {"none", "sending", "refusing", "answered"}]
    /\ deliveries \in [Export -> 0..MaxTries]
    /\ RunsOK
    /\ clips \in [Export -> BOOLEAN]
    /\ master \in [Export -> {"none", "live", "stills"}]
    /\ stalled \in BOOLEAN /\ faults \in 0..MaxFaults

IInv == Types /\ \A e \in Export : ExportOK(e)

-----------------------------------------------------------------------------
(* What the ways to change one run do. *)

(* Run r is now somewhere in export e, or nowhere; the other runs are where  *)
(* they were.                                                                *)
OtherRuns(r) == RunsOK' /\ \A s \in Run \ {r} : run'[s] = run[s]

LEMMA NewRun ==
    ASSUME RunsOK, NEW r \in Run, NEW new \in RunState, new.pc = "capture" => new.left # 0,
           run' = [run EXCEPT ![r] = new]
    PROVE  OtherRuns(r) /\ run'[r] = new
BY DEF RunsOK, OtherRuns

LEMMA GoToFacts ==
    ASSUME RunsOK, NEW r \in Run, NEW pc \in Live, pc = "capture" => run[r].left # 0, GoTo(r, pc)
    PROVE  OtherRuns(r) /\ run'[r].pc = pc /\ run'[r].export = run[r].export
           /\ run'[r].still = run[r].still
<1> DEFINE new == [run[r] EXCEPT !.pc = pc]
<1>1. /\ new \in RunState /\ new.pc = pc /\ new.left = run[r].left
      /\ new.export = run[r].export /\ new.still = run[r].still
    BY DEF RunsOK, RunState
<1>2. run' = [run EXCEPT ![r] = new]
    BY DEF GoTo
<1> HIDE DEF new
<1> QED BY <1>1, <1>2, NewRun

LEMMA EndFacts ==
    ASSUME RunsOK, NEW r \in Run, End(r)
    PROVE  OtherRuns(r) /\ run'[r].pc = "idle"
<1>1. IdleRun \in RunState /\ IdleRun.pc = "idle"
    BY WindowsAssumption DEF IdleRun, RunState
<1> QED BY <1>1, NewRun DEF End

(* A window is done. *)
LEMMA WindowFacts ==
    ASSUME RunsOK, NEW r \in Run, run[r].left # 0, NEW still \in BOOLEAN, NEW clip \in BOOLEAN,
           run' = [run EXCEPT ![r].pc = "window", ![r].still = still, ![r].clip = clip,
                              ![r].left = run[r].left - 1]
    PROVE  OtherRuns(r) /\ run'[r].pc = "window" /\ run'[r].export = run[r].export
<1> DEFINE new == [run[r] EXCEPT !.pc = "window", !.still = still, !.clip = clip,
                                 !.left = run[r].left - 1]
<1>1. new.pc = "window" /\ new.export = run[r].export
    BY DEF RunsOK, RunState
<1>2. new \in RunState
    BY WindowsAssumption DEF RunsOK, RunState, Live, Stage
<1>3. run' = [run EXCEPT ![r] = new]
    BY DEF RunsOK
<1> HIDE DEF new
<1> QED BY <1>1, <1>2, <1>3, NewRun

-----------------------------------------------------------------------------
(* What the ways to change one row do. *)

OtherRows(e) == row' \in [Export -> Row] /\ \A d \in Export \ {e} : row'[d] = row[d]

(* Row e has another status, and is fresh. *)
Moved(e, status) ==
    /\ OtherRows(e)
    /\ row'[e].status = status /\ ~row'[e].quiet
    /\ row'[e].cancel = row[e].cancel /\ row'[e].policy = row[e].policy

LEMMA NewRow ==
    ASSUME row \in [Export -> Row], NEW e \in Export, NEW new \in Row,
           row' = [row EXCEPT ![e] = new]
    PROVE  OtherRows(e) /\ row'[e] = new
BY DEF OtherRows

(* Status and freshness, with the reason of a failure or without. *)
LEMMA MoveFacts ==
    ASSUME row \in [Export -> Row], NEW e \in Export,
           NEW status \in EXPORT_IN_FLIGHT_STATUSES \cup Terminal,
           NEW error \in {"none", "run", "abandoned", "unavailable"},
           row' = [row EXCEPT ![e].status = status, ![e].error = error, ![e].quiet = FALSE]
    PROVE  /\ Moved(e, status) /\ row'[e].error = error
           /\ row'[e].key = row[e].key /\ row'[e].still = row[e].still
<1> DEFINE new == [row[e] EXCEPT !.status = status, !.error = error, !.quiet = FALSE]
<1>1. /\ new \in Row /\ new.status = status /\ ~new.quiet /\ new.error = error
      /\ new.cancel = row[e].cancel /\ new.policy = row[e].policy
      /\ new.key = row[e].key /\ new.still = row[e].still
    <2>1. row[e] \in Row
        OBVIOUS
    <2>2. new \in Row
        BY <2>1 DEF Row
    <2>3. /\ new.status = status /\ ~new.quiet /\ new.error = error
          /\ new.cancel = row[e].cancel /\ new.policy = row[e].policy
          /\ new.key = row[e].key /\ new.still = row[e].still
        BY <2>1 DEF Row
    <2> QED BY <2>2, <2>3
<1>2. row' = [row EXCEPT ![e] = new]
    OBVIOUS
<1> HIDE DEF new
<1> QED BY <1>1, <1>2, NewRow DEF Moved

LEMMA StatusFacts ==
    ASSUME row \in [Export -> Row], NEW e \in Export,
           NEW status \in EXPORT_IN_FLIGHT_STATUSES \cup Terminal,
           row' = [row EXCEPT ![e].status = status, ![e].quiet = FALSE]
    PROVE  /\ Moved(e, status) /\ row'[e].error = row[e].error
           /\ row'[e].key = row[e].key /\ row'[e].still = row[e].still
<1> DEFINE new == [row[e] EXCEPT !.status = status, !.quiet = FALSE]
<1>1. /\ new \in Row /\ new.status = status /\ ~new.quiet /\ new.error = row[e].error
      /\ new.cancel = row[e].cancel /\ new.policy = row[e].policy
      /\ new.key = row[e].key /\ new.still = row[e].still
    <2>1. row[e] \in Row
        OBVIOUS
    <2>2. new \in Row
        BY <2>1 DEF Row
    <2>3. /\ new.status = status /\ ~new.quiet /\ new.error = row[e].error
          /\ new.cancel = row[e].cancel /\ new.policy = row[e].policy
          /\ new.key = row[e].key /\ new.still = row[e].still
        BY <2>1 DEF Row
    <2> QED BY <2>2, <2>3
<1>2. row' = [row EXCEPT ![e] = new]
    OBVIOUS
<1> HIDE DEF new
<1> QED BY <1>1, <1>2, NewRow DEF Moved

(* Flags of a row in flight. *)
LEMMA FlagFacts ==
    ASSUME row \in [Export -> Row], NEW e \in Export, NEW cancel \in BOOLEAN, NEW quiet \in BOOLEAN,
           row' = [row EXCEPT ![e].cancel = cancel, ![e].quiet = quiet]
    PROVE  /\ OtherRows(e) /\ row'[e].cancel = cancel /\ row'[e].quiet = quiet
           /\ row'[e].status = row[e].status /\ row'[e].error = row[e].error
           /\ row'[e].key = row[e].key /\ row'[e].still = row[e].still
<1> DEFINE new == [row[e] EXCEPT !.cancel = cancel, !.quiet = quiet]
<1>1. /\ new \in Row /\ new.status = row[e].status /\ new.quiet = quiet /\ new.error = row[e].error
      /\ new.cancel = cancel /\ new.key = row[e].key /\ new.still = row[e].still
    BY DEF Row
<1>2. row' = [row EXCEPT ![e] = new]
    OBVIOUS
<1> HIDE DEF new
<1> QED BY <1>1, <1>2, NewRow

LEMMA ReadyFacts ==
    ASSUME row \in [Export -> Row], RunsOK, NEW e \in Export, NEW r \in Run, row' = Ready(r, e)
    PROVE  /\ Moved(e, "ready") /\ row'[e].error = row[e].error
           /\ row'[e].key /\ row'[e].still = run[r].still
<1> DEFINE new == [row[e] EXCEPT !.status = "ready", !.key = TRUE, !.still = run[r].still,
                                 !.quiet = FALSE]
<1>1. run[r].still \in BOOLEAN
    BY DEF RunsOK, RunState
<1>2. /\ new \in Row /\ new.status = "ready" /\ ~new.quiet /\ new.error = row[e].error
      /\ new.cancel = row[e].cancel /\ new.policy = row[e].policy
      /\ new.key /\ new.still = run[r].still
    <2>1. row[e] \in Row /\ "ready" \in Terminal
        BY DEF Terminal
    <2>2. new \in Row
        BY <1>1, <2>1 DEF Row
    <2>3. /\ new.status = "ready" /\ ~new.quiet /\ new.error = row[e].error
          /\ new.cancel = row[e].cancel /\ new.policy = row[e].policy
          /\ new.key /\ new.still = run[r].still
        BY <2>1 DEF Row
    <2> QED BY <2>2, <2>3
<1>3. row' = [row EXCEPT ![e] = new]
    BY DEF Ready
<1> HIDE DEF new
<1> QED BY <1>2, <1>3, NewRow DEF Moved

LEMMA Statuses ==
    /\ "none" \notin EXPORT_IN_FLIGHT_STATUSES \cup Terminal
    /\ EXPORT_IN_FLIGHT_STATUSES \cap Terminal = {}
    /\ {"planning", "capturing", "assembling", "uploading", "queued"} \subseteq EXPORT_IN_FLIGHT_STATUSES
    /\ {"ready", "failed", "cancelled"} \subseteq Terminal
BY DEF EXPORT_IN_FLIGHT_STATUSES, Terminal

-----------------------------------------------------------------------------
(* The kinds of step there are, told by what they do to one export.          *)

(* Nothing happened to export d, unless runs left it or came to claim it. *)
LEMMA Frame ==
    ASSUME NEW d \in Export, ExportOK(d),
           row'[d] = row[d], master'[d] = master[d], ~stalled' => ~stalled,
           \A s \in Run : run'[s] = run[s] \/ run'[s].pc \notin Live \/ run'[s].export # d
    PROVE  ExportOK(d)'
<1>1. \A s \in Run : WorksOn(s, d)' => WorksOn(s, d) /\ run'[s] = run[s]
    BY DEF WorksOn
<1> QED BY <1>1 DEF ExportOK, Started, KeyOK, CancelOK, MasterOK, QuietOK, OneRunOK, Shows, InFlight

(* A run goes from one phase to another, with a fenced write or without. *)
LEMMA PhaseOK ==
    ASSUME NEW e \in Export, ExportOK(e), NEW r \in Run, OtherRuns(r), row \in [Export -> Row],
           run[r].pc \in Stage, run[r].export = e,
           run'[r].pc \in Live \ {"publish"}, run'[r].export = e,
           UNCHANGED <<master, stalled>>,
           \/ row' = row
           \/ /\ InFlight(e) /\ Moved(e, row'[e].status)
              /\ row'[e].status \in EXPORT_IN_FLIGHT_STATUSES \ {"queued"}
              /\ row'[e].key = row[e].key
    PROVE  ExportOK(e)'
<1>1. WorksOn(r, e) /\ run[r].pc \notin {"cleanup", "failing"}
    BY DEF WorksOn, Stage, Live
<1>2. \A s \in Run : WorksOn(s, e)' => WorksOn(s, e) /\ (s # r => run'[s] = run[s])
    BY <1>1 DEF OtherRuns, WorksOn
<1>3. ~stalled => row[e].status # "ready" /\ row'[e].status # "ready"
    BY <1>1, Statuses DEF ExportOK, OneRunOK
<1>4. Started(e)'
    BY <1>1, <1>2, Statuses DEF Started, ExportOK
<1>5. KeyOK(e)' /\ QuietOK(e)'
    BY Statuses DEF KeyOK, QuietOK, ExportOK, InFlight, Moved
<1>6. CancelOK(e)'
    BY Statuses DEF CancelOK, ExportOK, Moved
<1>7. MasterOK(e)'
    BY <1>2, Statuses DEF MasterOK, ExportOK
<1>8. ~stalled' => OneRunOK(e)'
    BY <1>2, <1>3 DEF OneRunOK, ExportOK, Shows, InFlight, Moved
<1> QED BY <1>4, <1>5, <1>6, <1>7, <1>8 DEF ExportOK

(* A run that leaves an export changes nothing there, or ends the row. *)
LEMMA LeaveOK ==
    ASSUME NEW e \in Export, ExportOK(e), NEW r \in Run, OtherRuns(r), run'[r].pc \notin Live,
           UNCHANGED <<master, stalled>>,
           \/ row' = row
           \/ /\ InFlight(e) /\ Moved(e, row'[e].status) /\ row'[e].key = row[e].key
              /\ \/ row'[e].status = "cancelled"
                 \/ row'[e].status = "failed" /\ (row[e].cancel => row'[e].error # "run")
    PROVE  ExportOK(e)'
<1>1. \A s \in Run : WorksOn(s, e)' => WorksOn(s, e) /\ run'[s] = run[s]
    BY DEF OtherRuns, WorksOn
<1>2. CASE row' = row
    BY <1>1, <1>2, Frame DEF OtherRuns
<1>3. CASE row' # row
    <2>1. KeyOK(e)' /\ CancelOK(e)' /\ QuietOK(e)'
        BY <1>3, Statuses DEF KeyOK, CancelOK, QuietOK, ExportOK, InFlight, Moved
    <2>2. Started(e)' /\ MasterOK(e)'
        BY <1>1, <1>3 DEF Started, MasterOK, ExportOK
    <2>3. ~stalled' => OneRunOK(e)'
        BY <1>1, <1>3, Statuses DEF OneRunOK, ExportOK, Shows, InFlight, Moved
    <2> QED BY <2>1, <2>2, <2>3 DEF ExportOK
<1> QED BY <1>2, <1>3

(* The row takes a step while the runs stay. *)
LEMMA RowOK ==
    ASSUME NEW e \in Export, ExportOK(e), UNCHANGED <<run, master>>, ~stalled' => ~stalled,
           \/ /\ row[e].status = "none" /\ row'[e].status = "queued"
              /\ ~row'[e].cancel /\ ~row'[e].key /\ ~row'[e].quiet
           \/ /\ row'[e].status = "failed" /\ row'[e].error \in {"abandoned", "unavailable"}
              /\ ~row'[e].quiet /\ (row'[e].error = "abandoned" => ~row'[e].key)
           \/ /\ row'[e].status = row[e].status /\ row'[e].error = row[e].error
              /\ row'[e].key = row[e].key /\ row'[e].still = row[e].still
              /\ row'[e].cancel => row[e].cancel \/ InFlight(e)
              /\ row'[e].quiet => InFlight(e)
              /\ row'[e].quiet => row[e].quiet \/ stalled' \/ \A r \in Run : ~WorksOn(r, e)
    PROVE  ExportOK(e)'
<1>1. \A s \in Run : WorksOn(s, e)' <=> WorksOn(s, e)
    BY DEF WorksOn
<1>2. Started(e)'
    BY <1>1 DEF Started, ExportOK
<1>3. KeyOK(e)' /\ QuietOK(e)'
    BY DEF KeyOK, QuietOK, ExportOK, InFlight
<1>4. CancelOK(e)'
    BY Statuses DEF CancelOK, ExportOK, InFlight
<1>5. MasterOK(e)'
    BY <1>1 DEF MasterOK, ExportOK
<1>6. ~stalled' => OneRunOK(e)'
    BY <1>1, Statuses DEF OneRunOK, ExportOK, Started, Shows, InFlight
<1> QED BY <1>2, <1>3, <1>4, <1>5, <1>6 DEF ExportOK

(* Unless a live run stalled nobody works on the row that a run claims. *)
LEMMA ClaimOK ==
    ASSUME NEW e \in Export, ExportOK(e), NEW r \in Run, OtherRuns(r),
           MayClaim(e), run'[r].pc = "plan", run'[r].export = e,
           UNCHANGED <<master, stalled>>,
           Moved(e, "planning"), row'[e].key = row[e].key, run[r].pc = "claim"
    PROVE  ExportOK(e)'
<1>1. InFlight(e) /\ ~WorksOn(r, e) /\ run'[r].pc # "publish"
    BY Statuses DEF MayClaim, InFlight, WorksOn, Live, Stage
<1>2. \A s \in Run : WorksOn(s, e)' => s = r \/ (WorksOn(s, e) /\ run'[s] = run[s])
    BY DEF OtherRuns, WorksOn
<1>3. ~stalled => \A s \in Run : ~WorksOn(s, e)
    BY <1>1 DEF ExportOK, Started, OneRunOK, MayClaim
<1>4. Started(e)' /\ KeyOK(e)' /\ CancelOK(e)' /\ QuietOK(e)'
    BY <1>1, Statuses DEF Started, KeyOK, CancelOK, QuietOK, ExportOK, Moved, InFlight
<1>5. MasterOK(e)'
    BY <1>1, <1>2 DEF MasterOK, ExportOK, Moved
<1>6. ~stalled' => OneRunOK(e)'
    BY <1>1, <1>2, <1>3 DEF OneRunOK, Moved, InFlight
<1> QED BY <1>4, <1>5, <1>6 DEF ExportOK

(* The master is stored. *)
LEMMA UploadOK ==
    ASSUME NEW e \in Export, ExportOK(e), NEW r \in Run, OtherRuns(r), RunsOK,
           run[r].pc = "upload", run[r].export = e,
           run'[r].pc = "publish", run'[r].export = e, run'[r].still = run[r].still,
           master'[e] = IF run[r].still THEN "stills" ELSE "live",
           UNCHANGED <<row, stalled>>
    PROVE  ExportOK(e)'
<1>1. WorksOn(r, e) /\ run[r].pc \notin {"cleanup", "failing"}
    BY DEF WorksOn, Stage, Live
<1>2. \A s \in Run : WorksOn(s, e)' => WorksOn(s, e) /\ (s # r => run'[s] = run[s])
    BY <1>1 DEF OtherRuns, WorksOn
<1>3. run[r].still \in BOOLEAN /\ master'[e] # "none" /\ Shows(e, run[r].still)'
    BY DEF RunsOK, RunState, Shows
<1>4. Started(e)' /\ KeyOK(e)' /\ CancelOK(e)' /\ QuietOK(e)'
    BY <1>2 DEF Started, KeyOK, CancelOK, QuietOK, ExportOK, InFlight
<1>5. MasterOK(e)'
    BY <1>3 DEF MasterOK
<1>6. ~stalled => row[e].status # "ready" /\ \A s \in Run : WorksOn(s, e) => s = r
    BY <1>1 DEF ExportOK, OneRunOK
<1>7. ~stalled' => OneRunOK(e)'
    BY <1>2, <1>3, <1>6 DEF OneRunOK, ExportOK, Shows, InFlight
<1> QED BY <1>4, <1>5, <1>7 DEF ExportOK

(* The row is ready, and what it says was uploaded. *)
LEMMA PublishOK ==
    ASSUME NEW e \in Export, ExportOK(e), NEW r \in Run, OtherRuns(r),
           run[r].pc = "publish", run[r].export = e, ~row[e].cancel,
           run'[r].pc \in {"cleanup", "failing"}, run'[r].export = e,
           Moved(e, "ready"), row'[e].still = run[r].still,
           UNCHANGED <<master, stalled>>
    PROVE  ExportOK(e)'
<1>1. WorksOn(r, e)
    BY DEF WorksOn, Stage, Live
<1>2. \A s \in Run : WorksOn(s, e)' => WorksOn(s, e) /\ (s # r => run'[s] = run[s])
    BY <1>1 DEF OtherRuns, WorksOn
<1>3. Started(e)' /\ KeyOK(e)' /\ CancelOK(e)' /\ QuietOK(e)'
    BY <1>2 DEF Started, KeyOK, CancelOK, QuietOK, ExportOK, Moved
<1>4. MasterOK(e)'
    BY <1>1, <1>2 DEF MasterOK, ExportOK, Moved
<1>5. ~stalled => Shows(e, run[r].still) /\ \A s \in Run : WorksOn(s, e) => s = r
    BY <1>1 DEF ExportOK, OneRunOK
<1>6. ~stalled' => OneRunOK(e)'
    BY <1>2, <1>5, Statuses DEF OneRunOK, ExportOK, Moved, Shows, InFlight
<1> QED BY <1>3, <1>4, <1>6 DEF ExportOK

(* The other exports. *)
LEMMA Elsewhere ==
    ASSUME \A d \in Export : ExportOK(d), NEW e \in Export, ExportOK(e)',
           row' = row \/ OtherRows(e),
           \A d \in Export \ {e} : master'[d] = master[d], ~stalled' => ~stalled,
           \/ run' = run
           \/ \E r \in Run : OtherRuns(r) /\ (run'[r].pc \notin Live \/ run'[r].export = e)
    PROVE  \A d \in Export : ExportOK(d)'
<1> SUFFICES ASSUME NEW d \in Export \ {e} PROVE ExportOK(d)'
    OBVIOUS
<1>1. row'[d] = row[d]
    BY DEF OtherRows
<1>2. \A s \in Run : run'[s] = run[s] \/ run'[s].pc \notin Live \/ run'[s].export # d
    BY DEF OtherRuns
<1> QED BY <1>1, <1>2, Frame

LEMMA FaultFacts == ASSUME faults \in 0..MaxFaults, Fault PROVE faults' \in 0..MaxFaults
BY FaultsAssumption DEF Fault

(* A step of run r in export e, and a step of the row of e without a run. *)
LEMMA ByRun ==
    ASSUME IInv, NEW e \in Export, NEW r \in Run, OtherRuns(r), ExportOK(e)',
           run'[r].pc \notin Live \/ run'[r].export = e, row' = row \/ OtherRows(e),
           \A d \in Export \ {e} : master'[d] = master[d],
           master' \in [Export -> {"none", "live", "stills"}], clips' \in [Export -> BOOLEAN],
           deliveries' \in [Export -> 0..MaxTries], faults' \in 0..MaxFaults,
           UNCHANGED <<request, stalled>>
    PROVE  IInv'
<1>1. \A d \in Export : ExportOK(d)'
    BY Elsewhere DEF IInv
<1>2. Types'
    BY DEF IInv, Types, OtherRuns, OtherRows
<1> QED BY <1>1, <1>2 DEF IInv

LEMMA ByRow ==
    ASSUME IInv, NEW e \in Export, ExportOK(e)', OtherRows(e), UNCHANGED <<run, clips, master>>,
           request' \in [Export -> {"none", "sending", "refusing", "answered"}],
           deliveries' \in [Export -> 0..MaxTries], faults' \in 0..MaxFaults,
           stalled' \in BOOLEAN, ~stalled' => ~stalled
    PROVE  IInv'
<1>1. \A d \in Export : ExportOK(d)'
    BY Elsewhere DEF IInv
<1>2. RunsOK'
    BY DEF IInv, Types, RunsOK
<1>3. Types'
    BY <1>2 DEF IInv, Types, OtherRows
<1> QED BY <1>1, <1>3 DEF IInv

(* A step that touches neither rows nor runs. *)
LEMMA ByRequest ==
    ASSUME IInv, UNCHANGED <<row, run, clips, master, stalled>>,
           request' \in [Export -> {"none", "sending", "refusing", "answered"}],
           deliveries' \in [Export -> 0..MaxTries], faults' \in 0..MaxFaults
    PROVE  IInv'
<1>1. \A d \in Export : ExportOK(d)'
    BY Frame DEF IInv
<1>2. RunsOK'
    BY DEF IInv, Types, RunsOK
<1> QED BY <1>1, <1>2 DEF IInv, Types

-----------------------------------------------------------------------------
(* The request, the user and the clock. *)

LEMMA InitOK == Init => IInv
<1> SUFFICES ASSUME Init PROVE IInv
    OBVIOUS
<1>1. NoRow \in Row /\ NoRow.status = "none" /\ ~NoRow.key /\ ~NoRow.cancel /\ ~NoRow.quiet
    BY DEF NoRow, Row, EXPORT_IN_FLIGHT_STATUSES, Terminal
<1>2. IdleRun \in RunState /\ IdleRun.pc = "idle" /\ "idle" \notin Live
    BY WindowsAssumption DEF IdleRun, RunState, Live, Stage
<1>3. \A r \in Run, e \in Export : ~WorksOn(r, e)
    BY <1>2 DEF Init, WorksOn
<1>4. \A e \in Export : row[e] = NoRow
    BY DEF Init
<1>5. \A e \in Export : Started(e) /\ KeyOK(e) /\ CancelOK(e) /\ MasterOK(e) /\ QuietOK(e)
                          /\ OneRunOK(e)
    BY <1>1, <1>3, <1>4 DEF Started, KeyOK, CancelOK, MasterOK, QuietOK, OneRunOK
<1>6. RunsOK
    BY <1>2 DEF Init, RunsOK
<1>7. Types
    <2>1. row \in [Export -> Row] /\ 0 \in 0..MaxTries /\ 0 \in 0..MaxFaults
        BY <1>1, TriesAssumption, FaultsAssumption DEF Init
    <2> QED BY <1>6, <2>1 DEF Init, Types
<1> QED BY <1>5, <1>7 DEF IInv, ExportOK

LEMMA InsertOK ==
    ASSUME IInv, NEW e \in Export, NEW policy \in {"forbid", "allow_poster"}, NEW still \in BOOLEAN,
           Insert(e, policy, still)
    PROVE  IInv'
<1> DEFINE new == [NoRow EXCEPT !.status = "queued", !.policy = policy, !.still = still]
<1>1. new \in Row /\ new.status = "queued" /\ ~new.cancel /\ ~new.key /\ ~new.quiet
    BY DEF NoRow, Row, EXPORT_IN_FLIGHT_STATUSES
<1>2. row' = [row EXCEPT ![e] = new]
    BY DEF Insert
<1> HIDE DEF new
<1>3. OtherRows(e) /\ row'[e] = new
    BY <1>1, <1>2, NewRow DEF IInv, Types
<1>4. ExportOK(e)'
    BY <1>1, <1>3, RowOK DEF Insert, IInv
<1> QED BY <1>3, <1>4, ByRow DEF Insert, IInv, Types

LEMMA SendOK ==
    ASSUME IInv, NEW e \in Export, NEW stored \in BOOLEAN, NEW thrown \in BOOLEAN,
           Send(e, stored, thrown)
    PROVE  IInv'
<1>1. faults' \in 0..MaxFaults
    BY FaultFacts DEF Send, IInv, Types
<1>2. deliveries' \in [Export -> 0..MaxTries]
    BY TriesAssumption DEF Send, IInv, Types
<1>3. request' \in [Export -> {"none", "sending", "refusing", "answered"}]
    BY DEF Send, IInv, Types
<1> QED BY <1>1, <1>2, <1>3, ByRequest DEF Send

LEMMA RefuseOK == ASSUME IInv, NEW e \in Export, Refuse(e) PROVE IInv'
<1>1. request' \in [Export -> {"none", "sending", "refusing", "answered"}]
    BY DEF Refuse, IInv, Types
<1>2. CASE Fault /\ UNCHANGED row
    BY <1>1, <1>2, FaultFacts, ByRequest DEF Refuse, IInv, Types
<1>3. CASE /\ row' = [row EXCEPT ![e].status = "failed", ![e].error = "unavailable", ![e].quiet = FALSE]
           /\ UNCHANGED faults
    <2>1. Moved(e, "failed") /\ row'[e].error = "unavailable"
        BY <1>3, MoveFacts, Statuses DEF IInv, Types
    <2>2. ExportOK(e)'
        BY <2>1, RowOK DEF Refuse, IInv, Moved
    <2> QED BY <1>1, <1>3, <2>1, <2>2, ByRow DEF Refuse, IInv, Types, Moved
<1> QED BY <1>2, <1>3 DEF Refuse

LEMMA RequestDiesOK == ASSUME IInv, NEW e \in Export, RequestDies(e) PROVE IInv'
BY FaultFacts, ByRequest DEF RequestDies, IInv, Types

LEMMA CancelStepOK == ASSUME IInv, NEW e \in Export, Cancel(e) PROVE IInv'
<1>1. row' = [row EXCEPT ![e].cancel = TRUE, ![e].quiet = FALSE]
    BY DEF Cancel
<1>2. /\ OtherRows(e) /\ ~row'[e].quiet /\ row'[e].status = row[e].status
      /\ row'[e].error = row[e].error /\ row'[e].key = row[e].key /\ row'[e].still = row[e].still
    BY <1>1, FlagFacts DEF IInv, Types
<1>3. ExportOK(e)'
    BY <1>2, RowOK DEF Cancel, IInv
<1> QED BY <1>2, <1>3, ByRow DEF Cancel, IInv, Types

(* Only the clock of a row changes. *)
LEMMA ClockFacts ==
    ASSUME row \in [Export -> Row], NEW e \in Export, NEW quiet \in BOOLEAN,
           row' = [row EXCEPT ![e].quiet = quiet]
    PROVE  /\ OtherRows(e) /\ row'[e].quiet = quiet /\ row'[e].cancel = row[e].cancel
           /\ row'[e].status = row[e].status /\ row'[e].error = row[e].error
           /\ row'[e].key = row[e].key /\ row'[e].still = row[e].still
<1>1. row[e].cancel \in BOOLEAN
    BY DEF Row
<1>2. row' = [row EXCEPT ![e].cancel = row[e].cancel, ![e].quiet = quiet]
    BY DEF Row
<1> QED BY <1>1, <1>2, FlagFacts

LEMMA GoQuietOK == ASSUME IInv, NEW e \in Export, GoQuiet(e) PROVE IInv'
<1>1. row' = [row EXCEPT ![e].quiet = TRUE]
    BY DEF GoQuiet
<1>2. /\ OtherRows(e) /\ row'[e].cancel = row[e].cancel /\ row'[e].status = row[e].status
      /\ row'[e].error = row[e].error /\ row'[e].key = row[e].key /\ row'[e].still = row[e].still
    BY <1>1, ClockFacts DEF IInv, Types
<1>3. /\ faults' \in 0..MaxFaults /\ stalled' \in BOOLEAN /\ (~stalled' => ~stalled)
      /\ stalled' \/ \A r \in Run : ~WorksOn(r, e)
    BY FaultFacts DEF GoQuiet, IInv, Types
<1>4. ExportOK(e)'
    BY <1>2, <1>3, RowOK DEF GoQuiet, IInv
<1> QED BY <1>2, <1>3, <1>4, ByRow DEF GoQuiet, IInv, Types

LEMMA ReapOK == ASSUME IInv, NEW e \in Export, Reap(e) PROVE IInv'
<1>1. /\ Moved(e, "failed") /\ row'[e].error = "abandoned" /\ row'[e].key = row[e].key
    BY MoveFacts, Statuses DEF Reap, IInv, Types
<1>2. ~row'[e].key
    BY <1>1, Statuses DEF Reap, Abandoned, InFlight, IInv, ExportOK, KeyOK
<1>3. ExportOK(e)'
    BY <1>1, <1>2, RowOK DEF Reap, IInv, Moved
<1> QED BY <1>1, <1>3, ByRow DEF Reap, IInv, Types, Moved

-----------------------------------------------------------------------------
(* The steps of a run. *)

LEMMA NotLive == "idle" \notin Live /\ "claim" \notin Live /\ Stage \subseteq Live
BY DEF Live, Stage

LEMMA WindowRange == 0 \in 0..Windows /\ Windows \in 0..Windows
BY WindowsAssumption

LEMMA DeliverOK == ASSUME IInv, NEW r \in Run, NEW e \in Export, Deliver(r, e) PROVE IInv'
<1>1. deliveries' \in [Export -> 0..MaxTries]
    BY TriesAssumption DEF Deliver, IInv, Types
<1>2. CASE run' = run
    BY <1>1, <1>2, ByRequest DEF Deliver, IInv, Types
<1>3. CASE run' = [run EXCEPT ![r] = [IdleRun EXCEPT !.pc = "claim", !.export = e]]
    <2> DEFINE new == [IdleRun EXCEPT !.pc = "claim", !.export = e]
    <2>1. new \in RunState /\ new.pc = "claim" /\ "claim" \notin Live
        BY WindowRange, NotLive DEF IdleRun, RunState
    <2>2. run' = [run EXCEPT ![r] = new]
        BY <1>3
    <2> HIDE DEF new
    <2>3. OtherRuns(r) /\ run'[r].pc = "claim"
        BY <2>1, <2>2, NewRun DEF IInv, Types
    <2>4. ExportOK(e)'
        BY <2>1, <2>3, LeaveOK DEF Deliver, IInv
    <2> QED BY <1>1, <2>1, <2>3, <2>4, ByRun DEF Deliver, IInv, Types
<1> QED BY <1>2, <1>3 DEF Deliver

LEMMA ClaimStepOK == ASSUME IInv, NEW r \in Run, NEW e \in Export, Claim(r, e) PROVE IInv'
<1>1. CASE MayClaim(e)
    <2> DEFINE new == [run[r] EXCEPT !.pc = "plan", !.left = Windows, !.still = row[e].still]
    <2>1. new \in RunState /\ new.pc = "plan" /\ new.export = run[r].export
        <3>1. run[r] \in RunState /\ row[e].still \in BOOLEAN /\ "plan" \in Live
            BY DEF IInv, Types, RunsOK, Live, Stage, Row
        <3> QED BY <3>1, WindowRange DEF RunState
    <2>2. run' = [run EXCEPT ![r] = new]
        BY <1>1 DEF Claim
    <2> HIDE DEF new
    <2>3. OtherRuns(r) /\ run'[r].pc = "plan" /\ run'[r].export = e
        BY <2>1, <2>2, NewRun DEF IInv, Types, Claim
    <2>4. Moved(e, "planning") /\ row'[e].key = row[e].key
        BY <1>1, StatusFacts, Statuses DEF Claim, IInv, Types
    <2>5. ExportOK(e)'
        BY <1>1, <2>3, <2>4, ClaimOK DEF Claim, IInv
    <2> QED BY <2>3, <2>4, <2>5, ByRun DEF Claim, IInv, Types, Moved
<1>2. CASE ~MayClaim(e)
    <2>1. OtherRuns(r) /\ run'[r].pc \notin Live
        BY <1>2, EndFacts, NotLive DEF Claim, IInv, Types
    <2>2. ExportOK(e)'
        BY <1>2, <2>1, LeaveOK DEF Claim, IInv
    <2> QED BY <1>2, <2>1, <2>2, ByRun DEF Claim, IInv, Types
<1> QED BY <1>1, <1>2

LEMMA BeatOK == ASSUME IInv, NEW r \in Run, NEW e \in Export, Beat(r, e) PROVE IInv'
<1>1. row' = [row EXCEPT ![e].quiet = FALSE]
    BY DEF Beat
<1>2. /\ OtherRows(e) /\ ~row'[e].quiet /\ row'[e].cancel = row[e].cancel
      /\ row'[e].status = row[e].status
      /\ row'[e].error = row[e].error /\ row'[e].key = row[e].key /\ row'[e].still = row[e].still
    BY <1>1, ClockFacts DEF IInv, Types
<1>3. ExportOK(e)'
    BY <1>2, RowOK DEF Beat, IInv
<1> QED BY <1>2, <1>3, ByRow DEF Beat, IInv, Types

(* A run goes on, or towards a failure or a cancellation. *)
LEMMA MoveOnOK ==
    ASSUME IInv, NEW r \in Run, NEW e \in Export, run[r].export = e, run[r].pc \in Stage,
           OtherRuns(r), run'[r].pc \in Live \ {"publish"}, run'[r].export = e,
           clips' \in [Export -> BOOLEAN],
           UNCHANGED <<request, deliveries, master, stalled, faults>>,
           row' = row \/ \E status \in EXPORT_IN_FLIGHT_STATUSES \cup Terminal :
                             /\ FencedUpdate(e, status)
                             /\ status = row[e].status \/ status \in {"capturing", "assembling", "uploading"}
    PROVE  IInv'
<1>1. CASE row' = row
    <2>1. ExportOK(e)'
        BY <1>1, PhaseOK DEF IInv, Types
    <2> QED BY <1>1, <2>1, ByRun DEF IInv, Types
<1>2. CASE row' # row
    <2>1. PICK status \in EXPORT_IN_FLIGHT_STATUSES \cup Terminal :
                /\ FencedUpdate(e, status)
                /\ status = row[e].status \/ status \in {"capturing", "assembling", "uploading"}
        BY <1>2
    <2>2. InFlight(e) /\ row' = [row EXCEPT ![e].status = status, ![e].quiet = FALSE]
        BY <1>2, <2>1 DEF FencedUpdate
    <2>3. Moved(e, status) /\ row'[e].key = row[e].key /\ row'[e].status = status
        BY <2>2, StatusFacts DEF IInv, Types, Moved
    <2>4. row[e].status # "queued"
        BY NotLive DEF IInv, ExportOK, Started, WorksOn
    <2>5. status \in EXPORT_IN_FLIGHT_STATUSES \ {"queued"}
        BY <2>1, <2>2, <2>4, Statuses DEF InFlight
    <2>6. ExportOK(e)'
        BY <2>2, <2>3, <2>5, PhaseOK DEF IInv, Types
    <2> QED BY <2>3, <2>6, ByRun DEF IInv, Types, Moved
<1> QED BY <1>1, <1>2

LEMMA UnlessCancelledFacts ==
    ASSUME RunsOK, NEW r \in Run, NEW e \in Export, NEW next \in Live \ {"publish"},
           next = "capture" => run[r].left # 0, UnlessCancelled(r, e, next)
    PROVE  OtherRuns(r) /\ run'[r].pc \in Live \ {"publish"} /\ run'[r].export = run[r].export
<1>1. PICK pc \in {"cancelling", next} : GoTo(r, pc)
    BY DEF UnlessCancelled
<1>2. pc \in Live \ {"publish"} /\ (pc = "capture" => run[r].left # 0)
    BY <1>1 DEF Live
<1> QED BY <1>1, <1>2, GoToFacts

LEMMA StillFacts ==
    ASSUME RunsOK, NEW r \in Run, run[r].left # 0, Still(r)
    PROVE  OtherRuns(r) /\ run'[r].pc \in Live \ {"publish"} /\ run'[r].export = run[r].export
<1>1. run[r].clip \in BOOLEAN /\ "window" \in Live
    BY DEF RunsOK, RunState, Live, Stage
<1>2. run' = [run EXCEPT ![r].pc = "window", ![r].still = TRUE, ![r].clip = run[r].clip,
                         ![r].left = run[r].left - 1]
    BY DEF Still, RunsOK, RunState
<1> QED BY <1>1, <1>2, WindowFacts

LEMMA StillIfAllowedFacts ==
    ASSUME RunsOK, NEW r \in Run, NEW e \in Export, run[r].left # 0, StillIfAllowed(r, e)
    PROVE  OtherRuns(r) /\ run'[r].pc \in Live \ {"publish"} /\ run'[r].export = run[r].export
<1>1. "failing" \in Live
    BY DEF Live
<1> QED BY <1>1, GoToFacts, StillFacts DEF StillIfAllowed

(* A fenced write that keeps the status. *)
LEMMA ProgressFacts ==
    ASSUME NEW e \in Export, FencedUpdate(e, row[e].status)
    PROVE  row' = row \/ (InFlight(e) /\ FencedUpdate(e, row[e].status))
<1>1. CASE InFlight(e)
    BY <1>1
<1>2. CASE ~InFlight(e)
    BY <1>2 DEF FencedUpdate
<1> QED BY <1>1, <1>2

LEMMA PlanOK == ASSUME IInv, NEW r \in Run, NEW e \in Export, run[r].export = e, Plan(r, e) PROVE IInv'
<1>1. "begin" \in Live \ {"publish"} /\ run[r].pc \in Stage
    BY DEF Plan, Live, Stage
<1>2. OtherRuns(r) /\ run'[r].pc \in Live \ {"publish"} /\ run'[r].export = e
    BY <1>1, UnlessCancelledFacts DEF Plan, IInv, Types
<1>3. row' = row \/ (InFlight(e) /\ FencedUpdate(e, row[e].status))
    BY ProgressFacts DEF Plan
<1> QED BY <1>1, <1>2, <1>3, MoveOnOK DEF Plan, InFlight, IInv, Types

LEMMA CapturedOK ==
    ASSUME IInv, NEW r \in Run, NEW e \in Export, run[r].export = e, Captured(r, e) PROVE IInv'
<1>1. "assembling" \in Live \ {"publish"} /\ run[r].pc \in Stage
    BY DEF Captured, Live, Stage
<1>2. OtherRuns(r) /\ run'[r].pc \in Live \ {"publish"} /\ run'[r].export = e
    BY <1>1, UnlessCancelledFacts DEF Captured, IInv, Types
<1>3. row' = row \/ (InFlight(e) /\ FencedUpdate(e, row[e].status))
    BY ProgressFacts DEF Captured
<1> QED BY <1>1, <1>2, <1>3, MoveOnOK DEF Captured, InFlight, IInv, Types

(* The three writes that name the next phase. *)
LEMMA BeginOK ==
    ASSUME IInv, NEW r \in Run, NEW e \in Export, run[r].export = e,
           BeginCapturing(r, e) \/ BeginAssembling(r, e) \/ BeginUploading(r, e)
    PROVE  IInv'
<1>1. PICK status \in {"capturing", "assembling", "uploading"}, pc \in {"window", "assemble", "upload"} :
          FencedUpdate(e, status) /\ GoTo(r, pc)
    BY DEF BeginCapturing, BeginAssembling, BeginUploading
<1>2. /\ pc \in Live \ {"publish"} /\ pc # "capture" /\ run[r].pc \in Stage
      /\ status \in EXPORT_IN_FLIGHT_STATUSES
    BY <1>1 DEF BeginCapturing, BeginAssembling, BeginUploading, Live, Stage, EXPORT_IN_FLIGHT_STATUSES
<1>3. OtherRuns(r) /\ run'[r].pc \in Live \ {"publish"} /\ run'[r].export = e
    BY <1>1, <1>2, GoToFacts DEF IInv, Types
<1>4. UNCHANGED <<request, deliveries, clips, master, stalled, faults>>
    BY DEF BeginCapturing, BeginAssembling, BeginUploading
<1> QED BY <1>1, <1>2, <1>3, <1>4, MoveOnOK DEF IInv, Types

LEMMA WindowOK ==
    ASSUME IInv, NEW r \in Run, NEW e \in Export, run[r].export = e, Window(r, e) PROVE IInv'
<1>1. {"captured", "capture"} \subseteq Live \ {"publish"} /\ run[r].pc \in Stage
    BY DEF Window, Live, Stage
<1>2. CASE run[r].left = 0
    <2>1. GoTo(r, "captured")
        BY <1>2 DEF Window
    <2>2. OtherRuns(r) /\ run'[r].pc \in Live \ {"publish"} /\ run'[r].export = e
        BY <1>1, <2>1, GoToFacts DEF IInv, Types
    <2> QED BY <1>1, <2>2, MoveOnOK DEF Window, IInv, Types
<1>3. CASE run[r].left # 0
    <2>1. UnlessCancelled(r, e, "capture") \/ StillIfAllowed(r, e)
        BY <1>3 DEF Window
    <2>2. OtherRuns(r) /\ run'[r].pc \in Live \ {"publish"} /\ run'[r].export = e
        BY <1>1, <1>3, <2>1, UnlessCancelledFacts, StillIfAllowedFacts DEF IInv, Types
    <2> QED BY <1>1, <2>2, MoveOnOK DEF Window, IInv, Types
<1> QED BY <1>2, <1>3

(* The outcomes of a capture. *)
LEMMA CaptureOK ==
    ASSUME IInv, NEW r \in Run, NEW e \in Export, run[r].export = e,
           CaptureThrows(r, e) \/ CaptureRejected(r, e) \/ CaptureClip(r, e)
    PROVE  IInv'
<1>1. run[r].pc = "capture" /\ run[r].pc \in Stage /\ {"window", "cancelling"} \subseteq Live \ {"publish"}
    BY DEF CaptureThrows, CaptureRejected, CaptureClip, Live, Stage
<1>2. run[r].left # 0 /\ run[r].still \in BOOLEAN
    BY <1>1 DEF IInv, Types, RunsOK, RunState
<1>3. CASE CaptureThrows(r, e)
    <2>1. OtherRuns(r) /\ run'[r].pc \in Live \ {"publish"} /\ run'[r].export = e
        BY <1>1, <1>2, <1>3, GoToFacts, StillIfAllowedFacts DEF CaptureThrows, IInv, Types
    <2> QED BY <1>1, <1>3, <2>1, MoveOnOK DEF CaptureThrows, IInv, Types
<1>4. CASE CaptureRejected(r, e)
    <2>1. OtherRuns(r) /\ run'[r].pc \in Live \ {"publish"} /\ run'[r].export = e
        BY <1>2, <1>4, StillFacts DEF CaptureRejected, IInv, Types
    <2> QED BY <1>1, <1>4, <2>1, MoveOnOK DEF CaptureRejected, IInv, Types
<1>5. CASE CaptureClip(r, e)
    <2>1. run' = [run EXCEPT ![r].pc = "window", ![r].still = run[r].still, ![r].clip = TRUE,
                             ![r].left = run[r].left - 1]
        BY <1>5 DEF CaptureClip, IInv, Types, RunsOK, RunState
    <2>2. OtherRuns(r) /\ run'[r].pc \in Live \ {"publish"} /\ run'[r].export = e
        BY <1>1, <1>2, <2>1, WindowFacts DEF IInv, Types
    <2>3. clips' \in [Export -> BOOLEAN]
        BY <1>5 DEF CaptureClip, IInv, Types
    <2> QED BY <1>1, <1>5, <2>2, <2>3, MoveOnOK DEF CaptureClip
<1> QED BY <1>3, <1>4, <1>5

LEMMA AssembleOK ==
    ASSUME IInv, NEW r \in Run, NEW e \in Export, run[r].export = e, Assemble(r, e) PROVE IInv'
<1>1. "uploading" \in Live \ {"publish"} /\ run[r].pc \in Stage
    BY DEF Assemble, Live, Stage
<1>2. OtherRuns(r) /\ run'[r].pc \in Live \ {"publish"} /\ run'[r].export = e
    BY <1>1, UnlessCancelledFacts DEF Assemble, IInv, Types
<1> QED BY <1>1, <1>2, MoveOnOK DEF Assemble, IInv, Types

LEMMA ThrowOK ==
    ASSUME IInv, NEW r \in Run, NEW e \in Export, run[r].export = e, Throw(r, e) PROVE IInv'
<1>1. "failing" \in Live \ {"publish"} /\ run[r].pc \in Stage
    BY DEF Throw, Live
<1>2. OtherRuns(r) /\ run'[r].pc \in Live \ {"publish"} /\ run'[r].export = e
    BY <1>1, GoToFacts DEF Throw, IInv, Types
<1> QED BY <1>1, <1>2, MoveOnOK DEF Throw, IInv, Types

LEMMA UploadStepOK ==
    ASSUME IInv, NEW r \in Run, NEW e \in Export, run[r].export = e, Upload(r, e) PROVE IInv'
<1>1. "publish" \in Live /\ OtherRuns(r) /\ run'[r].pc = "publish" /\ run'[r].export = e
      /\ run'[r].still = run[r].still
    BY GoToFacts DEF Upload, IInv, Types, Live, Stage
<1>2. /\ master'[e] = (IF run[r].still THEN "stills" ELSE "live")
      /\ \A d \in Export \ {e} : master'[d] = master[d]
      /\ master' \in [Export -> {"none", "live", "stills"}]
    BY DEF Upload, IInv, Types
<1>3. ExportOK(e)'
    BY <1>1, <1>2, UploadOK DEF Upload, IInv, Types
<1> QED BY <1>1, <1>2, <1>3, ByRun DEF Upload, IInv, Types

LEMMA PublishStepOK ==
    ASSUME IInv, NEW r \in Run, NEW e \in Export, run[r].export = e, Publish(r, e) PROVE IInv'
<1>1. run[r].pc \in Stage /\ {"cleanup", "failing", "cancelling"} \subseteq Live \ {"publish"}
    BY DEF Publish, Live, Stage
<1>2. CASE InFlight(e) /\ ~row[e].cancel
    <2>1. row' = Ready(r, e) /\ \E next \in {"cleanup", "failing"} : GoTo(r, next)
        BY <1>2 DEF Publish
    <2>2. OtherRuns(r) /\ run'[r].pc \in {"cleanup", "failing"} /\ run'[r].export = e
        BY <1>1, <2>1, GoToFacts DEF IInv, Types
    <2>3. Moved(e, "ready") /\ row'[e].still = run[r].still
        BY <2>1, ReadyFacts DEF IInv, Types
    <2>4. ExportOK(e)'
        BY <1>2, <2>2, <2>3, PublishOK DEF Publish, IInv
    <2> QED BY <2>2, <2>3, <2>4, ByRun DEF Publish, IInv, Types, Moved
<1>3. CASE ~(InFlight(e) /\ ~row[e].cancel) /\ row[e].cancel
    <2>1. GoTo(r, "cancelling")
        BY <1>3 DEF Publish
    <2>2. OtherRuns(r) /\ run'[r].pc \in Live \ {"publish"} /\ run'[r].export = e
        BY <1>1, <2>1, GoToFacts DEF IInv, Types
    <2> QED BY <1>1, <1>3, <2>2, MoveOnOK DEF Publish, IInv, Types
<1>4. CASE ~(InFlight(e) /\ ~row[e].cancel) /\ ~row[e].cancel
    <2>1. OtherRuns(r) /\ run'[r].pc \notin Live
        BY <1>4, EndFacts, NotLive DEF Publish, IInv, Types
    <2>2. ExportOK(e)'
        BY <1>4, <2>1, LeaveOK DEF Publish, IInv
    <2> QED BY <1>4, <2>1, <2>2, ByRun DEF Publish, IInv, Types
<1> QED BY <1>2, <1>3, <1>4

LEMMA CleanupOK ==
    ASSUME IInv, NEW r \in Run, NEW e \in Export, run[r].export = e, Cleanup(r, e) PROVE IInv'
<1>1. OtherRuns(r) /\ run'[r].pc \notin Live
    BY EndFacts, NotLive DEF Cleanup, IInv, Types
<1>2. ExportOK(e)'
    BY <1>1, LeaveOK DEF Cleanup, IInv
<1>3. clips' \in [Export -> BOOLEAN]
    BY DEF Cleanup, IInv, Types
<1> QED BY <1>1, <1>2, <1>3, ByRun DEF Cleanup, IInv, Types

LEMMA RecordFailureOK ==
    ASSUME IInv, NEW r \in Run, NEW e \in Export, run[r].export = e, RecordFailure(r, e) PROVE IInv'
<1>1. OtherRuns(r) /\ run'[r].pc \notin Live
    BY EndFacts, NotLive DEF RecordFailure, IInv, Types
<1>2. faults' \in 0..MaxFaults
    BY FaultFacts DEF RecordFailure, IInv, Types
<1>3. CASE row' = row
    <2>1. ExportOK(e)'
        BY <1>1, <1>3, LeaveOK DEF RecordFailure, IInv
    <2> QED BY <1>1, <1>2, <1>3, <2>1, ByRun DEF RecordFailure, IInv, Types
<1>4. CASE InFlight(e) /\ row' = [row EXCEPT ![e].status = "cancelled", ![e].quiet = FALSE]
    <2>1. Moved(e, "cancelled") /\ row'[e].key = row[e].key
        BY <1>4, StatusFacts, Statuses DEF IInv, Types
    <2>2. ExportOK(e)'
        BY <1>1, <1>4, <2>1, LeaveOK DEF RecordFailure, IInv, Moved
    <2> QED BY <1>1, <1>2, <2>1, <2>2, ByRun DEF RecordFailure, IInv, Types, Moved
<1>5. CASE InFlight(e) /\ ~row[e].cancel /\ row' = Failed(e)
    <2>1. Moved(e, "failed") /\ row'[e].key = row[e].key
        BY <1>5, MoveFacts, Statuses DEF Failed, IInv, Types
    <2>2. ExportOK(e)'
        BY <1>1, <1>5, <2>1, LeaveOK DEF RecordFailure, IInv, Moved
    <2> QED BY <1>1, <1>2, <2>1, <2>2, ByRun DEF RecordFailure, IInv, Types, Moved
<1> QED BY <1>3, <1>4, <1>5 DEF RecordFailure

LEMMA DieOK == ASSUME IInv, NEW r \in Run, Die(r) PROVE IInv'
<1>1. OtherRuns(r) /\ run'[r].pc \notin Live
    BY EndFacts, NotLive DEF Die, IInv, Types
<1>2. faults' \in 0..MaxFaults
    BY FaultFacts DEF Die, IInv, Types
<1>3. \A e \in Export : ExportOK(e)'
    BY <1>1, LeaveOK DEF Die, IInv
<1>4. Types'
    BY <1>1, <1>2 DEF Die, IInv, Types, OtherRuns
<1> QED BY <1>3, <1>4 DEF IInv

-----------------------------------------------------------------------------
LEMMA RunStepOK == ASSUME IInv, NEW r \in Run, RunStep(r) PROVE IInv'
<1> PICK e \in Export : run[r].export = e /\ Step(r, e)
    BY DEF RunStep
<1>1. CASE Claim(r, e) \/ Beat(r, e) \/ Upload(r, e) \/ Publish(r, e) \/ Cleanup(r, e)
           \/ Throw(r, e) \/ RecordFailure(r, e)
    BY <1>1, ClaimStepOK, BeatOK, UploadStepOK, PublishStepOK, CleanupOK, ThrowOK, RecordFailureOK
<1>2. CASE Plan(r, e) \/ BeginCapturing(r, e) \/ Window(r, e) \/ Captured(r, e)
           \/ BeginAssembling(r, e) \/ Assemble(r, e) \/ BeginUploading(r, e)
    BY <1>2, PlanOK, BeginOK, WindowOK, CapturedOK, AssembleOK
<1>3. CASE CaptureThrows(r, e) \/ CaptureRejected(r, e) \/ CaptureClip(r, e)
    BY <1>3, CaptureOK
<1> QED BY <1>1, <1>2, <1>3 DEF Step

LEMMA NextOK == ASSUME IInv, [Next]_vars PROVE IInv'
<1>1. CASE UNCHANGED vars
    BY <1>1, ByRequest DEF vars, IInv, Types
<1>2. CASE \E e \in Export, policy \in {"forbid", "allow_poster"}, still \in BOOLEAN :
               Insert(e, policy, still)
    BY <1>2, InsertOK
<1>3. CASE \E e \in Export, stored, thrown \in BOOLEAN : Send(e, stored, thrown)
    BY <1>3, SendOK
<1>4. CASE \E e \in Export : Refuse(e) \/ RequestDies(e) \/ Cancel(e) \/ GoQuiet(e) \/ Reap(e)
    BY <1>4, RefuseOK, RequestDiesOK, CancelStepOK, GoQuietOK, ReapOK
<1>5. CASE \E r \in Run, e \in Export : Deliver(r, e)
    BY <1>5, DeliverOK
<1>6. CASE \E r \in Run : RunStep(r) \/ Die(r)
    BY <1>6, RunStepOK, DieOK
<1> QED BY <1>1, <1>2, <1>3, <1>4, <1>5, <1>6 DEF Next

(* Whatever is delivered again, dies or stalls, the rows, the masters and    *)
(* the runs agree as the invariant says.                                     *)
THEOREM Invariant == Spec => []IInv
<1>1. Init => IInv
    BY InitOK
<1>2. IInv /\ [Next]_vars => IInv'
    BY NextOK
<1> QED BY <1>1, <1>2, PTL DEF Spec

(* The variables have their types, and output_key is set by the publication  *)
(* only.                                                                     *)
THEOREM TypeCorrect == Spec => []TypeOK
<1>1. IInv => TypeOK
    BY DEF IInv, Types, RunsOK, ExportOK, KeyOK, TypeOK
<1> QED BY <1>1, Invariant, PTL

(* The lease: without a stall of a live run, the conditional claim and the   *)
(* heartbeat keep a second delivery from encoding what is being encoded.     *)
THEOREM OneRunEncodes == Spec => []OneEncode
<1>1. IInv => OneEncode
    BY DEF IInv, ExportOK, OneRunOK, OneEncode
<1> QED BY <1>1, Invariant, PTL

(* The publication: a ready row has a master, and says what it shows.        *)
THEOREM ReadyRowsAreTrue == Spec => []ReadyIsTrue
<1>1. IInv => ReadyIsTrue
    BY DEF IInv, ExportOK, OneRunOK, MasterOK, Shows, ReadyIsTrue
<1> QED BY <1>1, Invariant, PTL

(* The user's stop: no order of the flag, the upload, the reaper and the     *)
(* failure write publishes a cancelled export or records it as a defect.     *)
THEOREM CancellationsAreKept == Spec => []CancelIsKept
<1>1. IInv => CancelIsKept
    BY DEF IInv, ExportOK, CancelOK, CancelIsKept
<1> QED BY <1>1, Invariant, PTL

-----------------------------------------------------------------------------
(* Which rows change: but for the insertion and the refusal, the row of one  *)
(* export in flight.                                                         *)
OneRowInFlight ==
    row' = row \/ \E e \in Export : InFlight(e) /\ \A d \in Export \ {e} : row'[d] = row[d]

LEMMA FencedRow ==
    ASSUME row \in [Export -> Row], NEW e \in Export,
           NEW status \in EXPORT_IN_FLIGHT_STATUSES \cup Terminal, FencedUpdate(e, status)
    PROVE  OneRowInFlight
<1>1. CASE InFlight(e)
    <2>1. row' = [row EXCEPT ![e].status = status, ![e].quiet = FALSE]
        BY <1>1 DEF FencedUpdate
    <2>2. OtherRows(e)
        BY <2>1, StatusFacts DEF Moved
    <2> QED BY <1>1, <2>2 DEF OneRowInFlight, OtherRows
<1>2. CASE ~InFlight(e)
    BY <1>2 DEF FencedUpdate, OneRowInFlight
<1> QED BY <1>1, <1>2

LEMMA RunStepRow == ASSUME IInv, NEW r \in Run, RunStep(r) PROVE OneRowInFlight
<1> PICK e \in Export : run[r].export = e /\ Step(r, e)
    BY DEF RunStep
<1>1. CASE Claim(r, e)
    <2>1. CASE MayClaim(e)
        <3>1. OtherRows(e)
            BY <1>1, <2>1, StatusFacts, Statuses DEF Claim, IInv, Types, Moved
        <3> QED BY <2>1, <3>1, Statuses DEF MayClaim, InFlight, OneRowInFlight, OtherRows
    <2>2. CASE ~MayClaim(e)
        BY <1>1, <2>2 DEF Claim, OneRowInFlight
    <2> QED BY <2>1, <2>2
<1>2. CASE Beat(r, e)
    <2>1. OtherRows(e)
        BY <1>2, ClockFacts DEF Beat, IInv, Types
    <2>2. InFlight(e)
        BY <1>2 DEF Beat, IInv, ExportOK, QuietOK
    <2> QED BY <2>1, <2>2 DEF OneRowInFlight, OtherRows
<1>3. CASE Plan(r, e) \/ Captured(r, e)
    <2>1. FencedUpdate(e, row[e].status)
        BY <1>3 DEF Plan, Captured
    <2>2. CASE InFlight(e)
        BY <2>1, <2>2, FencedRow DEF InFlight, IInv, Types
    <2>3. CASE ~InFlight(e)
        BY <2>1, <2>3 DEF FencedUpdate, OneRowInFlight
    <2> QED BY <2>2, <2>3
<1>4. CASE BeginCapturing(r, e) \/ BeginAssembling(r, e) \/ BeginUploading(r, e)
    BY <1>4, FencedRow, Statuses DEF BeginCapturing, BeginAssembling, BeginUploading, IInv, Types
<1>5. CASE Window(r, e) \/ CaptureThrows(r, e) \/ CaptureRejected(r, e) \/ CaptureClip(r, e)
           \/ Assemble(r, e) \/ Upload(r, e) \/ Cleanup(r, e) \/ Throw(r, e)
    BY <1>5 DEF Window, CaptureThrows, CaptureRejected, CaptureClip, Assemble, Upload, Cleanup,
                Throw, OneRowInFlight
<1>6. CASE Publish(r, e)
    <2>1. CASE InFlight(e) /\ ~row[e].cancel
        <3>1. OtherRows(e)
            BY <1>6, <2>1, ReadyFacts DEF Publish, IInv, Types, Moved
        <3> QED BY <2>1, <3>1 DEF OneRowInFlight, OtherRows
    <2>2. CASE ~(InFlight(e) /\ ~row[e].cancel)
        BY <1>6, <2>2 DEF Publish, OneRowInFlight
    <2> QED BY <2>1, <2>2
<1>7. CASE RecordFailure(r, e)
    <2>1. CASE InFlight(e) /\ row' = [row EXCEPT ![e].status = "cancelled", ![e].quiet = FALSE]
        <3>1. OtherRows(e)
            BY <2>1, StatusFacts, Statuses DEF IInv, Types, Moved
        <3> QED BY <2>1, <3>1 DEF OneRowInFlight, OtherRows
    <2>2. CASE InFlight(e) /\ row' = Failed(e)
        <3>1. OtherRows(e)
            BY <2>2, MoveFacts, Statuses DEF Failed, IInv, Types, Moved
        <3> QED BY <2>2, <3>1 DEF OneRowInFlight, OtherRows
    <2>3. CASE row' = row
        BY <2>3 DEF OneRowInFlight
    <2> QED BY <1>7, <2>1, <2>2, <2>3 DEF RecordFailure
<1> QED BY <1>1, <1>2, <1>3, <1>4, <1>5, <1>6, <1>7 DEF Step

LEMMA RefuseRow == ASSUME IInv, NEW e \in Export, Refuse(e) PROVE row' = row \/ Moved(e, "failed")
<1>1. CASE row' = [row EXCEPT ![e].status = "failed", ![e].error = "unavailable", ![e].quiet = FALSE]
    BY <1>1, MoveFacts, Statuses DEF IInv, Types
<1> QED BY <1>1 DEF Refuse

LEMMA NextRow ==
    ASSUME IInv, Next
    PROVE  \/ OneRowInFlight
           \/ \E e \in Export, policy \in {"forbid", "allow_poster"}, still \in BOOLEAN :
                  Insert(e, policy, still)
           \/ \E e \in Export : Refuse(e)
<1>1. CASE \E e \in Export : Cancel(e) \/ GoQuiet(e) \/ Reap(e)
    <2> PICK e \in Export : Cancel(e) \/ GoQuiet(e) \/ Reap(e)
        BY <1>1
    <2>1. InFlight(e)
        BY DEF Cancel, GoQuiet, Reap, Abandoned
    <2>2. OtherRows(e)
        <3>1. CASE Cancel(e)
            BY <3>1, FlagFacts DEF Cancel, IInv, Types
        <3>2. CASE GoQuiet(e)
            BY <3>2, ClockFacts DEF GoQuiet, IInv, Types
        <3>3. CASE Reap(e)
            BY <3>3, MoveFacts, Statuses DEF Reap, IInv, Types, Moved
        <3> QED BY <3>1, <3>2, <3>3
    <2> QED BY <2>1, <2>2 DEF OneRowInFlight, OtherRows
<1>2. CASE \E e \in Export : RequestDies(e) \/ \E stored, thrown \in BOOLEAN : Send(e, stored, thrown)
    BY <1>2 DEF RequestDies, Send, OneRowInFlight
<1>3. CASE \E r \in Run : Die(r) \/ \E e \in Export : Deliver(r, e)
    BY <1>3 DEF Die, Deliver, OneRowInFlight
<1>4. CASE \E r \in Run : RunStep(r)
    BY <1>4, RunStepRow
<1> QED BY <1>1, <1>2, <1>3, <1>4 DEF Next

(* The fences: no write of a run that was reaped or superseded, of the       *)
(* reaper or of the user changes a row that ended.                           *)
THEOREM TerminalStays == Spec => TerminalIsFinal
<1> DEFINE Kept == \A e \in Export : row[e].status \in Terminal => row'[e] = row[e] \/ Refuse(e)
<1>1. IInv /\ [Next]_vars => [Kept]_vars
    <2> SUFFICES ASSUME IInv, Next PROVE Kept
        OBVIOUS
    <2>1. CASE OneRowInFlight
        BY <2>1, Statuses DEF OneRowInFlight, InFlight
    <2>2. CASE \E e \in Export, policy \in {"forbid", "allow_poster"}, still \in BOOLEAN :
                   Insert(e, policy, still)
        BY <2>2, Statuses DEF Insert
    <2>3. CASE \E e \in Export : Refuse(e)
        <3> PICK e \in Export : Refuse(e)
            BY <2>3
        <3>1. \A d \in Export \ {e} : row'[d] = row[d]
            BY RefuseRow DEF Moved, OtherRows
        <3> QED BY <3>1
    <2> QED BY <2>1, <2>2, <2>3, NextRow
<1> QED BY <1>1, Invariant, PTL DEF Spec, TerminalIsFinal

(* What the partial unique index needs of the code around it: a row that     *)
(* left flight does not come back, so every project has one export at most.  *)
THEOREM OneExportInFlight == Spec => []OneInFlight
<1>1. Init => OneInFlight
    BY Statuses DEF Init, OneInFlight, InFlight, NoRow
<1>2. IInv /\ OneInFlight /\ [Next]_vars => OneInFlight'
    <2> SUFFICES ASSUME IInv, OneInFlight, [Next]_vars PROVE OneInFlight'
        OBVIOUS
    <2>1. CASE UNCHANGED vars
        BY <2>1 DEF vars, OneInFlight, InFlight
    <2>2. CASE OneRowInFlight
        BY <2>2 DEF OneRowInFlight, OneInFlight, InFlight
    <2>3. CASE \E e \in Export, policy \in {"forbid", "allow_poster"}, still \in BOOLEAN :
                   Insert(e, policy, still)
        BY <2>3 DEF Insert, OneInFlight, InFlight
    <2>4. CASE \E e \in Export : Refuse(e)
        <3> PICK e \in Export : Refuse(e)
            BY <2>4
        <3>1. \A d \in Export : InFlight(d)' => InFlight(d)
            BY RefuseRow, Statuses DEF Moved, OtherRows, InFlight
        <3> QED BY <3>1 DEF OneInFlight
    <2> QED BY <2>1, <2>2, <2>3, <2>4, NextRow
<1> QED BY <1>1, <1>2, Invariant, PTL DEF Spec
=============================================================================
