--------------------------- MODULE ProjectExport ---------------------------
(***************************************************************************)
(* Linear video export: the rows of project_exports for one project, the   *)
(* request that creates one, the runs of ProjectExportService that         *)
(* deliveries of its queue start, the reaper, and the objects they write.  *)
(*                                                                         *)
(* A run holds no token.  A row is claimed by moving it out of queued, or  *)
(* out of an in-flight status after five minutes without a heartbeat, and  *)
(* every later write is fenced on the row being in flight, no more.        *)
(***************************************************************************)
EXTENDS Naturals

CONSTANTS
    Export,       \* ids of the exports of one project
    Run,          \* concurrent runs
    Windows,      \* simulation windows of a plan
    MaxTries,     \* deliveries of one job: 1 + retryLimit of the queue
    MaxFaults     \* bound: deaths, stalls of a live run, writes and answers lost

ASSUME WindowsAssumption == Windows \in Nat \ {0}
ASSUME TriesAssumption == MaxTries \in Nat \ {0}
ASSUME FaultsAssumption == MaxFaults \in Nat

NoExport == "no export"
ASSUME ExportAssumption == NoExport \notin Export

EXPORT_IN_FLIGHT_STATUSES == {"queued", "planning", "capturing", "assembling", "uploading"}
Terminal == {"ready", "failed", "cancelled"}

VARIABLES
    row,          \* project_exports
    request,      \* where the POST handler that inserted a row is
    deliveries,   \* deliveries of a row's job still to come
    run,          \* the runs' local state
    clips,        \* whether captured clips are stored under sections/ of an export
    master,       \* what master.mp4 of an export shows
    stalled,      \* whether a live run has ever missed five minutes of beats
    faults

vars == <<row, request, deliveries, run, clips, master, stalled, faults>>

(* still: some window is a poster still, in the frozen plan until ready, in  *)
(* the published master after.  error: who ended the row without a master.   *)
Row == [status : EXPORT_IN_FLIGHT_STATUSES \cup Terminal \cup {"none"},
        cancel : BOOLEAN, quiet : BOOLEAN, policy : {"forbid", "allow_poster"},
        key : BOOLEAN, still : BOOLEAN,
        error : {"none", "run", "abandoned", "unavailable"}]
NoRow == [status |-> "none", cancel |-> FALSE, quiet |-> FALSE, policy |-> "forbid",
          key |-> FALSE, still |-> FALSE, error |-> "none"]

Stage == {"plan", "begin", "window", "capture", "captured", "assembling", "assemble",
          "uploading", "upload", "publish"}
Live == Stage \cup {"cleanup", "failing", "cancelling"}

(* left: windows to come; still, clip: what earlier windows became. *)
RunState == [pc : Live \cup {"idle", "claim"}, export : Export \cup {NoExport},
             left : 0..Windows, still : BOOLEAN, clip : BOOLEAN]
IdleRun == [pc |-> "idle", export |-> NoExport, left |-> 0, still |-> FALSE, clip |-> FALSE]

Init ==
    /\ row = [e \in Export |-> NoRow]
    /\ request = [e \in Export |-> "none"]
    /\ deliveries = [e \in Export |-> 0]
    /\ run = [r \in Run |-> IdleRun]
    /\ clips = [e \in Export |-> FALSE]
    /\ master = [e \in Export |-> "none"]
    /\ stalled = FALSE /\ faults = 0

Fault == faults < MaxFaults /\ faults' = faults + 1

InFlight(e) == row[e].status \in EXPORT_IN_FLIGHT_STATUSES
WorksOn(r, e) == run[r].pc \in Live /\ run[r].export = e

GoTo(r, pc) == run' = [run EXCEPT ![r].pc = pc]
End(r) == run' = [run EXCEPT ![r] = IdleRun]

-----------------------------------------------------------------------------
(* POST /export: a row, then a durable send, then the failure of the send.   *)

(* The partial unique index admits one row in flight; whoever meets it joins *)
(* it.  Stills in the plan itself need the consent that allows posters.      *)
Insert(e, policy, still) ==
    /\ row[e].status = "none" /\ \A d \in Export : ~InFlight(d)
    /\ still => policy = "allow_poster"
    /\ row' = [row EXCEPT ![e] = [NoRow EXCEPT !.status = "queued", !.policy = policy,
                                               !.still = still]]
    /\ request' = [request EXCEPT ![e] = "sending"]
    /\ UNCHANGED <<deliveries, run, clips, master, stalled, faults>>

(* enqueueProjectExport: the send may throw although the job was stored. *)
Send(e, stored, thrown) ==
    /\ request[e] = "sending"
    /\ IF stored /\ ~thrown THEN UNCHANGED faults ELSE thrown /\ Fault
    /\ deliveries' = [deliveries EXCEPT ![e] = IF stored THEN MaxTries ELSE 0]
    /\ request' = [request EXCEPT ![e] = IF thrown THEN "refusing" ELSE "answered"]
    /\ UNCHANGED <<row, run, clips, master, stalled>>

(* The one terminal write by id alone; its own failure is swallowed. *)
Refuse(e) ==
    /\ request[e] = "refusing"
    /\ request' = [request EXCEPT ![e] = "answered"]
    /\ \/ /\ row' = [row EXCEPT ![e].status = "failed", ![e].error = "unavailable",
                                   ![e].quiet = FALSE]
          /\ UNCHANGED faults
       \/ Fault /\ UNCHANGED row
    /\ UNCHANGED <<deliveries, run, clips, master, stalled>>

RequestDies(e) ==
    /\ request[e] \in {"sending", "refusing"}
    /\ Fault
    /\ request' = [request EXCEPT ![e] = "answered"]
    /\ UNCHANGED <<row, deliveries, run, clips, master, stalled>>

(* POST /cancel: a flag on a row in flight.  Pressed again it only refreshes  *)
(* updated_at; somebody who presses it for ever is left out.                  *)
Cancel(e) ==
    /\ InFlight(e) /\ ~row[e].cancel
    /\ row' = [row EXCEPT ![e].cancel = TRUE, ![e].quiet = FALSE]
    /\ UNCHANGED <<request, deliveries, run, clips, master, stalled, faults>>

-----------------------------------------------------------------------------
(* The lease. *)

MayClaim_Fresh(e) == InFlight(e)
MayClaim(e) == row[e].status = "queued" \/ (InFlight(e) /\ row[e].quiet)

Deliver(r, e) ==
    /\ run[r].pc = "idle" /\ deliveries[e] > 0
    /\ deliveries' = [deliveries EXCEPT ![e] = deliveries[e] - 1]
    /\ run' = IF row[e].status \in Terminal THEN run
              ELSE [run EXCEPT ![r] = [IdleRun EXCEPT !.pc = "claim", !.export = e]]
    /\ UNCHANGED <<row, request, clips, master, stalled, faults>>

Claim(r, e) ==
    /\ run[r].pc = "claim" /\ run[r].export = e
    /\ IF MayClaim(e)
       THEN /\ row' = [row EXCEPT ![e].status = "planning", ![e].quiet = FALSE]
            /\ run' = [run EXCEPT ![r].pc = "plan", ![r].left = Windows,
                                  ![r].still = row[e].still]
       ELSE End(r) /\ UNCHANGED row
    /\ UNCHANGED <<request, deliveries, clips, master, stalled, faults>>

(* The heartbeat, and the progress writes: by id alone. *)
Beat(r, e) ==
    /\ WorksOn(r, e) /\ row[e].quiet
    /\ row' = [row EXCEPT ![e].quiet = FALSE]
    /\ UNCHANGED <<request, deliveries, run, clips, master, stalled, faults>>

(* EXPORT_STALE_AFTER_MS without a write: nobody has claimed the row yet, its *)
(* run is gone, or a live run was held up for as long.                       *)
GoQuiet(e) ==
    /\ InFlight(e) /\ ~row[e].quiet
    /\ row' = [row EXCEPT ![e].quiet = TRUE]
    /\ IF \E r \in Run : WorksOn(r, e) THEN Fault /\ stalled' = TRUE
       ELSE UNCHANGED <<stalled, faults>>
    /\ UNCHANGED <<request, deliveries, run, clips, master>>

Abandoned_Started(e) == InFlight(e) /\ row[e].status # "queued" /\ row[e].quiet

(* sweepAbandonedExports on its timer, liveExportFor inside a request. *)
Abandoned(e) == InFlight(e) /\ row[e].quiet

Reap(e) ==
    /\ Abandoned(e)
    /\ row' = [row EXCEPT ![e].status = "failed", ![e].error = "abandoned",
                                ![e].quiet = FALSE]
    /\ UNCHANGED <<request, deliveries, run, clips, master, stalled, faults>>

-----------------------------------------------------------------------------
(* The phases of run().  A write whose fence fails changes nothing, and the  *)
(* run goes on.                                                              *)

FencedUpdate(e, status) ==
    row' = IF InFlight(e) THEN [row EXCEPT ![e].status = status, ![e].quiet = FALSE] ELSE row

(* throwIfCancelRequested. *)
UnlessCancelled(r, e, next) == GoTo(r, IF row[e].cancel THEN "cancelling" ELSE next)

Plan(r, e) ==
    /\ run[r].pc = "plan"
    /\ FencedUpdate(e, row[e].status) /\ UnlessCancelled(r, e, "begin")
    /\ UNCHANGED <<request, deliveries, clips, master, stalled, faults>>

BeginCapturing(r, e) ==
    /\ run[r].pc = "begin"
    /\ FencedUpdate(e, "capturing") /\ GoTo(r, "window")
    /\ UNCHANGED <<request, deliveries, clips, master, stalled, faults>>

(* A window that became a poster still. *)
Still(r) ==
    run' = [run EXCEPT ![r].pc = "window", ![r].still = TRUE, ![r].left = run[r].left - 1]

(* What strict exports refuse and consented ones accept. *)
StillIfAllowed(r, e) == IF row[e].policy = "forbid" THEN GoTo(r, "failing") ELSE Still(r)

Window(r, e) ==
    /\ run[r].pc = "window"
    /\ IF run[r].left = 0 THEN GoTo(r, "captured")
       ELSE UnlessCancelled(r, e, "capture") \/ (~row[e].cancel /\ StillIfAllowed(r, e))
    /\ UNCHANGED <<row, request, deliveries, clips, master, stalled, faults>>

CaptureThrows(r, e) ==
    /\ run[r].pc = "capture"
    /\ IF row[e].cancel THEN GoTo(r, "cancelling") ELSE StillIfAllowed(r, e)
    /\ UNCHANGED <<row, request, deliveries, clips, master, stalled, faults>>

(* The backend answers gate = failed, or no clip. *)
CaptureRejected(r, e) ==
    /\ run[r].pc = "capture" /\ Still(r)
    /\ UNCHANGED <<row, request, deliveries, clips, master, stalled, faults>>

CaptureClip(r, e) ==
    /\ run[r].pc = "capture"
    /\ clips' = [clips EXCEPT ![e] = TRUE]
    /\ run' = [run EXCEPT ![r].pc = "window", ![r].clip = TRUE, ![r].left = run[r].left - 1]
    /\ UNCHANGED <<row, request, deliveries, master, stalled, faults>>

Captured(r, e) ==
    /\ run[r].pc = "captured"
    /\ FencedUpdate(e, row[e].status) /\ UnlessCancelled(r, e, "assembling")
    /\ UNCHANGED <<request, deliveries, clips, master, stalled, faults>>

BeginAssembling(r, e) ==
    /\ run[r].pc = "assembling"
    /\ FencedUpdate(e, "assembling") /\ GoTo(r, "assemble")
    /\ UNCHANGED <<request, deliveries, clips, master, stalled, faults>>

(* The clips are read back from storage; an abort is a cancellation. *)
Assemble(r, e) ==
    /\ run[r].pc = "assemble" /\ (run[r].clip => clips[e])
    /\ UnlessCancelled(r, e, "uploading")
    /\ UNCHANGED <<row, request, deliveries, clips, master, stalled, faults>>

BeginUploading(r, e) ==
    /\ run[r].pc = "uploading"
    /\ FencedUpdate(e, "uploading") /\ GoTo(r, "upload")
    /\ UNCHANGED <<request, deliveries, clips, master, stalled, faults>>

Upload_SetsKey(r, e) ==
    /\ run[r].pc = "upload"
    /\ master' = [master EXCEPT ![e] = IF run[r].still THEN "stills" ELSE "live"]
    /\ row' = [row EXCEPT ![e].key = TRUE]
    /\ GoTo(r, "publish")
    /\ UNCHANGED <<request, deliveries, clips, stalled, faults>>

Upload(r, e) ==
    /\ run[r].pc = "upload"
    /\ master' = [master EXCEPT ![e] = IF run[r].still THEN "stills" ELSE "live"]
    /\ GoTo(r, "publish")
    /\ UNCHANGED <<row, request, deliveries, clips, stalled, faults>>

Ready(r, e) ==
    [row EXCEPT ![e].status = "ready", ![e].key = TRUE, ![e].still = run[r].still,
                ![e].quiet = FALSE]

Publish_IgnoresCancel(r, e) ==
    /\ run[r].pc = "publish"
    /\ IF InFlight(e)
       THEN /\ row' = Ready(r, e)
            /\ GoTo(r, "cleanup")
       ELSE End(r) /\ UNCHANGED row
    /\ UNCHANGED <<request, deliveries, clips, master, stalled, faults>>

Publish_FullByDefault(r, e) ==
    /\ run[r].pc = "publish"
    /\ IF InFlight(e) /\ ~row[e].cancel
       THEN row' = [Ready(r, e) EXCEPT ![e].still = row[e].still] /\ GoTo(r, "cleanup")
       ELSE End(r) /\ UNCHANGED row
    /\ UNCHANGED <<request, deliveries, clips, master, stalled, faults>>

(* The terminal write: in flight, and nobody asked to stop.  The answer to   *)
(* the statement may be lost.                                                *)
Publish(r, e) ==
    /\ run[r].pc = "publish"
    /\ IF InFlight(e) /\ ~row[e].cancel
       THEN /\ row' = Ready(r, e)
            /\ \E next \in {"cleanup", "failing"} : GoTo(r, next)
       ELSE /\ IF row[e].cancel THEN GoTo(r, "cancelling") ELSE End(r)
            /\ UNCHANGED row
    /\ UNCHANGED <<request, deliveries, clips, master, stalled, faults>>

(* deleteWithPrefixFallback of the export's sections/. *)
Cleanup(r, e) ==
    /\ run[r].pc = "cleanup"
    /\ clips' = [clips EXCEPT ![e] = FALSE]
    /\ End(r)
    /\ UNCHANGED <<row, request, deliveries, master, stalled, faults>>

(* A refusal or an error of any phase. *)
Throw(r, e) ==
    /\ run[r].pc \in Stage
    /\ GoTo(r, "failing")
    /\ UNCHANGED <<row, request, deliveries, clips, master, stalled, faults>>

Failed(e) == [row EXCEPT ![e].status = "failed", ![e].error = "run", ![e].quiet = FALSE]

(* The CASE of the statement reads the flag as it writes the status.  The    *)
(* statement may fail: that is logged.                                       *)
RecordFailure(r, e) ==
    /\ run[r].pc \in {"failing", "cancelling"}
    /\ \/ /\ row' = IF ~InFlight(e) THEN row
                    ELSE IF run[r].pc = "cancelling" \/ row[e].cancel
                         THEN [row EXCEPT ![e].status = "cancelled", ![e].quiet = FALSE]
                         ELSE Failed(e)
          /\ UNCHANGED faults
       \/ Fault /\ UNCHANGED row
    /\ End(r)
    /\ UNCHANGED <<request, deliveries, clips, master, stalled>>

Die(r) ==
    /\ run[r].pc # "idle"
    /\ Fault /\ End(r)
    /\ UNCHANGED <<row, request, deliveries, clips, master, stalled>>

-----------------------------------------------------------------------------
Step(r, e) ==
    \/ Claim(r, e) \/ Beat(r, e) \/ Plan(r, e) \/ BeginCapturing(r, e) \/ Window(r, e)
    \/ CaptureThrows(r, e) \/ CaptureRejected(r, e) \/ CaptureClip(r, e) \/ Captured(r, e)
    \/ BeginAssembling(r, e) \/ Assemble(r, e) \/ BeginUploading(r, e) \/ Upload(r, e)
    \/ Publish(r, e) \/ Cleanup(r, e) \/ Throw(r, e) \/ RecordFailure(r, e)

RunStep(r) == \E e \in Export : run[r].export = e /\ Step(r, e)

Next ==
    \/ \E e \in Export, policy \in {"forbid", "allow_poster"}, still \in BOOLEAN :
           Insert(e, policy, still)
    \/ \E e \in Export, stored, thrown \in BOOLEAN : Send(e, stored, thrown)
    \/ \E e \in Export : Refuse(e) \/ RequestDies(e) \/ Cancel(e) \/ GoQuiet(e) \/ Reap(e)
    \/ \E r \in Run, e \in Export : Deliver(r, e)
    \/ \E r \in Run : RunStep(r) \/ Die(r)

Spec == Init /\ [][Next]_vars

(* The reaper runs every minute, a run that does not die goes on, and time   *)
(* passes for a row nobody touches.  No delivery is promised.                *)
Fairness ==
    /\ \A e \in Export : WF_vars(Reap(e)) /\ WF_vars(GoQuiet(e) /\ UNCHANGED stalled)
    /\ \A r \in Run : WF_vars(RunStep(r))

FairSpec == Spec /\ Fairness

-----------------------------------------------------------------------------
(* Every variable has its type, and output_key is set by the write that      *)
(* publishes and by no other.                                                *)
TypeOK ==
    /\ row \in [Export -> Row]
    /\ \A e \in Export : row[e].key => row[e].status = "ready" \/ row[e].error = "unavailable"
    /\ request \in [Export -> {"none", "sending", "refusing", "answered"}]
    /\ deliveries \in [Export -> 0..MaxTries]
    /\ run \in [Run -> RunState]
    /\ clips \in [Export -> BOOLEAN]
    /\ master \in [Export -> {"none", "live", "stills"}]
    /\ stalled \in BOOLEAN /\ faults \in 0..MaxFaults

(* At most one export of the project is in flight: no fenced write of a run  *)
(* that was reaped brings its row back beside the one that took its place.   *)
OneInFlight == \A d, e \in Export : InFlight(d) /\ InFlight(e) => d = e

(* Unless a live run misses five minutes of beats, an export is encoded by   *)
(* one run at a time, whatever is delivered again.                           *)
OneEncode == ~stalled => \A e \in Export, r, s \in Run : WorksOn(r, e) /\ WorksOn(s, e) => r = s

(* A published export has a master, and unless a live run stalled the row    *)
(* says of it what it is: full, or with windows replaced by stills.          *)
ReadyIsTrue ==
    \A e \in Export : row[e].status = "ready"
        => /\ master[e] # "none"
           /\ ~stalled => (row[e].still <=> master[e] = "stills")

(* An export the user asked to stop is never published afterwards, and no    *)
(* run records it as a defect.                                               *)
CancelIsKept ==
    \A e \in Export : row[e].cancel
        => row[e].status # "ready" /\ (row[e].status = "failed" => row[e].error # "run")

(* What ended stays as it ended, except by the request that cannot tell a    *)
(* lost answer from a lost job.                                              *)
TerminalIsFinal ==
    [][\A e \in Export : row[e].status \in Terminal
           => row'[e] = row[e] \/ Refuse(e)]_vars

(* An export never blocks its project for ever, whoever dies.                *)
ExportEnds == \A e \in Export : InFlight(e) ~> ~InFlight(e)

(* "a capture failure fails the export rather than quietly shipping a        *)
(* slideshow": what was not consented to is not published.                   *)
StrictNeverShipsAStill ==
    \A e \in Export : row[e].status = "ready" /\ row[e].policy = "forbid" => ~row[e].still

(* "The export stopped before it finished (the server restarted)": what is   *)
(* declared abandoned is not a job that still waits for its first run.       *)
AbandonedHadStarted ==
    \A e \in Export : row[e].error = "abandoned" => deliveries[e] < MaxTries
=============================================================================
