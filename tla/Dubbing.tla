------------------------------ MODULE Dubbing ------------------------------
(***************************************************************************)
(* The dubbing of videos: the rows of video_dubs, the deliveries of the    *)
(* dub queue, the runs of DubbingService, the pool of slots that bounds    *)
(* what the workspace asks of the vendor at once, and the projects bought  *)
(* from the vendor, who bills each and takes no idempotency key.           *)
(*                                                                         *)
(* A slot is held in the name of the dub, not of the run.  The claim of a  *)
(* row is not renewed, and no write that follows it asks whose it is.      *)
(***************************************************************************)
EXTENDS Naturals, Sequences

CONSTANTS
    Dub,          \* rows of video_dubs: a video in a language, once asked for
    Run,          \* deliveries that may be under way at once
    Slot,         \* rows of dubbing_slots
    MaxMedia,     \* bound: media uploaded onto the video of a dub
    MaxEvents     \* bound: what goes wrong or is done beside a first request

ASSUME BoundsAssumption == MaxMedia \in Nat \ {0} /\ MaxEvents \in Nat

NoDub == "no dub"
NoSlot == "no slot"
ASSUME NamesAssumption == NoDub \notin Dub /\ NoSlot \notin Slot

VARIABLES
    row,        \* the rows; quiet: past the window of the status since updated_at
    media,      \* the media of each dub's video
    waiting,    \* the deliveries of a dub that wait in the queue
    run,        \* the runs' local state
    slot,       \* the pool; live: before expires_at
    bought,     \* the vendor's projects with the reference of a dub, by their media
    trouble,    \* what happened to the runs of a dub, see below
    events

vars == <<row, media, waiting, run, slot, bought, trouble, events>>

Media == 1..MaxMedia

(* blind: the vendor's list was not to be had; late: a live run outlasted its *)
(* claim; force: a forced run claimed beside a live one; refuse: a delivery   *)
(* wrote "failed" under a live run; lapse: a live run outlasted its lease.    *)
Trouble == {"blind", "late", "force", "refuse", "lapse"}

AtVendor == {"resolve", "create", "record", "poll"}
Working  == AtVendor \cup {"publish", "failing"}
Holding  == Working \cup {"claim", "release"}

Idle == [pc |-> "idle", dub |-> NoDub, force |-> FALSE, media |-> 1, project |-> 0,
         slot |-> NoSlot, again |-> FALSE]

(* stale: claimed_at is older than STALE_CLAIM_MS.  of: the media whose       *)
(* project was published.  project: el_project_id.                            *)
NewRow == [status |-> "none", quiet |-> FALSE, stale |-> FALSE, hash |-> 1, project |-> 0,
           of |-> 1]

Init ==
    /\ row = [d \in Dub |-> NewRow]
    /\ media = [d \in Dub |-> 1]
    /\ waiting = [d \in Dub |-> {}]
    /\ run = [r \in Run |-> Idle]
    /\ slot = [s \in Slot |-> [holder |-> NoDub, live |-> FALSE]]
    /\ bought = [d \in Dub |-> <<>>]
    /\ trouble = [d \in Dub |-> {}]
    /\ events = 0

Event == events < MaxEvents /\ events' = events + 1
Mark(d, k) == trouble' = [trouble EXCEPT ![d] = @ \cup {k}]

Exists(d) == row[d].status \notin {"none", "gone"}

(* An update by id: it finds nothing once the row is deleted. *)
Write(d, new) == row' = [row EXCEPT ![d] = IF Exists(d) THEN new ELSE @]

GoTo(r, pc) == run' = [run EXCEPT ![r].pc = pc]
Worked(d) == \E r \in Run : run[r].dub = d /\ run[r].pc \in Working

(* shouldSkipDub. *)
Skip(d, force) ==
    /\ ~force /\ row[d].hash = media[d]
    /\ \/ row[d].status = "completed"
       \/ row[d].status \in {"processing", "failed"} /\ ~row[d].quiet

-----------------------------------------------------------------------------
(* The creator, and the queue. *)

(* The singleton key collapses a send into the delivery that waits, whatever *)
(* its payload; a send that fails is logged.                                 *)
Send(d, k) ==
    \/ waiting' = [waiting EXCEPT ![d] = IF @ = {} THEN {k} ELSE @]
       /\ UNCHANGED events
    \/ UNCHANGED waiting /\ Event

(* requestProjectDub for a row there is not yet. *)
Request(d) ==
    /\ row[d].status = "none"
    /\ row' = [row EXCEPT ![d].status = "queued", ![d].hash = media[d]]
    /\ Send(d, "plain")
    /\ UNCHANGED <<media, run, slot, bought, trouble>>

(* ... and for one in progress. *)
InProgress(d) == row[d].status \in {"queued", "processing"}

AskAgain(d) ==
    /\ InProgress(d) /\ ~Skip(d, FALSE)
    /\ Send(d, "plain")
    /\ UNCHANGED <<row, media, run, slot, bought, trouble>>

(* ... for one that ended, or with force.  Bound: each is an event. *)
Regenerate(d, k) ==
    /\ Exists(d) /\ ~Skip(d, k = "force") /\ (k = "force" \/ ~InProgress(d))
    /\ waiting[d] = {} /\ waiting' = [waiting EXCEPT ![d] = {k}]
    /\ Event
    /\ UNCHANGED <<row, media, run, slot, bought, trouble>>

(* finalizeUpload onto the same video: no row of video_dubs is touched. *)
Replace(d) ==
    /\ media[d] < MaxMedia /\ Event
    /\ media' = [media EXCEPT ![d] = @ + 1]
    /\ UNCHANGED <<row, waiting, run, slot, bought, trouble>>

(* deleteProjectDub, under a live run as well. *)
Delete(d) ==
    /\ Exists(d) /\ Event
    /\ row' = [row EXCEPT ![d] = [NewRow EXCEPT !.status = "gone"]]
    /\ UNCHANGED <<media, waiting, run, slot, bought, trouble>>

(* The delivery of a run that is still alive expires and is repeated. *)
Redeliver(r) ==
    /\ run[r].pc \in Working /\ Event
    /\ waiting' = [waiting EXCEPT ![run[r].dub] = @ \cup {"plain"}]
    /\ UNCHANGED <<row, media, run, slot, bought, trouble>>

-----------------------------------------------------------------------------
(* One run of DubbingService.run, up to its claim. *)

(* The row and the video are read; the handles of the row are those of now.  *)
Start(r, d) ==
    /\ run[r].pc = "idle"
    /\ \E k \in waiting[d] :
         /\ waiting' = [waiting EXCEPT ![d] = @ \ {k}]
         /\ run' = IF ~Exists(d) \/ Skip(d, k = "force") THEN run
                   ELSE [run EXCEPT ![r] = [pc |-> "slot", dub |-> d, force |-> k = "force",
                           media |-> media[d], project |-> row[d].project,
                           slot |-> NoSlot, again |-> FALSE]]
    /\ UNCHANGED <<row, media, slot, bought, trouble, events>>

(* The spend ceiling is asked before the row's status is looked at: the      *)
(* delivery fails whatever row it finds.  Silent media fail it as well.      *)
Refuse(d) ==
    /\ Event /\ Exists(d)
    /\ \E k \in waiting[d] : waiting' = [waiting EXCEPT ![d] = @ \ {k}]
    /\ Write(d, [row[d] EXCEPT !.status = "failed", !.quiet = FALSE])
    /\ IF Worked(d) THEN Mark(d, "refuse") ELSE UNCHANGED trouble
    /\ UNCHANGED <<media, run, slot, bought>>

Payload(r) == IF run[r].force THEN "force" ELSE "plain"
Retry(r) == waiting' = [waiting EXCEPT ![run[r].dub] = @ \cup {Payload(r)}]

Free(s) == slot[s].holder = NoDub \/ ~slot[s].live

(* acquireDubbingSlot; with no slot free the delivery fails, to be repeated  *)
(* until its retries are used up.                                            *)
Acquire(r) ==
    /\ run[r].pc = "slot"
    /\ \/ \E s \in Slot :
            /\ Free(s)
            /\ slot' = [slot EXCEPT ![s] = [holder |-> run[r].dub, live |-> TRUE]]
            /\ run' = [run EXCEPT ![r].pc = "claim", ![r].slot = s]
            /\ UNCHANGED <<waiting, events>>
       \/ /\ \A s \in Slot : ~Free(s)
          /\ run' = [run EXCEPT ![r] = Idle]
          /\ \/ Retry(r) /\ UNCHANGED events
             \/ UNCHANGED waiting /\ Event
          /\ UNCHANGED slot
    /\ UNCHANGED <<row, media, bought, trouble>>

Claimable_UnlessProcessing(r) ==
    run[r].force \/ row[run[r].dub].status # "processing"

Claimable(r) ==
    \/ run[r].force
    \/ row[run[r].dub].status # "processing"
    \/ row[run[r].dub].stale

Claim(r) ==
    LET d == run[r].dub IN
    /\ run[r].pc = "claim"
    /\ IF Exists(d) /\ Claimable(r)
       THEN /\ row' = [row EXCEPT ![d].status = "processing", ![d].quiet = FALSE,
                                  ![d].stale = FALSE, ![d].hash = run[r].media]
            /\ GoTo(r, "resolve")
            /\ IF run[r].force /\ Worked(d) THEN Mark(d, "force") ELSE UNCHANGED trouble
       ELSE GoTo(r, "release") /\ UNCHANGED <<row, trouble>>
    /\ UNCHANGED <<media, waiting, slot, bought, events>>

-----------------------------------------------------------------------------
(* The vendor. *)

(* resolveVendorProject: the handle the row had, or else what the list has   *)
(* under the dub's reference.                                                *)
Resolve_ByHandle(r) ==
    /\ run[r].pc = "resolve"
    /\ GoTo(r, IF run[r].project # 0 THEN "poll" ELSE "create")
    /\ UNCHANGED <<row, media, waiting, slot, bought, trouble, events>>

Resolve(r) ==
    LET d == run[r].dub IN
    /\ run[r].pc = "resolve"
    /\ \/ run[r].project # 0 /\ GoTo(r, "poll") /\ UNCHANGED <<trouble, events>>
       \/ /\ run[r].project = 0
          /\ \E p \in DOMAIN bought[d] :
               run' = [run EXCEPT ![r].pc = "record", ![r].project = p]
          /\ UNCHANGED <<trouble, events>>
       \/ /\ run[r].project = 0 /\ bought[d] = <<>>
          /\ GoTo(r, "create") /\ UNCHANGED <<trouble, events>>
       \/ /\ run[r].project = 0 /\ bought[d] # <<>>
          /\ GoTo(r, "create") /\ Mark(d, "blind") /\ Event
    /\ UNCHANGED <<row, media, waiting, slot, bought>>

(* The billable call; its answer may be lost. *)
Create_Unrecorded(r) ==
    LET d == run[r].dub IN
    /\ run[r].pc = "create"
    /\ bought' = [bought EXCEPT ![d] = Append(@, run[r].media)]
    /\ run' = [run EXCEPT ![r].pc = "poll", ![r].project = Len(bought'[d])]
    /\ UNCHANGED <<row, media, waiting, slot, trouble, events>>

Create(r) ==
    LET d == run[r].dub IN
    /\ run[r].pc = "create"
    /\ bought' = [bought EXCEPT ![d] = Append(@, run[r].media)]
    /\ \/ /\ run' = [run EXCEPT ![r].pc = "record", ![r].project = Len(bought[d]) + 1]
          /\ UNCHANGED events
       \/ GoTo(r, "failing") /\ Event
    /\ UNCHANGED <<row, media, waiting, slot, trouble>>

(* onProjectCreated. *)
Record(r) ==
    /\ run[r].pc = "record"
    /\ Write(run[r].dub, [row[run[r].dub] EXCEPT !.project = run[r].project, !.quiet = FALSE])
    /\ GoTo(r, "poll")
    /\ UNCHANGED <<media, waiting, slot, bought, trouble, events>>

(* Both polls: of the project, then of its language. *)
PollDone(r) ==
    /\ run[r].pc = "poll" /\ GoTo(r, "publish")
    /\ UNCHANGED <<row, media, waiting, slot, bought, trouble, events>>

HeldBySelf(r) == slot[run[r].slot].holder = run[r].dub

(* renewDubbingSlot, between two polls. *)
Heartbeat(r) ==
    /\ run[r].pc = "poll" /\ HeldBySelf(r)
    /\ slot' = [slot EXCEPT ![run[r].slot].live = TRUE]
    /\ UNCHANGED <<row, media, waiting, run, bought, trouble, events>>

(* The lease is lost: DubSlotUnavailable hands the row back (a failure of    *)
(* that write is swallowed) and is thrown again (which no retry may follow). *)
HandBack(r) ==
    LET d == run[r].dub
        queued == [row[d] EXCEPT !.status = "queued", !.quiet = FALSE, !.stale = FALSE] IN
    /\ run[r].pc = "poll" /\ ~HeldBySelf(r)
    /\ \E again \in BOOLEAN :
         /\ run' = [run EXCEPT ![r].pc = "release", ![r].again = again]
         /\ \/ again /\ Write(d, queued) /\ UNCHANGED events
            \/ ~again /\ Write(d, queued) /\ Event
            \/ again /\ UNCHANGED row /\ Event
    /\ UNCHANGED <<media, waiting, slot, bought, trouble>>

(* setStage, as each step begins. *)
Stage(r) ==
    /\ run[r].pc \in {"poll", "publish"}
    /\ Exists(run[r].dub) /\ row' = [row EXCEPT ![run[r].dub].quiet = FALSE]
    /\ UNCHANGED <<media, waiting, run, slot, bought, trouble, events>>

-----------------------------------------------------------------------------
(* The end of a run. *)

(* Download, mux and packaging under keys with the dub's id, and the last    *)
(* write of the row.                                                         *)
Publish(r) ==
    LET d == run[r].dub IN
    /\ run[r].pc = "publish"
    /\ Write(d, [row[d] EXCEPT !.status = "completed", !.quiet = FALSE, !.hash = run[r].media,
                               !.of = bought[d][run[r].project]])
    /\ GoTo(r, "release")
    /\ UNCHANGED <<media, waiting, slot, bought, trouble, events>>

Throw(r) ==
    /\ run[r].pc \in Working \ {"failing"} /\ GoTo(r, "failing")
    /\ UNCHANGED <<row, media, waiting, slot, bought, trouble, events>>

(* The catch: what is retryable is thrown again (an event, for the number of *)
(* retries is bounded).  A failure of this write is swallowed.               *)
Fail(r) ==
    LET d == run[r].dub IN
    /\ run[r].pc = "failing"
    /\ \/ /\ Write(d, [row[d] EXCEPT !.status = "failed", !.quiet = FALSE])
          /\ \/ GoTo(r, "release") /\ UNCHANGED events
             \/ run' = [run EXCEPT ![r].pc = "release", ![r].again = TRUE] /\ Event
       \/ GoTo(r, "release") /\ UNCHANGED row /\ Event
    /\ UNCHANGED <<media, waiting, slot, bought, trouble>>

(* releaseDubbingSlot, which asks whether the slot still bears this dub's    *)
(* name, in the finally; if it fails the lease runs out by itself.           *)
Release_Unasked(r) ==
    /\ run[r].pc = "release"
    /\ slot' = [slot EXCEPT ![run[r].slot] = [holder |-> NoDub, live |-> FALSE]]
    /\ run' = [run EXCEPT ![r] = Idle]
    /\ IF run[r].again THEN Retry(r) ELSE UNCHANGED waiting
    /\ UNCHANGED <<row, media, bought, trouble, events>>

Release(r) ==
    /\ run[r].pc = "release"
    /\ \/ /\ slot' = IF HeldBySelf(r)
                     THEN [slot EXCEPT ![run[r].slot] = [holder |-> NoDub, live |-> FALSE]]
                     ELSE slot
          /\ UNCHANGED events
       \/ UNCHANGED slot /\ Event
    /\ run' = [run EXCEPT ![r] = Idle]
    /\ IF run[r].again THEN Retry(r) ELSE UNCHANGED waiting
    /\ UNCHANGED <<row, media, bought, trouble>>

(* The process dies; the queue repeats the delivery, or has no retry left.   *)
Die(r) ==
    /\ run[r].pc # "idle" /\ Event
    /\ run' = [run EXCEPT ![r] = Idle]
    /\ Retry(r) \/ UNCHANGED waiting
    /\ UNCHANGED <<row, media, slot, bought, trouble>>

-----------------------------------------------------------------------------
(* Time. *)

(* STALE_CLAIM_MS or FAILED_RETRY_MS after updated_at, which is never before *)
(* claimed_at.                                                               *)
GoQuiet(d) ==
    /\ row[d].status \in {"processing", "failed"} /\ ~row[d].quiet
    /\ row' = [row EXCEPT ![d].quiet = TRUE, ![d].stale = @ \/ row[d].status = "processing"]
    /\ IF row[d].status = "processing" /\ Worked(d)
       THEN Event /\ Mark(d, "late")
       ELSE UNCHANGED <<trouble, events>>
    /\ UNCHANGED <<media, waiting, run, slot, bought>>

(* STALE_CLAIM_MS after claimed_at, whatever was written since. *)
GoStale(d) ==
    /\ row[d].status = "processing" /\ ~row[d].stale /\ Worked(d)
    /\ row' = [row EXCEPT ![d].stale = TRUE]
    /\ Event /\ Mark(d, "late")
    /\ UNCHANGED <<media, waiting, run, slot, bought>>

(* SLOT_LEASE_MS after the last renewal. *)
Holders(s) == {r \in Run : run[r].pc \in Holding /\ run[r].slot = s}

Expire(s) ==
    /\ slot[s].live
    /\ slot' = [slot EXCEPT ![s].live = FALSE]
    /\ IF \E r \in Holders(s) : run[r].dub = slot[s].holder
       THEN Event /\ Mark(slot[s].holder, "lapse")
       ELSE UNCHANGED <<trouble, events>>
    /\ UNCHANGED <<row, media, waiting, run, bought>>

-----------------------------------------------------------------------------
RunStep(r) ==
    \/ Acquire(r) \/ Claim(r) \/ Resolve(r) \/ Create(r) \/ Record(r)
    \/ PollDone(r) \/ HandBack(r) \/ Publish(r) \/ Fail(r) \/ Release(r)

Next ==
    \/ \E d \in Dub :
         \/ Request(d) \/ AskAgain(d) \/ Regenerate(d, "plain") \/ Regenerate(d, "force")
         \/ Replace(d) \/ Delete(d) \/ Refuse(d) \/ GoQuiet(d) \/ GoStale(d)
    \/ \E r \in Run :
         \/ RunStep(r) \/ Heartbeat(r) \/ Stage(r) \/ Throw(r) \/ Die(r) \/ Redeliver(r)
         \/ \E d \in Dub : Start(r, d)
    \/ \E s \in Slot : Expire(s)

Spec == Init /\ [][Next]_vars

(* A run that does not die goes on (its polls have a deadline), the queue    *)
(* delivers in the order of its sends, windows and leases pass, and the      *)
(* creator whose dub does not come asks again: nothing else of the program   *)
(* looks for rows that were left behind.                                     *)
Fairness ==
    /\ \A r \in Run : WF_vars(RunStep(r))
    /\ \A d \in Dub : /\ SF_vars(\E r \in Run : Start(r, d))
                      /\ WF_vars(GoQuiet(d)) /\ WF_vars(AskAgain(d))
    /\ \A s \in Slot : WF_vars(Expire(s))

FairSpec == Spec /\ Fairness

-----------------------------------------------------------------------------
RowType == [status : {"none", "queued", "processing", "completed", "failed", "gone"},
            quiet : BOOLEAN, stale : BOOLEAN, hash : Media, project : Nat, of : Media]

RunType == [pc : Holding \cup {"idle", "slot"}, dub : Dub \cup {NoDub}, force : BOOLEAN,
            media : Media, project : Nat, slot : Slot \cup {NoSlot}, again : BOOLEAN]

(* Every variable has its type, every handle names a project that was        *)
(* bought, and a dub that is completed knows the project it came from.       *)
TypeOK ==
    /\ row \in [Dub -> RowType] /\ media \in [Dub -> Media]
    /\ waiting \in [Dub -> SUBSET {"plain", "force"}]
    /\ run \in [Run -> RunType]
    /\ slot \in [Slot -> [holder : Dub \cup {NoDub}, live : BOOLEAN]]
    /\ bought \in [Dub -> Seq(Media)]
    /\ trouble \in [Dub -> SUBSET Trouble] /\ events \in 0..MaxEvents
    /\ \A d \in Dub : /\ row[d].project \in {0} \cup DOMAIN bought[d]
                      /\ row[d].status = "completed" => row[d].project # 0
    /\ \A r \in Run : run[r].dub # NoDub =>
                          run[r].project \in {0} \cup DOMAIN bought[run[r].dub]

(* One invoice for a dub, whatever dies, fails, is lost, deferred, repeated  *)
(* or deleted: unless the vendor's list fails, or the claim does not hold    *)
(* (a run of two hours, a forced run beside it, a refusal under it).         *)
OneInvoice ==
    \A d \in Dub : trouble[d] \cap {"blind", "late", "force", "refuse"} = {}
                       => Len(bought[d]) <= 1

(* A run whose dub never outlasted a lease has its slot for itself: no run   *)
(* that did, of another dub, takes, keeps or gives back what is not its own. *)
SlotsAreExclusive ==
    \A r \in Run : run[r].pc \in Holding /\ "lapse" \notin trouble[run[r].dub] =>
        /\ slot[run[r].slot] = [holder |-> run[r].dub, live |-> TRUE]
        /\ \A q \in Holders(run[r].slot) \ {r} : "lapse" \in trouble[run[q].dub]

(* No dub stays in progress for ever, whoever dies and whatever is lost, as  *)
(* long as its creator asks again: but for one that once outlasted a lease,  *)
(* for two deliveries of it may then free each other's slot without end.     *)
EveryDubEnds ==
    \A d \in Dub : InProgress(d) ~> ~InProgress(d) \/ "lapse" \in trouble[d]

(* "The source changed, so whatever exists describes a video that is no      *)
(* longer there": a completed dub speaks the media its hash names.           *)
DubIsOfItsSource ==
    \A d \in Dub : row[d].status = "completed" => row[d].of = row[d].hash
=============================================================================
