# TLA+ models of FlowVid (podcast-saas)

This directory holds models of the parts of FlowVid whose correctness depends on
what several processes do to shared rows and stored bytes: TLA+ modules
translated from the TypeScript and SQL, TLC configurations that check small
instances, and TLAPS proofs that hold for every value of the constants.

Paths are relative to `src/podcast-saas/`; `backend/` stands for
`backend-api/src/` and `services/` for `backend-api/src/services/`.

- [1 The system](#1-the-system)
- [2 Plan](#2-plan)
- [3 Modules](#3-modules)
- [4 Runs](#4-runs)
- [5 Fairness](#5-fairness)
- [6 Proofs](#6-proofs)
- [7 What the models found](#7-what-the-models-found)
- [8 Not modelled](#8-not-modelled)

## 1 The system

FlowVid plays videos whose timeline has interactive simulations (HTML packages in
iframes), avatars, narration and branching. A Fastify back end (`backend-api`)
runs in several API processes over one Postgres and one object store (R2, or a
local disk). Long work is delivered by pg-boss (`backend/queue`), at least once;
where no queue is configured most jobs run inline. A Next.js client
(`client-web`) holds the editor and the player, `shared` the code both sides use,
`admin-web` a console, `ops` and `deploy` the release tooling.

The processes share nothing but rows and objects. Every await is a point at
which another process may run, and every process may stop at any await: that is
the granularity of all modules here.

### Components

| Component | State | Operations | What is hard | Correct when |
| --- | --- | --- | --- | --- |
| Immutable package revisions (`services/simulation/Revision*.ts`, `shared/src/sim/simRevision.ts`) | `sim_revisions` rows, the pointer `simulations.active_revision_id`, objects under `revisions/<n>/` | derive and publish, activate, roll back, record a canary verdict, collect, serve | compare-and-set activation, lost COMMIT answers, uploads that did not land, a collector beside rollbacks | pointer and status agree, what is live or may become live is whole, no publication is lost, the way back is kept |
| Media blobs (`services/storage/MediaBlobStore.ts`, `blobSweeper.ts`) | `media_blobs` rows, objects, references of media rows | claim, adopt, copy a reference, delete a row, sweep | bytes and row are two writes, in opposite order for upload and deletion; two sweeps | a reference has bytes, garbage goes, marks are withdrawn |
| Video generation (`backend/jobs/video.generate.ts`) | `video_generation_jobs` row, provider task, section | claim, beat, submit, poll, store, finalise, fail | redelivery beside a live run, paying twice, lost answers | one section, no second purchase on a re-drive, terminal is terminal, every job ends |
| Linear export (`services/export/ProjectExportService.ts`, `export.controller.ts`) | `project_exports` rows, `master.mp4`, `sections/` | request, claim, capture, assemble, upload, publish, cancel, reap | a fence without a run token, cancellation at any point, a reaper | one export per project, a ready row is true, stop means stop, the project is freed |
| Job queue (`backend/queue`) | pg-boss jobs, singleton keys | send, deliver, retry, drain | at-least-once delivery, inline fallback | consumers are idempotent |
| Project duplication (`services/project/ProjectDuplicationService.ts`) | `project_duplications` row, copied objects, new project | claim, copy, verify, retarget, commit, reap | a fence inside the commit, takeover | at most one project per request, failures leave none |
| HLS versions (`services/video`) | `hls_*` columns, run trees, `hls_retired_runs` | transcode, flip, retire, sweep, recover | two runs write by id, deletion after grace | the live tree is never collected |
| Dubbing (`services/dubbing`) | `video_dubs` rows, three slots, vendor ids | claim, take a slot, resume, publish | leases that expire under live work, paid vendor calls | at most three vendor jobs, one vendor project per dub |
| Simulation runtime (`client-web/lib/sim`, `shared/src/sim/*Machine.ts`) | document epoch, activation, acknowledgement, lease of the screen | mount, bootstrap, start, acknowledge, reveal, suspend, dispose | late and stale messages, navigation under the parent | an iframe is visible only for the intent it acknowledged |
| Transitions (`client-web/lib/sim/transitionCoordinator.ts`) | phase, evidence, audio | request, evidence, deadline, fade | evidence of an older handoff, no evidence at all | a deadline never reveals |
| Action plans, quality control (`shared/src/sim`) | schedule, budgets | plan, degrade, recover | time and order | plans run once, in order |
| Timeline placement (`shared/src/timeline`) | anchors, windows | place, ripple, review | arithmetic at boundaries | nothing authored is rewritten |
| Player and editor (`client-web/components/viewer`, `hooks`) | React state, media elements | play, seek, branch | effects and events | configuration stays fresh |
| Authoring, guidance, import (`SimulationService.ts`, `GuidanceService.ts`) | sections, bridge files | scan, generate, publish | model calls | publications go through revisions |
| Avatar sessions and budget (`services/avatar`, `usage/AvatarBudgetService.ts`) | weighted buckets, session leases | reserve, start, renew, stop | concurrent reservations | the ledger never passes its limit |
| Podcast studio (`services/podcast`) | episodes, renders, mixes | script, render, mix | paid jobs started twice | one active job per episode |
| Captions, crop, audio editions | claims on rows | recognise, track, synthesise | stale claims | as for dubbing |
| Storage adapters and maintenance | objects | put, copy, reconcile, delete | fallback, partial copies | nothing referenced is deleted |
| Courses, links, billing, accounts, ingestion, models, usage | a few rows each | transactions | idempotent webhooks | access and accounting |
| Release engine and ship conductor (`ops`) | state files | stages, resume | interruption | no stage with side effects repeats |

### How they interact

- A request inserts a row and sends a job; the row is the truth, the job only a
  wake-up. Runs claim the row by a conditional update, renew it by a heartbeat
  every 15 s and lose it after 5 minutes of silence. Video generation marks the
  owner by a token; export and duplication do not, and fence their writes on the
  status alone. That difference decides what each can promise.
- Publications of a simulation read the pointer, build a new immutable prefix and
  move the pointer in one transaction if it has not moved. Players resolve the
  pointer once, in their config, and keep URLs into that prefix.
- Uploads, the importer and the duplicator share blobs by content; deletions only
  drop references, and a sweep collects what nothing refers to.
- Exports capture revisions by key and generated videos enter the timeline as
  sections; neither reads back into the other's rows.

## 2 Plan

Done, in this order: **SimRevision** with its abstract specification
**PackageRegister** (the most elaborate protocol, and what viewers see),
**MediaBlob** (data loss), **VideoGenerate** (money), **ProjectExport** (what is
published in the user's name), **SimReveal** (what is uncovered on the screen),
**ProjectDuplication** with its abstract specification **CopyPromise**,
**HlsVersions** (what is played and what is deleted), **Dubbing** (money again, under
a shared pool), and proofs for all of them.

Next, most important behaviour first:

1. **Transitions**: the coordinator as a second module beside SimReveal.
2. **AvatarBudget** and the queue driver, of which the modules here only model what
   their jobs see.
3. **ManagedScope** and the captions, crop and transcript claims, which are
   variations of Dubbing.

## 3 Modules

An action is one awaited statement, transaction, storage or provider call of the
code. A definition named `X_Variant` beside `X` is the same code with a plausible
mistake; the properties are tested against it and it takes no part in the
specification.

### SimRevision, PackageRegister

`SimRevision` is one simulation. The columns of `sim_revisions` are functions of
the revision number (`status`, `activatedAt`, `verdict`; `hashed` is the manifest
hash), the columns of `simulations` are `counter`, `active` and `shown`, and
`stored` is the keys under each prefix. `edits` is history: the publications whose
change a package contains. Several publishers (`ReadPointer` to
`CommitActivation`, the pipeline of `deriveRevision`), callers of `rollback()`,
collectors (`gc()` on the sweep timer), canary runs and players interleave.

- `activateInTransaction` is one atomic `Activate`, because its rows are locked
  and its statements roll back together. The clock it read (`at`) is a step
  before, because that is outside the locks.
- An activation may commit and its answer be lost: then the failure path runs
  (`MarkFailed`), as the catch block does.
- An upload may resolve without an object. For files `ReadBack` is the only check;
  for `manifest.json` (`WriteManifest`), which goes up after it, there is none, and a
  publication whose base lacks one ends at `ReadBase`.
- `Ripen` lets revisions pass the minimum age of collection at any time, while they are
  still being written too: no run and no proof relies on a publication being faster than
  the day the code waits.
- The gate of `/sim-public` treats a key without a row as a path of the legacy
  package (`PassesGate`).

`PackageRegister` is what the scheme promises: one package is live at a time, it
changes by one step, an earlier one may be restored, an id that was given up never
comes back, and the live one is never given up. `SimRevision` implements it with
`live` the pointer, `kept` the retained revisions all of whose files are stored, `spent`
the ids of failed or collected rows.

Left out: manifest contents and packaging, `proof_pending` and `proof_passed`
(no caller enters them), the one-minute cache of serving facts, the timeline
sections that a publication also writes. `rollback()` and `recordCanary` have no
production caller at this commit; they are modelled from their code, as the
module's public interface.

### MediaBlob

One content: the unique index on `(sha256, byte_size)` keeps contents apart. `blob`
is its row, `objects` the keys that exist, `media` the row each client wrote. A
client is an upload, an import or a duplication (`Snapshot` copies another row's
reference). `Lookup … WriteRow` is `claimBlob` and its caller, `SweepReadsRefs …
SweepDeletesRow` is `sweepOrphanBlobs`. `Ripen` is the day of grace: a mark ripens
only once everything that was under way when it was set has ended (`young`).

Left out: hashing and the comparison of digests (the index's doing), the
local-disk fallback, objects that never got a row.

### VideoGenerate

One job. `row` is the row, with `quiet` for "no beat for five minutes" in place of
a clock, and `run` the runs. The token in `claimed_by` is the run that owns the
row. `FencedSet` is `fencedSet`: a write of a run that lost its claim changes
nothing and ends the run. `bought`, `buyers` and `published` are history: requests
the provider accepted, claims that led to one, sections inserted. `Finalise` is
the transaction that inserts the section and ends the job under the row's lock; its
answer may be lost. The user may delete the job or the published section.

### ProjectExport

The exports of one project, the requests that insert them, the runs and the
reaper. `quiet` is as above; runs have no token, so `FencedUpdate` only asks
whether the row is in flight, and a run whose fence failed goes on. Beats and
progress are by id alone (`Beat`). A window becomes a clip, or a still under the
policy; `master` is what the stored object shows, `still` what the row and the run
say of it. `Send` covers the four outcomes of a durable send, `Refuse` the
controller's own failure write.

Left out: the plan and consent tokens (the policy and stills of a plan are chosen
freely where the code admits them), containers, downloads, several workers per
run.

### SimReveal

One iframe: the record `c` is the parent's `SimRuntimeClient` with its transport
and the two reducers (`documentMachine.ts`, `activationMachine.ts`, as edge sets
whose missing edges refuse), `child` the runtime inside the document, `down` and
`up` the two directions of their private port. A callback of the parent is one
action, because JavaScript runs it to its end; each message, timer and move of
the owner (`useProjectPlayer`) is another. Operators such as `Release`, `PayDebt`
or `FailModern` are the methods of that name, as functions of the client's record.

An epoch is one offer of a port. A port is first-in first-out and dies with its
epoch, which is why messages are not lost singly; a whole document is replaced by
`Load`, at any time after `Reload`. Three bounds end every behaviour: `MaxMoves`,
`MaxFaults` and the breaker's `Threshold`.

The code has one handle, `prepareTimer`, for the bound of a deferred entry and for that
of a prepared section; the model names them `handshake` and `prepare`, since different
things happen when they fire, and whatever clears the handle clears both
(`PrepareTimer`). So `OnApplied` takes away the bound of the next entry before the
reducer refuses it, as `SimRuntimeClient.ts:1297` does. `tainted` is history of the entry
the owner waits for: such an answer disarmed its bound, a context was lost before it, or
one was restored during it.

A send that throws is the step `SendFails` after the method that sent. In the code the
transport settles on v2 inside `send`, and the method goes on. That ends in the same
state: falling back reads and writes the document's machine, the port and the deferred
entry, the rest of `activateModern` or `sendPresent` sets the activation, hides the frame
and arms a timer, and further sends on a closed port do nothing. In particular the timer
armed after the fallback is armed in the model too, and may later hide a section that v2
shows.

Left out: what the section draws, parameters and narration, package identity (it
never changes inside one client), the v2 protocol, which a document that does not
answer is left to and which may show the frame (`LegacyReveal`), and
`ManagedScope`.

### ProjectDuplication, CopyPromise

The requests of one source project (`rows`, with `quiet` as above), the runs that
deliveries start, and the source's bytes, which its owner goes on editing. A run
has read the rows (`Load`), then the retired trees (`Plan`), and only then copies
(`CopyMaster`, `CopyTrees`), verifies and commits. Every write of a run is fenced
by the status and none by the run, so that a run which was taken over goes on
beside its successor. `Commit` is `finalizeDuplication`: one transaction, whose
answer may be lost.

The source has one video: every medium goes through the same reads in the same
order. A copy's ids are fresh, so a run's bytes are its own. What is read of the
video, and when, is kept: that is where the hazards are.

`CopyPromise` is what the poll of a request and its owner's project list may show:
a request is answered once, and its one copy appears in the step that answers
"ready". `ProjectDuplication` implements it with `answer` the row's status (all in
flight are "open") and `made` the number of committed copies.

Left out: the remapping of ids and URLs, packages, media that are not this video's,
size limits, the deletion of bytes a failed copy leaves.

### HlsVersions

One video. A run writes one tree, which bears its name; `row.master` is
`hls_master_key`, `row.early` is `hls_360p_key`. Nothing claims the row, so a
redelivery beside a live run, or the inline driver, makes two transcodes overlap,
and the failure path of one clears by video id what may be the other's. `waiting`
is the job under the singleton key, which collapses waiting jobs only. `Mishap`
names what may go wrong (a lost answer, a refused or lost job, overlapping runs, a
stall, a heartbeat that outlives its run); a behaviour has one kind, any number of times,
so that each property can say which kinds it excepts. The last is `WorkDirFails`: between
the start of the heartbeat and the `try` whose `finally` stops it stands `mkdtemp`. A run
that throws there becomes an `orphan`, of which only `Beat` is left until its process
ends (`Restart`). `Due` is the grace period of a retired tree: it is
longer than any session that began before (`late` marks the others).

Left out: ffmpeg, waveforms, captions, placement reviews, deletion of the video.

### Dubbing

Several dubs, one pool. `row` is `video_dubs` (`quiet` and `stale` for the two clocks
of a claim: `updated_at`, which every stage refreshes, and `claimed_at`, which nothing
does; `hash` and `project` are `source_hash` and `el_project_id`), `slot` the rows of
`dubbing_slots`, `waiting` the deliveries of the queue, `bought` what the vendor has
billed, by the media it was made of. A run reads the row once (`Start`), takes a slot,
claims, resolves its project from the handle it read or from the vendor's list under
the dub's reference, or buys one; it records the handle, polls with a heartbeat on its
slot, publishes and gives the slot back. `HandBack` is the deferral of a run that lost
its slot, `Refuse` the answers given before the row's status is looked at (no speech,
the spend ceiling). A dub's id is its row: deleting it and asking anew is another dub.

`trouble` is history: what happened to the runs of a dub that voids a promise (the
vendor's list did not answer, a live run outlasted its claim, a forced claim or a
refusal beside a live run, a live run outlasted its lease). Every property names the
kinds it excepts. `MaxEvents` bounds everything that goes wrong or is done beside a
first request.

Left out: the language target inside a project, captions, the progress bar, costs and
the meter, the watermark, detection of the source language.

## 4 Runs

Deadlock checking is off where the system may really stop: everything published,
failed or used up. The MC modules only add symmetry.

| Run | Bounds | States | Shows |
| --- | --- | --- | --- |
| `sim_publish` | 2 publishers, rollback, player, 2 classes, no sweep, 2 revisions, 3 activations | 520 k | verdict, no lost publication, register implemented |
| `sim_collect` | 1 publisher, 1 rollback, 1 collector, 3 revisions, 3 activations | 6.6 M | pointer and status agree, files complete, frozen bytes, the way back |
| `blob_claim` | 3 clients, 2 extensions, no sweep, 2 blobs | 22 k | references have bytes and agree with the row |
| `blob_collect` | 2 clients, 1 sweeper, 2 blobs | 47 k | no deletion of what the pass saw referenced; garbage goes; marks are withdrawn |
| `video_lease` | 3 runs, 2 tries, 3 faults | 190 k | one section, one buyer, jobs end |
| `export_run` | 1 export, 2 windows, 2 runs, 3 deliveries, 2 faults | 312 k | one encoder, truth of ready rows, cancellation, the project is freed |
| `reveal` | 3 moves of the owner, 1 fault, breaker at 2 | 320 k | only what the live section drew is uncovered, suspensions are undone, evictions settle, waits end |
| `duplication` | 2 requests, 2 runs, 2 trees, 1 fault | 1.0 M | one copy or none, copies are whole, rows do not block for ever |
| `hls` | 3 transcodes, 1 viewer, 2 media, every kind of mishap | 1.4 M | what is played stays stored, ready means current, requests are decided |
| `dubbing` | 2 dubs, 2 runs, 1 slot, 2 media, 1 mishap | 450 k | one invoice, a slot for one, every dub ends |

Why the bounds are enough to be interesting. Two revisions give two publications
that race for one pointer, and a rollback between them; the collector's floor of two
retained revisions is met only with three. Two clients and one sweep suffice for
each of the collector's orders, two blobs for a row that is deleted and inserted
again during a pass; three clients are one uploader, one racer and one that copies a
reference. Three runs are a live one, its successor and the successor's successor;
three faults are a stall, a death and a lost write in one behaviour. Two windows
distinguish "the first failed" from "the last failed", three deliveries are the
queue's `retryLimit` of 2. Three moves of the owner are an entry, its undoing and a
second entry, which is what a stale answer needs to be taken for a fresh one; the
breaker opens after two strikes, so that open and closed both occur. Two requests
are needed for one that follows the other's failure while a run of the first still
goes on, two runs for a takeover, two trees for one that replaces the other while a
copy reads. Three transcodes are a published one and two that race to replace it.
Two dubs contend for one slot, and two runs are a live one and its redelivery; with
two mishaps (`DubbingWide.cfg`, one medium, 4.7 M states) the safety properties hold too.
Publishers that race and a collector are in two runs because together they do not fit in
one; that the register is implemented beside sweeps, with any number of each, is
`RegisterImplemented`. `RollbackStaysPossible` is checked with one collector
only: two collectors separated by a rollback and back are beyond TLC here. The theorem
`WayBackKept` covers any number of them, as long as their sweeps do not overlap.

Some properties are proved and have no run here. `OneInFlight` of ProjectExport: an
instance with two exports is large, and the only code that could break it is the index
of the database. `TerminalIsFinal` (VideoGenerate, ProjectExport), `VisibleIsProven`
(SimReveal) and `HeldUrlsPassTheGate` (SimRevision): each is the consequence of one
fence or gate, and what depends on it is in the runs.

The other two runs (`blob_concurrent`, `export_strict`) check one sentence of the
code's documentation each and end in a counterexample: section 7.

## 5 Fairness

- **SimRevision** has no liveness: nothing in the code promises that a publication
  ends, and a failed one leaves the old package live.
- **MediaBlob** (`FairSpec`): `setInterval` starts a pass every six hours and one at
  start-up, so the steps of sweeps are strongly fair: a pass may be interrupted
  anywhere, but not for ever at the same statement (`SweepGoesOn`). Time passes
  (`Ripen`). Clients are not fair at all.
- **VideoGenerate**: weak fairness of a run's steps, deliveries included. The queue
  retries twice (`retryLimit` 2, `retryDelay` 60 with backoff, expiry 45 min,
  `backend/queue/pgBoss.ts`) and every boot recovers jobs in flight
  (`recoverStuckVideoGenerations`). `JobEnds` is therefore "while deliveries keep
  coming"; whether they do after a holder dies between two boots is a hazard of its
  own (PROJECT.json). Silence follows the death of the owner (`GoQuiet` with an idle
  owner is fair; the stall of a live run is not). Faults are bounded by `MaxFaults`,
  so "however often" means any number up to that bound.
- **ProjectExport**: the reaper's timer (every 60 s, `startExportSweep`), silence of
  rows nobody touches, steps of runs. No delivery is promised: the reaper alone frees
  the project. Pressing "stop" on a dead run refreshes `updated_at`, so somebody who
  presses for ever could keep it in flight; `Cancel` happens once per row.
- **SimReveal**: timers fire, what was posted arrives, a document that is being
  replaced loads. Nothing is asked of the child: a package may be silent for ever,
  and nothing of the owner.
- **ProjectDuplication**: the steps of a run, silence of a row without a run, the
  reaper's timer (`startDuplicationSweep`). No delivery is promised: the inline driver
  makes one and forgets it with the process.
- **HlsVersions**: the steps of a run, a worker that takes what waits when no run of
  the video is active, silence of a row whose run is gone and whose heartbeat is too, the
  sweep of `hlsRecovery`. That a process with an orphaned heartbeat is ever restarted is
  not assumed.
- **Dubbing**: the steps of a run that does not die (the polls have a deadline of 90
  minutes), time (claims, failures and leases age), and strong fairness of the start of
  each dub's deliveries, since the queue hands them out in the order they were sent and
  one dub's retries cannot overtake the other's for ever. `AskAgain` is fair: the
  creator whose dub does not come asks for it again. That is an assumption about a
  person, and it is needed: no sweep looks for rows a dead run left in `processing`.

## 6 Proofs

All are checked by TLAPS for any number of processes, revisions, runs, exports,
windows, tries and faults, from the constants' named assumptions (`Nat` bounds,
model values outside the sets they mark) and nothing else. Each module has an
inductive invariant `IInv`, one lemma per action (or per operator), and theorems that read off its
parts.

**SimRevisionProofs.** The four row properties are not inductive by themselves: an
activation is safe only because of what its publication has already seen. `IInv`
adds `PubOK` (at each point of the pipeline the row is in the status the publication
left it in, or gone; what validation saw is still stored; the draft contains its
base's edits), `Owned` (no two publications have the same draft), `OpOK` and `GcOK`
(a collector about to delete bytes holds a row that is already gone). Theorems:
`TypeCorrect`, `PointerCorrect`, `WholeCorrect`, `VerdictCorrect`, `FrozenCorrect`,
`NothingLost`, `HeldUrlsCorrect`, and `RegisterImplemented`: the refinement of
PackageRegister, whose steps are matched case by case (publication, restoration,
discarding, stutter). What is whole is the files: that the manifest is there too
is not claimed, because it is not so (section 7). Nothing is asked of the time a
publication takes.

`WayBackKept` (`RollbackStaysPossible`) counts: `SparesTwo` says that while a retained
revision is on a collector's list, two retained ones are off it. When the list is made
that is the ranking by activation time, whatever the timestamps are; afterwards the list
only gets shorter and nobody but a collector takes a revision out of the retained ones
(cardinalities by `FiniteSetTheorems`). It asks that no two sweeps overlap
(`SweepsApart`), and not for the proof's sake: section 7. `WayBackOfOneCollector` is the
case TLC checks.

**VideoGenerateProofs.** Safety rests on the run token alone, never on the clock:
the proofs let a live run go quiet as often as it likes. `LeaseOK` says a row that
is over has no run that could still write a stage; `PublishOK` that what was
published ended the row; `BuyOK` that once a submission may have happened the row
is over, has its task id, or is still `submitting` and will be found poisoned.
Theorems: `TypeCorrect`, `AtMostOneSection`, `AtMostOneBuyer`, `TerminalStays`.

**ProjectExportProofs.** Without a token the promise is weaker and says so: two of
the theorems hold *unless a live run missed five minutes of beats* (`stalled`). The
invariant speaks of one export at a time; every step concerns one (`RunStepOK`,
`NextOK` lift this to all). `OneRunOK` holds while nobody stalled: a row somebody
works on is not quiet, so nobody else claims it; so what it uploads is what it
publishes. Theorems: `TypeCorrect`, `OneRunEncodes`, `ReadyRowsAreTrue`,
`CancellationsAreKept`, `TerminalStays`, `OneExportInFlight`. The last needs the
partial unique index at insertion and, for every later write, that a fenced write
never lifts a row out of an ended status.

**MediaBlobProofs.** With any number of sweeps, `RecheckIsRedundant` is about time:
what a sweep saw referenced is a set of ids already given out; if the blob it sees
in its last pass is one of them, then its mark is younger than the pass, because the
pass was under way when the mark was set (`young`) or the pass withdrew it itself; a
mark that old cannot have ripened while the pass runs. `IInv` says this of each
sweep (`SweepOK`), with what a client's claim may still insert (`ClaimOK`) and what
a media row names (`MediaOK`). Theorems: `TypeCorrect`, `NothingSeenIsDeleted`,
`ReferencesAgree`, and, from the assumption that there is no sweep,
`ReferencesAreStored` (with one it is false: section 7).

Its liveness is proved too. One lemma per step of a pass says what it does to the
sweeper, and the seven strong fairness conditions compose to "a pass ends again and
again", though it may be interrupted at any statement (`EveryPassEnds`).
`MarksAreWithdrawn`: while a marked row stays referenced, every pass that begins sees
it (`Acquits`), and one that gets through withdraws the mark; any number of other
sweepers may set it again before, not prevent it. `UnreferencedAreCollected`: once nothing
refers to the row, passes that saw a reference end; all later ones are blind, none of
them takes a mark away and one that gets through sets it; what was under way when it
was set ends, the mark ripens, and the next pass that gets through deletes the row.
That argument waits for every sweeper in turn, which for a set of unknown size would be
an induction over temporal formulas, so it is stated for one or two sweepers.

**ProjectDuplicationProofs.** Two invariants. `Core` says that a row with a copy is
over: the commit asks for "committing" and writes the copy and "ready" together, and
every other write starts from a status in flight. So each step maps to a step of
CopyPromise or to a stutter (`Kept`), which is the refinement `PromiseKept`; the
promise's own invariant follows (`AtMostOneCopy`). `Whole` says what a run knows of
the source: while the video is kept its bytes only grow, so what a run found named
is still there when it copies, and what it skips it does not name
(`CopiesWhole`).

**HlsVersionsProofs.** `PastOK`: a tree that was named as the master, replaced or
retired is one its run has left, so no later step of that run names it again.
`Played` adds, while no answer is lost, that each pointer can be accounted for: a
failing run knows that it has an early pointer to take back, and a run about to
retire the tree it replaced has left it without a pointer. `Current` says that
without overlap a run that is active beside an empty queue encodes the row's
media. Theorems: `TypeCorrect`, `PlayedTreesStay`, `ReadyPlaysTheLatest`, and
`PendingIsHeld`, the safety half of `EveryRequestIsDecided`: a video that waits to be
transcoded has a job that waits for it or a run that has just taken it, unless the
queue lost the job (`Driven`, which needs no more of the runs than their first step).

**SimRevealProofs.** The client is one record and its handlers are compositions of
operators on it, so there is one lemma per operator and an action composes them.
Nothing about the screen is inductive without the two queues. `Core` numbers them:
no message carries an activation later than the client's serial; PREPAREs arrive in
order; there is at most one PRESENT of the present section, and a RELEASE of it only
once it is released; a PRESENTED of the live section means that the child drew it,
and so does an activation that is presented. `Timed` (in Core) says which timers may
be armed at which step, `Evicted` that an eviction has released the activation and
holds none back. `Shown` is the screen: uncovered implies presented, in this document, by this
activation. `Owed` follows the SUSPENDs and RESUMEs still in the port: what the
child has read, followed by what is on its way, agrees with the debt the client
keeps. Theorems: `TypeCorrect`, `Proven`, `Faithful`, `DebtsAreKept`, which include all
the safety properties of the run `reveal`.

`EvictionsSettle` is its liveness of evictions: an eviction in its grace period has that
timer armed and one that waits for the document to be disposed has that one (`Armed`);
no step goes from the second back to the first (`Advances`), whatever arrives; so the
two weak fairness conditions end it.

`WaitsAreArmed` and `WaitsEnd` are about the entries into a section. While one waits
undisturbed (`Waiting`: it is not `tainted`, and no document was replaced under it), the
handshake timer, the timer of a lost context or that of a step is armed (`Bounded`). There
are two hard steps. One is an acknowledgement of the picture that comes while the client
still takes the document for suspended: it clears the last timer and cannot uncover the
frame. The other is an APPLIED that the reducer accepts during a deferral, which clears
the bound of the deferral on the way. Neither happens. By `Heard`, what the client
believes of a suspend is what the child has read; by `Owed` no debt is left, so something
that wakes the child is still on its way to it; but by `Orderly` nothing that wakes the
document is on its way behind what it needs in order to answer for the present section,
neither behind the PRESENT nor behind the picture. What `Owed` and `Heard` leave open is a
document that has taken a new port and is not bootstrapped; by `Roused` it has the INIT
ahead of it, or the client the READY. `Intent` ties the owner's
intent to the flags: who is waited for owes nothing and is not evicted, a failure defers
nothing, a handshake timer means that the document is not ready. From there two facts end a
wait (`Outlives`): the timer of a lost context stays armed until it fires, and the handshake
timer is armed again only by an entry. So one of the three stays armed, and weak fairness
fires it. TLC found `Bounded` and `Roused` true of all states at four moves and one fault, and
at three moves and two faults.

**DubbingProofs.** Two invariants that do not need each other. `Claimed`: while a dub
has had no trouble that voids its claim, a run between its claim and its end finds the
row `processing` and fresh (or deleted), is the only such run, and is about to buy only
if nothing was bought. `Owned`: a run that holds a slot, of a dub that never outlasted a
lease, finds its dub's name on it, live, and shares it with nobody but runs that did
outlast theirs; a slot bears a dub's name and not a run's, so `Holders` and not the row
says who holds it. `Handles` ties the handles in rows and runs to projects that were
bought. Theorems: `TypeCorrect`, `InvoicedOnce`, `SlotsStayExclusive`.

**The hypotheses of the liveness theorems.** The prover does not expand ENABLED, so
`PassesCanGoOn`, `MarksCanRipen`, `ArmedTimersCanFire` and `WaitingTimersCanFire` say what
the fairness needs of it: at each `pc` of a pass its statement can run, a mark nobody is
younger than can ripen, an armed timer can fire. Each of these actions is a guard and
assignments that change a variable, so they hold in every state; TLC, which evaluates
ENABLED, found them true of all states of `blob_collect` and `reveal`. `WaitsEnd` has one
hypothesis more, that the owner enters a section finitely often (`<>[][~Enter]_vars`). It
holds of every behaviour of the model, where each entry takes one of `MaxMoves` moves, but
that is an induction on `MaxMoves` inside a temporal formula; of the code it says that a
wait is not measured while the reader keeps re-entering. Nothing else is assumed.

Only model-checked: `JobEnds`, `ExportEnds`, `EveryRequestIsAnswered`,
`EveryRequestIsDecided`, `EveryDubEnds`, which end because faults, tries and deliveries
run out, an induction over numbers, and over sets of runs, inside temporal formulas that
the prover has no rule for.

## 7 What the models found

Two have a run that ends in a counterexample, and an entry with the quoted line in
PROJECT.json.

| Run | The code | The documentation |
| --- | --- | --- |
| `blob_concurrent` | bytes go before the guarded statement, so a reference made in between loses its object | sweep: safe to run concurrently with anything |
| `export_strict` | a gate that answers "failed" becomes a still under any policy | strict exports never ship a still |

Others are stated as definitions of the modules and refuted under the configuration
named here (`tlc -config X.cfg M`):

| Property | Configuration, module | The code | The documentation |
| --- | --- | --- | --- |
| `EligibleRevisionsHaveAManifest` | `SimManifest.cfg`, MCSimRevision | `manifest.json` goes up after the read-back and nothing looks for it; without it the package is live and no later publication can read its base | an upload call that resolves is not proof the object landed |
| `ActiveIsNewest` | `SimActiveNewest.cfg`, MCSimRevision | the activation's timestamp is read before the locks, so a transaction that waited commits with an old one | gc(): the active revision always has the newest `activated_at` |
| `DeclinedIsStoredAgain` | `BlobDeclined.cfg`, MCMediaBlob | the second copy's insert conflicts and the re-read returns the old key | a second copy rather than a wrong reference |
| `BoughtOnce` | `VideoBought.cfg`, MCVideoGenerate | `withRetry` submits again after an answer that was lost | rather one more click than a second video |
| `AbandonedHadStarted` | `ExportQueued.cfg`, MCProjectExport | the reaper fails rows that wait for a worker | "the server restarted" |
| `EveryWaitHasABound` | `RevealBound.cfg`, MCSimReveal | one handle bounds a deferred entry and a prepared section; a late acknowledgement of the failed section before clears it before it is refused | every wait has a bound that leads somewhere |
| `EveryWaitHasABound` | `RevealRestored.cfg`, MCSimReveal | a restored context clears the only bound, and the frame stays hidden | every wait has a bound, and the bound leads somewhere |
| `AbandonedRowsAreReaped` | `HlsBeat.cfg`, MCHlsVersions | a run that throws at `mkdtemp` is over and its heartbeat goes on, so the row says `processing` and is never reaped | stopped in the `finally`; silence means the writer is gone |
| `PendingIsDriven` | `HlsPending.cfg`, MCHlsVersions | a transcode the queue refuses stays `pending`, and the recovery only looks at `processing` | refusing does not lose the work: a sweep will re-drive it |
| `DubIsOfItsSource` | `DubbingSource.cfg`, MCDubbing | a dub of replaced media resumes the vendor's project of the old media, by its stored handle or by reference, and is published under the new hash | the source changed, so whatever exists describes a video that is no longer there |

Seen while translating, without a run of their own.

Revisions:

- `manifest.json` goes up through the same `uploadFile` as the files
  (`RevisionService.ts:508-513`), after the read-back (`:455`), and nothing reads it back.
  A package without it is served; every later publication throws when it reads its base
  (`RevisionDerivation.ts:258-263`) until a rollback.
- Two rollbacks in a row restore the revision the first one withdrew
  (`rollbackTargetFor`, `simRevision.ts:386`), which the comment of `rollback()`
  (`RevisionService.ts:892-895`) says the order by activation time avoids.
- The package a pointer has just left may be collected minutes later: the age that
  counts is that of its creation (`RevisionService.ts:967`, `:979`; compare
  `simRevision.ts:13-15`).
- Between the deletion of a failed revision's row and of its bytes, its leftovers
  pass the gate as legacy paths (`RevisionService.ts:999`).
- Two sweeps whose reads are separated by a rollback and back may each delete what
  the other counts as the way back. No instance that shows it is small enough for
  TLC, so `RollbackStaysPossible` is checked with one collector, and `WayBackKept` asks
  that sweeps do not overlap.
- `sim-public.controller.ts:268` and `revisionIdentity.ts:37` say `gc()` has no
  production caller; the sweep calls it.

Blobs, videos, exports:

- An object whose upload died before its insert has no row and is never collected,
  although the header of `MediaBlobStore.ts:15` counts on the sweeper.
  `referenceCount` there omits `sim_files`.
- After a lost COMMIT answer a job may read `failed` beside its published section
  (`video.generate.ts:481`, `:354`): `OneSection` and `TerminalIsFinal` hold.
- The comment of `singletonKeyFor` cites an index that migration 062 did not ship;
  `CPU_BOUND_JOBS` omits `audio_edition`.
- After a stall two runs of one export share `master.mp4` and `sections/`, so "a
  concurrent re-run cannot be affected" (`ProjectExportService.ts:688-691`) and
  "write-once" (`:622`) do not hold.
- `export.controller.ts:339-352` fails a row by id alone, and the reaper also writes
  terminal statuses, although "the RUNNER is the only writer of terminal status"
  (`:480-482`). A cancelled row that is reaped is recorded as failed.
- "A retry only ever resumes a crashed run" (`queue/pgBoss.ts:71-73`): by the time of
  the redelivery of a crashed export the reaper has failed its row.

Duplication:

- The video is deleted after its master was copied and before its prefix is: the
  verification takes the emptied source for one that never had anything
  (`ProjectDuplicationService.ts:931`), and a copy is committed whose pointer names
  nothing. `CopiesOfAKeptVideoAreWhole` without its first condition shows it. The
  code says "Prove the bytes landed before any row is written".
- A run that was taken over may commit in its successor's window, since the fence of
  the commit asks for the status and not for the run (header, `:27-29`; `:2111-2118`).
  It is still one copy, and the successor's commit is refused.
- Rows and retired trees are read in no common transaction: a transcode in between
  leaves the copy `ready` without a pointer to play, because the tree it names is
  among those skipped.

HLS:

- The heartbeat of a run that throws at `mkdtemp` (`runVideoTranscode.ts:54`, `:56`, `try`
  at `:74`) goes on as long as its process, so `hls_started_at` never goes silent
  (`hlsRecovery.ts:21`, `:98`).
- The write that names a tree commits and its answer is lost: the run fails, clears
  nothing it does not know of, and retires its own tree, which the row still names;
  a grace period later the sweep deletes what is played
  (`runVideoTranscode.ts:227-230`, `:246`). `PlayedTreesAreStored` excepts this.
- Two transcodes of one video: the one that fails clears the other's early pointer
  and writes "failed" over it; a slow one for the replaced media may flip last.
- The operator's retranscode clears the pointers, so the tree they named is never
  retired; the same leak follows a death between flip and retirement.

Dubbing:

- The ceiling and the silence check come before the skip, so the repetition of a
  delivery that had succeeded can write "failed" over a completed dub
  (`DubbingService.ts:555-576`), and a refusal under a live run frees its claim.
- A retryable failure is thrown to be repeated after two minutes and a half-hour window
  skips failed rows (`shouldSkipDub`): the repetition of an ordinary failure is a no-op.
- A delivery whose run died more than an hour in is repeated at three hours, finds
  `updated_at` less than two hours old and is skipped; the row stays `processing` until somebody asks again
  (`EveryDubEnds` needs `AskAgain`).
- A deferral for want of a slot consumes one of the queue's eight retries, after which a
  queued dub waits for its creator.
- After a lease was outlasted two runs of one dub share a slot's name and each can free
  it for the other; TLC finds an endless alternation, hence the exception of
  `EveryDubEnds`.
- A forced request is collapsed into a plain delivery that waits and loses its force,
  although the comment says that collapsing loses nothing (`pgBossDriver.ts:179-182`).
- The keys of a dub contain its id and no version, so a regenerated dub overwrites the
  tree viewers may be playing; the comment says it writes a new one
  (`DubbingService.ts:822-824`).
- A request for replaced media that meets a live claim is dropped at the claim; the
  run that holds it publishes the old media.

Runtime in the browser:

- `SECTION_APPLIED` clears `prepareTimer` (`SimRuntimeClient.ts:1297`) before the reducer
  refuses it (`:1314`); by then the handle may be the bound of the next entry
  (`:962-968`), of whose comment the table quotes a sentence (`:957`;
  `simFailurePolicy.ts:17` says the same). A child that stays silent leaves that entry
  hidden without a failure.
- A send that throws inside `activateModern` or `sendPresent` leaves their timer armed
  behind the fallback to v2 (`SimRuntimeClient.ts:1504-1513`): when it fires, it fails
  and hides a section that v2 shows.
- A context lost and restored before the frame is shown leaves it hidden with no
  timer; so does a failure after which the section is entered again while the
  context is still lost.
- `pendingActivate` survives an activation that ran at once, so the next RESUMED
  prepares the section again.
- `deactivate` on a suspended document releases nothing; after a thaw the old section
  is still installed.
- With the breaker open a navigation leaves the transport "modern" on an epoch
  nobody will answer.
- An error of a section that was just released still counts as a strike of the
  breaker, since the released activation is the one it is compared with
  (`SimRuntimeClient.ts:1411`).

Further hazards, small or outside the modules: the cache of serving facts
(`revisionIdentity.ts:171`), the no-op short circuit of a section publication
(`SimulationService.ts:3268`), the local-disk fallback of uploads
(`claimUploadedMedia.ts:73`), orphaned files and concurrent transcodes of a
superseded generation run (`video.generate.ts:333`, `:344`).

## 8 Not modelled

Every component of section 1 is listed in PROJECT.json with its state. Left for
the plan: transitions, avatar budget, the queue driver, the claims of
captions and transcripts. Left out on purpose: planners, signal processing, model
and vendor calls, price tables, HTML and SEO rendering (data, not control);
adapters and maintenance scripts (I/O); billing, courses, accounts (single
transactions under database constraints); forms and consoles; archived code; release
tooling, which is not part of the running system and comes last if at all.

The map covers a small share of the repository's lines for that reason: most of
them are components of the interface, rendering, prompts and calls of vendors, which
have no protocol a model checker could say anything about.
