---------------------------- MODULE SimRevision ----------------------------
(***************************************************************************)
(* Publication, rollback and collection of the immutable package revisions *)
(* of ONE simulation: services/simulation/RevisionService.ts together with *)
(* the pipeline that drives it (RevisionDerivation.deriveRevision and      *)
(* SimulationService.uploadSectionBridge) and the sweep that reclaims old  *)
(* revisions (revisionGcSweep.ts).                                         *)
(*                                                                         *)
(* Every API process runs publications, rollbacks and sweeps; nothing but  *)
(* the rows of Postgres and the keys of the object store is shared.  Each  *)
(* action is one awaited statement, transaction or storage call: between   *)
(* two of them any other process may run, and any process may die.         *)
(*                                                                         *)
(* Definitions named X_Variant stand next to X: the same code with a       *)
(* plausible mistake, which the properties are tested against.             *)
(***************************************************************************)
EXTENDS Integers, FiniteSets

CONSTANTS
    Publisher,       \* concurrent publications (requests and jobs)
    Operator,        \* concurrent callers of rollback()
    Collector,       \* API processes, each with its own gc sweep
    Viewer,          \* loaded players
    File,            \* the files of one package, manifest.json aside
    Class,           \* the canary classifications
    MaxRevisions,    \* bound: drafts ever created
    MaxStamp         \* bound: activations ever attempted

ASSUME FileAssumption == File # {} /\ IsFiniteSet(File)
ASSUME BoundAssumption == MaxRevisions \in Nat /\ MaxStamp \in Nat

Rev == 1..MaxRevisions
NoRev == 0
NoClass == "unproven"
Manifest == "manifest.json"
Object == File \cup {Manifest}

(* proof_pending and proof_passed are left out: transition() is private and *)
(* no caller of it enters them.  "none" is the absence of a row.            *)
Status == {"none", "draft", "uploading", "validating", "canary_passed",
           "active", "retired", "rolled_back", "failed"}

Retained == {"active", "retired", "rolled_back"}
ActivatableFrom == {"canary_passed", "retired", "rolled_back"}
VerdictOpen == {"uploading", "validating", "canary_passed"}
Public == {"active", "retired", "rolled_back"}

ASSUME ManifestAssumption == Manifest \notin File
ASSUME ClassAssumption == NoClass \notin Class

VARIABLES
    status, hashed, activatedAt, verdict,   \* columns of sim_revisions, by revision
    edits,          \* ghost: the publications whose change the package contains
    counter, active, shown,                 \* columns of the simulations row
    stored,         \* the object store: the keys present under a revision's prefix
    ripe,           \* revisions 1..ripe are older than GC_MIN_AGE_MS
    stamp,          \* the last timestamp an activation read
    pub, op, gc,    \* the processes' local state
    held            \* the revision a loaded player's URLs name

rows == <<status, hashed, activatedAt, verdict, edits>>
sim == <<counter, active, shown>>
vars == <<rows, sim, stored, ripe, stamp, pub, op, gc, held>>

IdlePub == [pc |-> "idle", base |-> NoRev, rev |-> NoRev, sent |-> {}, from |-> "none", at |-> 0]
IdleOp == [pc |-> "idle", expected |-> NoRev, target |-> NoRev, at |-> 0]
IdleGc == [pc |-> "idle", todo |-> {}, cur |-> NoRev]

Init ==
    /\ status = [r \in Rev |-> "none"]
    /\ hashed = [r \in Rev |-> FALSE]
    /\ activatedAt = [r \in Rev |-> 0]
    /\ verdict = [r \in Rev |-> NoClass]
    /\ edits = [r \in Rev |-> {}]
    /\ counter = 0 /\ active = NoRev /\ shown = NoClass
    /\ stored = [r \in Rev |-> {}]
    /\ ripe = 0 /\ stamp = 0
    /\ pub = [p \in Publisher |-> IdlePub]
    /\ op = [o \in Operator |-> IdleOp]
    /\ gc = [g \in Collector |-> IdleGc]
    /\ held = [v \in Viewer |-> NoRev]

-----------------------------------------------------------------------------
(* Reads shared by several operations. *)

RetainedRevs == {r \in Rev : status[r] \in Retained}

(* The k retained revisions of largest activated_at. *)
Newest(k) ==
    {r \in RetainedRevs :
        Cardinality({s \in RetainedRevs : activatedAt[s] > activatedAt[r]}) < k}

(* rollbackTargetFor: candidates are retained, not active, not the current one. *)
RollbackCandidates(current) ==
    {r \in Rev \ {current} : status[r] \in Retained \ {"active"}}

IsRollbackTarget(r, current) ==
    /\ r \in RollbackCandidates(current)
    /\ \A s \in RollbackCandidates(current) : activatedAt[s] <= activatedAt[r]

(* gc(): keepLastN floored at GC_MIN_KEEP. *)
KeepLiveOnly == 1
MinKeep == 2
Keep == Newest(MinKeep)

(* The WHERE clause of transition(). *)
StatusIs_ById(r, from) == r # NoRev /\ status[r] # "none"
StatusIs(r, from) == r # NoRev /\ status[r] = from

-----------------------------------------------------------------------------
(* The publication pipeline. *)

GoTo(p, pc) == pub' = [pub EXCEPT ![p].pc = pc]
Stop(p) == pub' = [pub EXCEPT ![p] = IdlePub]

(* A caught error: markFailed(from) is the next statement. *)
Fail(p, from) == pub' = [pub EXCEPT ![p] = [@ EXCEPT !.pc = "failing", !.from = from]]

(* The pointer read that seeds the compare-and-set.  NoRev is the legacy    *)
(* prefix, from which uploadSectionBridge publishes revision 1.             *)
ReadPointer(p) ==
    /\ pub[p].pc = "idle"
    /\ pub' = [pub EXCEPT ![p] = [@ EXCEPT !.pc = "pointed", !.base = active]]
    /\ UNCHANGED <<rows, sim, stored, ripe, stamp, op, gc, held>>

(* readBasePackage, and the base branch of uploadSectionBridge: the manifest*)
(* of the live revision lists the files to derive from.  Without it         *)
(* (ActiveRevisionUnreadable) the publication throws, and no draft is made. *)
ReadBase(p) ==
    /\ pub[p].pc = "pointed"
    /\ IF pub[p].base # NoRev => Manifest \in stored[pub[p].base]
       THEN GoTo(p, "planned")
       ELSE Stop(p)
    /\ UNCHANGED <<rows, sim, stored, ripe, stamp, op, gc, held>>

(* createDraft: the counter is incremented under the simulations row lock. *)
CreateDraft(p) ==
    LET r == counter + 1
        b == pub[p].base
    IN  /\ pub[p].pc = "planned"
        /\ counter < MaxRevisions
        /\ counter' = r
        /\ status' = [status EXCEPT ![r] = "draft"]
        /\ edits' = [edits EXCEPT ![r] = {r} \cup IF b = NoRev THEN {} ELSE edits[b]]
        /\ pub' = [pub EXCEPT ![p] = [@ EXCEPT !.pc = "drafted", !.rev = r]]
        /\ UNCHANGED <<hashed, activatedAt, verdict, active, shown, stored, ripe,
                       stamp, op, gc, held>>

(* A status move by one compare-and-set; losing it throws out of the pipeline. *)
Move(p, from, to, pc) ==
    LET r == pub[p].rev
    IN  /\ IF StatusIs(r, from)
           THEN status' = [status EXCEPT ![r] = to] /\ GoTo(p, pc)
           ELSE UNCHANGED status /\ Stop(p)
        /\ UNCHANGED <<activatedAt, verdict, edits, sim, stored, ripe, stamp, op, gc, held>>

BeginUpload(p) ==
    /\ pub[p].pc = "drafted"
    /\ Move(p, "draft", "uploading", "uploading")
    /\ UNCHANGED hashed

(* writeFile guards on the record it holds, never on the row.  An upload    *)
(* that resolves need not have landed.                                      *)
WriteFile(p) ==
    /\ pub[p].pc = "uploading"
    /\ \E f \in File \ pub[p].sent, landed \in BOOLEAN :
         /\ pub' = [pub EXCEPT ![p].sent = @ \cup {f}]
         /\ stored' = IF landed
                      THEN [stored EXCEPT ![pub[p].rev] = @ \cup {f}]
                      ELSE stored
    /\ UNCHANGED <<rows, sim, ripe, stamp, op, gc, held>>

(* A read of the base, an upload or an abort check fails; mapWithLimit lets *)
(* every call in flight settle before it rejects.                           *)
UploadFails(p) ==
    /\ pub[p].pc = "uploading"
    /\ Fail(p, "uploading")
    /\ UNCHANGED <<rows, sim, stored, ripe, stamp, op, gc, held>>

FinishUpload(p) ==
    /\ pub[p].pc = "uploading"
    /\ pub[p].sent = File
    /\ Move(p, "uploading", "validating", "validating")
    /\ UNCHANGED hashed

(* validate(): the stored bytes are read back; a missing file, a manifest   *)
(* problem or a capture-incompatible package fails the revision.            *)
ReadBack_TrustsUploads(p) ==
    /\ pub[p].pc = "validating"
    /\ GoTo(p, "verified") \/ Fail(p, "validating")
    /\ UNCHANGED <<rows, sim, stored, ripe, stamp, op, gc, held>>

ReadBack(p) ==
    /\ pub[p].pc = "validating"
    /\ \/ File \subseteq stored[pub[p].rev] /\ GoTo(p, "verified")
       \/ Fail(p, "validating")
    /\ UNCHANGED <<rows, sim, stored, ripe, stamp, op, gc, held>>

(* The manifest goes up last, by the same uploadFile, and nothing reads it  *)
(* back: an upload that resolved without landing is not noticed.            *)
WriteManifest(p) ==
    /\ pub[p].pc = "verified"
    /\ \E landed \in BOOLEAN :
         stored' = IF landed
                   THEN [stored EXCEPT ![pub[p].rev] = @ \cup {Manifest}]
                   ELSE stored
    /\ GoTo(p, "manifested")
    /\ UNCHANGED <<rows, sim, ripe, stamp, op, gc, held>>

PassValidation(p) ==
    /\ pub[p].pc = "manifested"
    /\ hashed' = IF StatusIs(pub[p].rev, "validating")
                 THEN [hashed EXCEPT ![pub[p].rev] = TRUE] ELSE hashed
    /\ Move(p, "validating", "canary_passed", "staged")

(* The last abort point, between validation and activation. *)
AbortBeforeActivation(p) ==
    /\ pub[p].pc = "staged"
    /\ Fail(p, "canary_passed")
    /\ UNCHANGED <<rows, sim, stored, ripe, stamp, op, gc, held>>

(* markFailed: a compare-and-set whose loss the callers swallow. *)
MarkFailed(p) ==
    LET r == pub[p].rev
    IN  /\ pub[p].pc = "failing"
        /\ status' = IF StatusIs(r, pub[p].from)
                     THEN [status EXCEPT ![r] = "failed"] ELSE status
        /\ Stop(p)
        /\ UNCHANGED <<hashed, activatedAt, verdict, edits, sim, stored, ripe, stamp,
                       op, gc, held>>

(* The process dies, an uncaught call throws, or a migration stops here, at *)
(* canary_passed: nothing is written and the local state is gone.           *)
Abandon(p) ==
    /\ pub[p].pc # "idle"
    /\ Stop(p)
    /\ UNCHANGED <<rows, sim, stored, ripe, stamp, op, gc, held>>

-----------------------------------------------------------------------------
(* Activation: one transaction, three compare-and-sets and a unique index.  *)
(* Each UPDATE takes a row lock and re-reads its predicate after waiting,   *)
(* so the transaction takes effect as a whole or not at all.                *)

CanDemote(r, expected) == expected \notin {NoRev, r} => status[expected] = "active"
CanPromote(r) == r # NoRev /\ status[r] \in ActivatableFrom /\ hashed[r]
IndexAllows(r, expected) == \A s \in Rev \ {r, expected} : status[s] # "active"
PointerUnmoved(expected) == active = expected

ActivationHolds(r, expected) ==
    /\ CanDemote(r, expected)
    /\ CanPromote(r)
    /\ IndexAllows(r, expected)
    /\ PointerUnmoved(expected)

Activate(r, expected, supersede, at) ==
    /\ ActivationHolds(r, expected)
    /\ status' = [s \in Rev |-> IF s = r THEN "active"
                                ELSE IF s = expected THEN supersede ELSE status[s]]
    /\ activatedAt' = [activatedAt EXCEPT ![r] = at]
    /\ active' = r
    /\ shown' = verdict[r]
    /\ UNCHANGED <<hashed, verdict, edits, counter>>

(* The transaction's timestamp is read when its callback starts, before any *)
(* of its statements runs.                                                  *)
ReadClock == stamp < MaxStamp /\ stamp' = stamp + 1

StartActivation(p) ==
    /\ pub[p].pc = "staged"
    /\ ReadClock
    /\ pub' = [pub EXCEPT ![p] = [@ EXCEPT !.pc = "activating", !.at = stamp']]
    /\ UNCHANGED <<rows, sim, stored, ripe, op, gc, held>>

(* The pointer the caller read when it planned the package. *)
ExpectedPointer_Reread(p) == active
ExpectedPointer(p) == pub[p].base

(* The second disjunct is a commit whose acknowledgement was lost: the      *)
(* caller sees an error and goes on to markFailed.                          *)
CommitActivation_FailsWhatItFinds(p) ==
    /\ pub[p].pc = "activating"
    /\ Activate(pub[p].rev, ExpectedPointer(p), "retired", pub[p].at)
    /\ Stop(p) \/ Fail(p, "active")
    /\ UNCHANGED <<stored, ripe, stamp, op, gc, held>>

CommitActivation(p) ==
    /\ pub[p].pc = "activating"
    /\ Activate(pub[p].rev, ExpectedPointer(p), "retired", pub[p].at)
    /\ Stop(p) \/ Fail(p, "canary_passed")
    /\ UNCHANGED <<stored, ripe, stamp, op, gc, held>>

(* A lost compare-and-set, or an onActivated hook that throws. *)
ActivationRollsBack(p) ==
    /\ pub[p].pc = "activating"
    /\ Fail(p, "canary_passed")
    /\ UNCHANGED <<rows, sim, stored, ripe, stamp, op, gc, held>>

-----------------------------------------------------------------------------
(* rollback(): the pointer the operator saw, the rows, the transaction. *)

OpReadPointer(o) ==
    /\ op[o].pc = "idle"
    /\ op' = [op EXCEPT ![o] = [@ EXCEPT !.pc = "pointed", !.expected = active]]
    /\ UNCHANGED <<rows, sim, stored, ripe, stamp, pub, gc, held>>

OpChooseTarget(o) ==
    /\ op[o].pc = "pointed"
    /\ \/ \E r \in Rev : /\ IsRollbackTarget(r, op[o].expected)
                         /\ op' = [op EXCEPT ![o] = [@ EXCEPT !.pc = "chosen", !.target = r]]
       \/ /\ RollbackCandidates(op[o].expected) = {}
          /\ op' = [op EXCEPT ![o] = IdleOp]
    /\ UNCHANGED <<rows, sim, stored, ripe, stamp, pub, gc, held>>

OpStartActivation(o) ==
    /\ op[o].pc = "chosen"
    /\ ReadClock
    /\ op' = [op EXCEPT ![o] = [@ EXCEPT !.pc = "activating", !.at = stamp']]
    /\ UNCHANGED <<rows, sim, stored, ripe, pub, gc, held>>

OpCommit(o) ==
    /\ op[o].pc = "activating"
    /\ Activate(op[o].target, op[o].expected, "rolled_back", op[o].at)
    /\ op' = [op EXCEPT ![o] = IdleOp]
    /\ UNCHANGED <<stored, ripe, stamp, pub, gc, held>>

(* RevisionConflict, or the process dies. *)
OpGivesUp(o) ==
    /\ op[o].pc # "idle"
    /\ op' = [op EXCEPT ![o] = IdleOp]
    /\ UNCHANGED <<rows, sim, stored, ripe, stamp, pub, gc, held>>

-----------------------------------------------------------------------------
(* Canary verdicts. *)

AcceptsVerdict_AtAnyTime(r) == status[r] # "none"
AcceptsVerdict(r) == status[r] \in VerdictOpen

RecordCanary(r, c) ==
    /\ AcceptsVerdict(r)
    /\ verdict' = [verdict EXCEPT ![r] = c]
    /\ UNCHANGED <<status, hashed, activatedAt, edits, sim, stored, ripe, stamp,
                   pub, op, gc, held>>

(* sim-canary-publish.ts writes the simulations row, while it has no pointer. *)
MayWriteShown == active = NoRev

CanaryLegacyPackage(c) ==
    /\ MayWriteShown
    /\ shown' = c
    /\ UNCHANGED <<rows, counter, active, stored, ripe, stamp, pub, op, gc, held>>

-----------------------------------------------------------------------------
(* Garbage collection. *)

(* gc() selects the rows once; todo pairs each row outside keep with the    *)
(* status that was read.                                                    *)
Uncovered == {<<r, status[r]>> : r \in {s \in Rev : status[s] # "none"} \ Keep}

GcReadRows(g) ==
    /\ gc[g].pc = "idle"
    /\ gc' = [gc EXCEPT ![g] = [@ EXCEPT !.pc = "loop", !.todo = Uncovered]]
    /\ UNCHANGED <<rows, sim, stored, ripe, stamp, pub, op, held>>

OldEnough(r) == r <= ripe

(* Too young, or its DELETE, which names the status that was read, matched  *)
(* nothing.                                                                 *)
GcSkip(g) ==
    /\ gc[g].pc = "loop"
    /\ \E t \in gc[g].todo : /\ ~OldEnough(t[1]) \/ status[t[1]] # t[2]
                             /\ gc' = [gc EXCEPT ![g].todo = @ \ {t}]
    /\ UNCHANGED <<rows, sim, stored, ripe, stamp, pub, op, held>>

(* The row goes first.  The CHECK behind the pointer's foreign key refuses  *)
(* to let go of the row being served, which throws out of gc(): GcStops.    *)
GcDeleteRow(g) ==
    /\ gc[g].pc = "loop"
    /\ \E t \in gc[g].todo :
         LET r == t[1]
         IN  /\ OldEnough(r)
             /\ status[r] = t[2]
             /\ r # active
             /\ gc' = [gc EXCEPT ![g] = [pc |-> "bytes", todo |-> gc[g].todo \ {t}, cur |-> r]]
             /\ status' = [status EXCEPT ![r] = "none"]
             /\ hashed' = [hashed EXCEPT ![r] = FALSE]
             /\ activatedAt' = [activatedAt EXCEPT ![r] = 0]
             /\ verdict' = [verdict EXCEPT ![r] = NoClass]
    /\ UNCHANGED <<edits, sim, stored, ripe, stamp, pub, op, held>>

GcDeleteBytes_WholePackage(g) ==
    /\ gc[g].pc = "bytes"
    /\ stored' = [r \in Rev |-> {}]
    /\ gc' = [gc EXCEPT ![g] = [@ EXCEPT !.pc = "loop", !.cur = NoRev]]
    /\ UNCHANGED <<rows, sim, ripe, stamp, pub, op, held>>

GcDeleteBytes(g) ==
    /\ gc[g].pc = "bytes"
    /\ stored' = [stored EXCEPT ![gc[g].cur] = {}]
    /\ gc' = [gc EXCEPT ![g] = [@ EXCEPT !.pc = "loop", !.cur = NoRev]]
    /\ UNCHANGED <<rows, sim, ripe, stamp, pub, op, held>>

(* The loop is done, a delete is refused or fails, or the process dies. *)
GcStops(g) ==
    /\ gc[g].pc # "idle"
    /\ gc' = [gc EXCEPT ![g] = IdleGc]
    /\ UNCHANGED <<rows, sim, stored, ripe, stamp, pub, op, held>>

(* The clock passes GC_MIN_AGE_MS for the next revision, perhaps while it   *)
(* is still being published: nothing below needs the grace to be long.      *)
Ripen ==
    /\ ripe < counter
    /\ ripe' = ripe + 1
    /\ UNCHANGED <<rows, sim, stored, stamp, pub, op, gc, held>>

-----------------------------------------------------------------------------
(* A player loads: its config resolves the pointer and hands it URLs. *)
Load(v) ==
    /\ active # NoRev
    /\ held' = [held EXCEPT ![v] = active]
    /\ UNCHANGED <<rows, sim, stored, ripe, stamp, pub, op, gc>>

(* The publication gate of /sim-public/*: a key whose revision has no row   *)
(* is taken for a path of the legacy package and served.                    *)
PassesGate(r) == status[r] = "none" \/ status[r] \in Public

Publication(p) ==
    \/ ReadPointer(p) \/ ReadBase(p) \/ CreateDraft(p) \/ BeginUpload(p)
    \/ WriteFile(p) \/ UploadFails(p) \/ FinishUpload(p) \/ ReadBack(p)
    \/ WriteManifest(p) \/ PassValidation(p) \/ AbortBeforeActivation(p)
    \/ StartActivation(p) \/ CommitActivation(p) \/ ActivationRollsBack(p)
    \/ MarkFailed(p) \/ Abandon(p)

Rollback(o) ==
    \/ OpReadPointer(o) \/ OpChooseTarget(o) \/ OpStartActivation(o)
    \/ OpCommit(o) \/ OpGivesUp(o)

Collection(g) ==
    \/ GcReadRows(g) \/ GcSkip(g) \/ GcDeleteRow(g) \/ GcDeleteBytes(g)
    \/ GcStops(g)

Next ==
    \/ \E p \in Publisher : Publication(p)
    \/ \E o \in Operator : Rollback(o)
    \/ \E g \in Collector : Collection(g)
    \/ \E r \in Rev, c \in Class : RecordCanary(r, c)
    \/ \E c \in Class : CanaryLegacyPackage(c)
    \/ \E v \in Viewer : Load(v)
    \/ Ripen

Spec == Init /\ [][Next]_vars

-----------------------------------------------------------------------------
PubPc == {"idle", "pointed", "planned", "drafted", "uploading", "validating",
          "verified", "manifested", "staged", "activating", "failing"}

PubType == [pc : PubPc, base : Rev \cup {NoRev}, rev : Rev \cup {NoRev},
            sent : SUBSET File, at : Nat,
            from : {"none", "uploading", "validating", "canary_passed"}]
OpType == [pc : {"idle", "pointed", "chosen", "activating"},
           expected : Rev \cup {NoRev}, target : Rev \cup {NoRev}, at : Nat]
GcType == [pc : {"idle", "loop", "bytes"}, todo : SUBSET (Rev \X (Status \ {"none"})),
           cur : Rev \cup {NoRev}]

(* Every variable holds a value of its type. *)
TypeOK ==
    /\ status \in [Rev -> Status]
    /\ hashed \in [Rev -> BOOLEAN]
    /\ activatedAt \in [Rev -> Nat]
    /\ verdict \in [Rev -> Class \cup {NoClass}]
    /\ edits \in [Rev -> SUBSET Rev]
    /\ counter \in 0..MaxRevisions
    /\ active \in Rev \cup {NoRev}
    /\ shown \in Class \cup {NoClass}
    /\ stored \in [Rev -> SUBSET Object]
    /\ ripe \in 0..counter
    /\ stamp \in Nat
    /\ pub \in [Publisher -> PubType]
    /\ op \in [Operator -> OpType]
    /\ gc \in [Collector -> GcType]
    /\ held \in [Viewer -> Rev \cup {NoRev}]

(* The pointer and the status column never disagree: the row the pointer    *)
(* names is active, and no other row is (uniq_sim_revisions_active, and the *)
(* wedge markFailed describes: a pointer naming a row that is not active    *)
(* refuses every later activation).                                         *)
PointerNamesTheActiveRow ==
    \A r \in Rev : status[r] = "active" <=> r = active

(* Whatever the pointer may ever be moved to can be served: a row that      *)
(* activation accepts, or that is live, has in the store every file its     *)
(* manifest names.  gc() deletes the row before the bytes for this reason.  *)
(* The manifest itself is another matter: EligibleRevisionsHaveAManifest.   *)
EligibleRevisionsAreWhole ==
    \A r \in Rev : status[r] \in ActivatableFrom \cup {"active"} =>
                       hashed[r] /\ File \subseteq stored[r]

(* The verdict the player reads off the simulations row is the verdict of   *)
(* the very bytes it is served.                                             *)
ShownVerdictIsOfServedBytes ==
    active # NoRev => shown = verdict[active]

(* The bytes of a revision that viewers may hold URLs into never change     *)
(* while it stays published: URLs under it are cached for a year.           *)
PublishedBytesAreFrozen ==
    [][\A r \in Rev : status[r] \in Public /\ status'[r] \in Public
                         => stored'[r] = stored[r]]_vars

(* No publication loses another's change: whatever replaces the live        *)
(* package by publication contains everything the replaced package did.     *)
NoPublicationIsLost ==
    [][\A r \in Rev : (active' = r /\ active \notin {r, NoRev} /\ status[r] = "canary_passed")
                         => edits[active] \subseteq edits[r]]_vars

(* A URL handed to a player is never refused by the publication gate: that  *)
(* would turn a session that is already running into 404s.                  *)
HeldUrlsPassTheGate ==
    \A v \in Viewer : held[v] # NoRev => PassesGate(held[v])

(* A collection never takes the way back: once there is a revision besides  *)
(* the live one to roll back to, there always is.                           *)
RollbackStaysPossible ==
    [][Cardinality(RetainedRevs) >= 2 => Cardinality(RetainedRevs') >= 2]_vars

(* The promise of the revision scheme, as an implementation of the register:*)
(* a package is kept while its row is retained and its files are all there, *)
(* and an id is spent once its row has failed or is gone.                   *)
Register == INSTANCE PackageRegister WITH
    Package <- Rev, None <- NoRev, live <- active,
    kept <- {r \in Rev : status[r] \in Retained /\ File \subseteq stored[r]},
    spent <- {r \in 1..counter : status[r] \in {"failed", "none"}}

ImplementsRegister == Register!Spec

-----------------------------------------------------------------------------
(* What the documentation says and the code does not keep. *)

(* "the active revision always has the newest activated_at" (gc()). *)
ActiveIsNewest ==
    active # NoRev => active \in Newest(1)

(* validate() says of itself: "write manifest.json, and move the revision to*)
(* `canary_passed`", and its test finds manifest.json in the store by then. *)
(* Nothing reads the manifest back, so a package can be served without one, *)
(* and then nothing can be derived from it: ReadBase stops.                 *)
EligibleRevisionsHaveAManifest ==
    \A r \in Rev : status[r] \in ActivatableFrom \cup {"active"} => Manifest \in stored[r]

=============================================================================
