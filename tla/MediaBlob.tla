----------------------------- MODULE MediaBlob -----------------------------
(***************************************************************************)
(* One content of the shared media store: MediaBlobStore.claimBlob and its *)
(* callers (claimUploadedMedia, SimulationImportService and the project    *)
(* duplicator) against blobSweeper.sweepOrphanBlobs.                       *)
(*                                                                         *)
(* The unique index on (sha256, byte_size) allows one media_blobs row per  *)
(* content and every key is derived from the content, so contents do not   *)
(* interact and one is enough.  Each action is one statement or one        *)
(* storage call of a request handler or of a sweep in some API process.    *)
(***************************************************************************)
EXTENDS Naturals, FiniteSets

CONSTANTS
    Client,      \* request handlers, each the writer of one media row
    Sweeper,     \* API processes, each with its own sweep timer
    Ext,         \* the extensions the same bytes are uploaded under
    MaxBlobs     \* bound: media_blobs rows ever inserted

ASSUME MaxBlobsAssumption == MaxBlobs \in Nat
ASSUME ProcessAssumption == Client \cap Sweeper = {}

(* blobStorageKey, and the key claimBlob derives when it declines the candidate. *)
Plain(ext) == <<ext, "plain">>
Sized(ext) == <<ext, "sized">>
Key == Ext \X {"plain", "sized"}

NoId == 0
Id == 1..MaxBlobs
NoKey == <<>>

VARIABLES
    blob,      \* the media_blobs row, or NoBlob
    nextId,
    objects,   \* the keys the object store has
    media,     \* the media row (or sim_files row) each client has written
    claim,     \* the clients' local state
    sweep,     \* the sweeps' local state
    young      \* the processes under way since orphaned_at was set

vars == <<blob, nextId, objects, media, claim, sweep, young>>

NoBlob == [id |-> NoId, key |-> NoKey, mark |-> "none"]
NoRow == [id |-> NoId, key |-> NoKey]
IdleClaim == [pc |-> "idle", id |-> NoId, key |-> NoKey, put |-> NoKey]
IdleSweep == [pc |-> "idle", saw |-> {}, old |-> FALSE, id |-> NoId, key |-> NoKey]

Init ==
    /\ blob = NoBlob /\ nextId = 1
    /\ objects = {}
    /\ media = [c \in Client |-> NoRow]
    /\ claim = [c \in Client |-> IdleClaim]
    /\ sweep = [s \in Sweeper |-> IdleSweep]
    /\ young = {}

Referenced(id) == \E c \in Client : media[c].id = id

InFlight ==
    {c \in Client : claim[c].pc # "idle"} \cup {s \in Sweeper : sweep[s].pc # "idle"}

-----------------------------------------------------------------------------
(* claimBlob and its caller. *)

Ends(p) == young' = young \ {p}
Continue(c, rec) == claim' = [claim EXCEPT ![c] = rec] /\ UNCHANGED young
Finish(c) == claim' = [claim EXCEPT ![c] = IdleClaim] /\ Ends(c)

Lookup_ReservesRow(c, ext) ==
    /\ claim[c].pc = "idle" /\ media[c] = NoRow
    /\ IF blob = NoBlob /\ nextId <= MaxBlobs
       THEN /\ blob' = [id |-> nextId, key |-> Plain(ext), mark |-> "none"]
            /\ nextId' = nextId + 1
            /\ Continue(c, [IdleClaim EXCEPT !.pc = "upload", !.put = Plain(ext)])
       ELSE /\ Continue(c, [pc |-> "probe", id |-> blob.id, key |-> blob.key, put |-> Sized(ext)])
            /\ UNCHANGED <<blob, nextId>>
    /\ UNCHANGED <<objects, media, sweep>>

(* Is it already here?  The lookup is by content, whatever the extension. *)
Lookup(c, ext) ==
    /\ claim[c].pc = "idle" /\ media[c] = NoRow
    /\ Continue(c, IF blob = NoBlob
                   THEN [IdleClaim EXCEPT !.pc = "upload", !.put = Plain(ext)]
                   ELSE [pc |-> "probe", id |-> blob.id, key |-> blob.key, put |-> Sized(ext)])
    /\ UNCHANGED <<blob, nextId, objects, media, sweep>>

(* judgeReuse: digest and length agree by the lookup, so the object decides. *)
Reusable(key) == key \in objects

(* A probe that fails counts as absent: the candidate is declined. *)
Probe(c) ==
    /\ claim[c].pc = "probe"
    /\ \/ Reusable(claim[c].key) /\ Continue(c, [claim[c] EXCEPT !.pc = "confirm"])
       \/ Continue(c, [claim[c] EXCEPT !.pc = "upload"])
    /\ UNCHANGED <<blob, nextId, objects, media, sweep>>

(* The reused row is unmarked; this update is never fatal. *)
Confirm(c) ==
    /\ claim[c].pc = "confirm"
    /\ claim' = [claim EXCEPT ![c].pc = "claimed"]
    /\ \/ /\ blob.id = claim[c].id
          /\ blob' = [blob EXCEPT !.mark = "none"] /\ young' = {}
       \/ UNCHANGED <<blob, young>>
    /\ UNCHANGED <<nextId, objects, media, sweep>>

(* Bytes first ... *)
Upload(c) ==
    /\ claim[c].pc = "upload"
    /\ objects' = objects \cup {claim[c].put}
    /\ Continue(c, [claim[c] EXCEPT !.pc = "insert"])
    /\ UNCHANGED <<blob, nextId, media, sweep>>

(* ... the row second: ON CONFLICT DO NOTHING on the identity. *)
Insert(c) ==
    /\ claim[c].pc = "insert"
    /\ \/ /\ blob = NoBlob /\ nextId <= MaxBlobs
          /\ blob' = [id |-> nextId, key |-> claim[c].put, mark |-> "none"]
          /\ nextId' = nextId + 1
       \/ blob # NoBlob /\ UNCHANGED <<blob, nextId>>
    /\ Continue(c, [claim[c] EXCEPT !.pc = "reread"])
    /\ UNCHANGED <<objects, media, sweep>>

Reread_TrustsInsert(c) ==
    /\ claim[c].pc = "reread"
    /\ Continue(c, [claim[c] EXCEPT !.pc = "claimed", !.id = blob.id, !.key = blob.key])
    /\ UNCHANGED <<blob, nextId, objects, media, sweep>>

Reread_KeepsOwnKey(c) ==
    /\ claim[c].pc = "reread"
    /\ IF blob = NoBlob
       THEN Finish(c)
       ELSE Continue(c, [claim[c] EXCEPT !.pc = "claimed", !.id = blob.id, !.key = claim[c].put])
    /\ UNCHANGED <<blob, nextId, objects, media, sweep>>

(* The row that is there is adopted, the client's own or not; a row that is  *)
(* gone again is an error, and the caller stores the file at a key of its own. *)
Reread(c) ==
    /\ claim[c].pc = "reread"
    /\ IF blob = NoBlob
       THEN Finish(c)
       ELSE Continue(c, [claim[c] EXCEPT !.pc = "claimed", !.id = blob.id, !.key = blob.key])
    /\ UNCHANGED <<blob, nextId, objects, media, sweep>>

(* The caller writes its row; the foreign key refuses a blob that is gone. *)
WriteRow(c) ==
    /\ claim[c].pc = "claimed"
    /\ media' = [media EXCEPT ![c] = IF blob.id = claim[c].id
                                     THEN [id |-> claim[c].id, key |-> claim[c].key]
                                     ELSE NoRow]
    /\ Finish(c)
    /\ UNCHANGED <<blob, nextId, objects, sweep>>

(* ProjectDuplicationService copies the reference of another row. *)
Snapshot(c, d) ==
    /\ claim[c].pc = "idle" /\ media[c] = NoRow /\ media[d] # NoRow
    /\ Continue(c, [IdleClaim EXCEPT !.pc = "claimed", !.id = media[d].id, !.key = media[d].key])
    /\ UNCHANGED <<blob, nextId, objects, media, sweep>>

(* A failed upload may have stored the object; so may a request that dies. *)
ClaimDies(c) ==
    /\ claim[c].pc # "idle"
    /\ objects' \in {objects} \cup
            (IF claim[c].pc = "upload" THEN {objects \cup {claim[c].put}} ELSE {})
    /\ Finish(c)
    /\ UNCHANGED <<blob, nextId, media, sweep>>

(* The row is deleted, by its handler or by the cascade of its project.      *)
(* deleteWithFallback refuses the key: the bytes stay.                       *)
DeleteRow(c) ==
    /\ claim[c].pc = "idle" /\ media[c] # NoRow
    /\ media' = [media EXCEPT ![c] = NoRow]
    /\ UNCHANGED <<blob, nextId, objects, claim, sweep, young>>

-----------------------------------------------------------------------------
(* sweepOrphanBlobs *)

SweepTo(s, rec) == sweep' = [sweep EXCEPT ![s] = rec]
SweepEnds(s) == SweepTo(s, IdleSweep) /\ Ends(s)

(* The pass takes its time (now) and its references (referenceCounts).  A    *)
(* mark that is not old enough by that time is not old enough for this pass. *)
SweepReadsRefs(s) ==
    /\ sweep[s].pc = "idle"
    /\ SweepTo(s, [IdleSweep EXCEPT !.pc = "scan", !.saw = {i \in Id : Referenced(i)},
                                    !.old = (blob.mark = "ripe")])
    /\ UNCHANGED <<blob, nextId, objects, media, claim, young>>

(* Pass 1: the row, compared with the references read before it. *)
Judge_MarksAgain(s) ==
    IF blob.id \in sweep[s].saw /\ blob.mark # "none" THEN "unmark"
    ELSE IF blob # NoBlob /\ blob.id \notin sweep[s].saw /\ blob.mark # "ripe" THEN "mark"
    ELSE "due"

Judge_NeverUnmarks(s) ==
    IF blob # NoBlob /\ blob.id \notin sweep[s].saw /\ blob.mark = "none" THEN "mark"
    ELSE "due"

Judge(s) ==
    IF blob.id \in sweep[s].saw /\ blob.mark # "none" THEN "unmark"
    ELSE IF blob # NoBlob /\ blob.id \notin sweep[s].saw /\ blob.mark = "none" THEN "mark"
    ELSE "due"

SweepScans(s) ==
    /\ sweep[s].pc = "scan"
    /\ SweepTo(s, [sweep[s] EXCEPT !.id = blob.id, !.pc = Judge(s)])
    /\ UNCHANGED <<blob, nextId, objects, media, claim, young>>

SweepUnmarks(s) ==
    /\ sweep[s].pc = "unmark"
    /\ IF blob.id = sweep[s].id
       THEN blob' = [blob EXCEPT !.mark = "none"] /\ young' = {}
       ELSE UNCHANGED <<blob, young>>
    /\ SweepTo(s, [sweep[s] EXCEPT !.pc = "due"])
    /\ UNCHANGED <<nextId, objects, media, claim>>

SweepMarks(s) ==
    /\ sweep[s].pc = "mark"
    /\ IF blob.id = sweep[s].id
       THEN blob' = [blob EXCEPT !.mark = "fresh"] /\ young' = InFlight
       ELSE UNCHANGED <<blob, young>>
    /\ SweepTo(s, [sweep[s] EXCEPT !.pc = "due"])
    /\ UNCHANGED <<nextId, objects, media, claim>>

(* Pass 2: what had been marked for ORPHAN_GRACE_MS when the pass began. *)
Due(s) == blob.mark = "ripe" /\ sweep[s].old

SweepReadsDue(s) ==
    /\ sweep[s].pc = "due"
    /\ IF Due(s)
       THEN SweepTo(s, [sweep[s] EXCEPT !.pc = "bytes", !.id = blob.id, !.key = blob.key]) /\ UNCHANGED young
       ELSE SweepEnds(s)
    /\ UNCHANGED <<blob, nextId, objects, media, claim>>

SweepDeletesBytes(s) ==
    /\ sweep[s].pc = "bytes"
    /\ objects' = objects \ {sweep[s].key}
    /\ SweepTo(s, [sweep[s] EXCEPT !.pc = "row"])
    /\ UNCHANGED <<blob, nextId, media, claim, young>>

(* The foreign keys are the final word. *)
SweepDeletesRow(s) ==
    /\ sweep[s].pc = "row"
    /\ IF blob.id = sweep[s].id /\ ~Referenced(blob.id)
       THEN blob' = NoBlob
       ELSE UNCHANGED blob
    /\ SweepEnds(s)
    /\ UNCHANGED <<nextId, objects, media, claim>>

(* A statement or storage call that throws, or the process stopping. *)
SweepDies(s) ==
    /\ sweep[s].pc # "idle"
    /\ SweepEnds(s)
    /\ UNCHANGED <<blob, nextId, objects, media, claim>>

(* The mark reaches ORPHAN_GRACE_MS.  No request and no sweep takes a day,   *)
(* so what was under way when the mark was set has ended.                    *)
Ripen ==
    /\ blob.mark = "fresh" /\ young = {}
    /\ blob' = [blob EXCEPT !.mark = "ripe"]
    /\ UNCHANGED <<nextId, objects, media, claim, sweep, young>>

-----------------------------------------------------------------------------
ClaimStep(c) ==
    \/ \E ext \in Ext : Lookup(c, ext)
    \/ Probe(c) \/ Confirm(c) \/ Upload(c) \/ Insert(c) \/ Reread(c) \/ WriteRow(c)
    \/ \E d \in Client : Snapshot(c, d)
    \/ ClaimDies(c) \/ DeleteRow(c)

SweepStep(s) ==
    \/ SweepReadsRefs(s) \/ SweepScans(s) \/ SweepUnmarks(s) \/ SweepMarks(s)
    \/ SweepReadsDue(s) \/ SweepDeletesBytes(s) \/ SweepDeletesRow(s)

Next ==
    \/ \E c \in Client : ClaimStep(c)
    \/ \E s \in Sweeper : SweepStep(s) \/ SweepDies(s)
    \/ Ripen

Spec == Init /\ [][Next]_vars

(* setInterval keeps starting passes and a pass that is not interrupted goes *)
(* on; an interrupted one is tried again, and is not interrupted for ever at *)
(* the same statement.  Time passes.                                         *)
SweepGoesOn(s) ==
    /\ SF_vars(SweepReadsRefs(s)) /\ SF_vars(SweepScans(s))
    /\ SF_vars(SweepUnmarks(s)) /\ SF_vars(SweepMarks(s))
    /\ SF_vars(SweepReadsDue(s)) /\ SF_vars(SweepDeletesBytes(s))
    /\ SF_vars(SweepDeletesRow(s))

SweepsGoOn == \A s \in Sweeper : SweepGoesOn(s)

Fairness == WF_vars(Ripen) /\ SweepsGoOn

FairSpec == Spec /\ Fairness

-----------------------------------------------------------------------------
(* Every variable has its type; in particular a mark has an age only while  *)
(* there is a row to carry it, and a claim that succeeded names a blob.     *)
TypeOK ==
    /\ blob \in {NoBlob} \cup [id : Id, key : Key, mark : {"none", "fresh", "ripe"}]
    /\ nextId \in 1..(MaxBlobs + 1)
    /\ objects \subseteq Key
    /\ media \in [Client -> {NoRow} \cup [id : Id, key : Key]]
    /\ claim \in [Client -> [pc : {"idle", "probe", "confirm", "upload", "insert", "reread", "claimed"},
                             id : {NoId} \cup Id, key : {NoKey} \cup Key, put : {NoKey} \cup Key]]
    /\ \A c \in Client : claim[c].pc = "claimed" => claim[c].id \in Id
    /\ sweep \in [Sweeper -> [pc : {"idle", "scan", "unmark", "mark", "due", "bytes", "row"},
                              saw : SUBSET Id, old : BOOLEAN, id : {NoId} \cup Id, key : {NoKey} \cup Key]]
    /\ young \subseteq Client \cup Sweeper

(* What a media row names is in the store, beside any number of sweeps: the  *)
(* "safe to run concurrently with anything" of sweepOrphanBlobs.             *)
MediaHaveBytes == \A c \in Client : media[c] # NoRow => media[c].key \in objects

(* The ordering argument at the head of MediaBlobStore, which is about the   *)
(* uploads alone: bytes before rows, so that whatever a media row, or a      *)
(* claim about to be written into one, names is in the store.                *)
ReferencesHaveBytes ==
    MediaHaveBytes /\ \A c \in Client : claim[c].pc = "claimed" => claim[c].key \in objects

(* A reference and its blob row agree on the key: identical bytes under two  *)
(* extensions, adopted rows and copied references included.                  *)
ReferencesAgreeWithTheRow ==
    \A c \in Client : media[c] # NoRow => media[c].id = blob.id /\ media[c].key = blob.key

(* Pass 2 needs no second look at the references: a sweep that is about to   *)
(* delete never saw a reference to that blob when its pass began.            *)
RecheckIsRedundant ==
    \A s \in Sweeper : sweep[s].pc \in {"bytes", "row"} => sweep[s].id \notin sweep[s].saw

(* A candidate that is declined is stored a second time, never referred to   *)
(* where its bytes are missing; no sweep is under way to take them just then. *)
DeclinedIsStoredAgain ==
    [][\A c \in Client :
         /\ claim[c].pc = "reread" /\ claim'[c].pc = "claimed"
         /\ claim[c].put \in {Sized(e) : e \in Ext}
         /\ \A s \in Sweeper : sweep[s].pc = "idle"
         => claim'[c].key \in objects]_vars

(* A blob that nothing refers to any more is collected, however often sweeps *)
(* are interrupted.                                                          *)
UnreferencedIsCollected ==
    <>[](\A c \in Client : media[c] = NoRow /\ claim[c].pc = "idle") => <>[](blob = NoBlob)

(* A mark is a suspicion, not a sentence: while it is referenced a marked    *)
(* blob is unmarked again.                                                   *)
MarkIsWithdrawn ==
    (blob.mark # "none" /\ Referenced(blob.id)) ~> (blob.mark = "none" \/ ~Referenced(blob.id))
=============================================================================
