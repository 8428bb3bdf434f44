-------------------------- MODULE MediaBlobProofs --------------------------
(***************************************************************************)
(* Proofs about MediaBlob, for any number of clients, sweeps, extensions   *)
(* and rows.                                                               *)
(*                                                                         *)
(* A pass compares what it reads now with ids it saw referenced when it    *)
(* began.  Ids are never given out twice, so a row that is not among them  *)
(* never will be; and a row that is among them has lost its mark to this   *)
(* pass, or bears one that is younger than this pass.                      *)
(***************************************************************************)
EXTENDS MediaBlob, TLAPS

BlobRow == [id : Id, key : Key, mark : {"none", "fresh", "ripe"}]
MediaRow == [id : Id, key : Key]

ClaimState ==
    [pc : {"idle", "probe", "confirm", "upload", "insert", "reread", "claimed"},
     id : {NoId} \cup Id, key : {NoKey} \cup Key, put : {NoKey} \cup Key]

SweepState ==
    [pc : {"idle", "scan", "unmark", "mark", "due", "bytes", "row"},
     saw : SUBSET Id, old : BOOLEAN, id : {NoId} \cup Id, key : {NoKey} \cup Key]

Types ==
    /\ blob \in {NoBlob} \cup BlobRow
    /\ nextId \in 1..(MaxBlobs + 1)
    /\ objects \subseteq Key
    /\ media \in [Client -> {NoRow} \cup MediaRow]
    /\ claim \in [Client -> ClaimState]
    /\ sweep \in [Sweeper -> SweepState]
    /\ young \subseteq Client \cup Sweeper

(* A claim that names a blob names an id that was given out, and the key of  *)
(* that row for as long as it is there.                                      *)
NamesBlob(rec) ==
    /\ rec.id \in Id /\ rec.key \in Key /\ rec.id < nextId
    /\ rec.id = blob.id => rec.key = blob.key

ClaimOK(c) ==
    /\ claim[c].pc \in {"probe", "confirm", "claimed"} => NamesBlob(claim[c])
    /\ claim[c].pc \in {"probe", "confirm", "upload", "insert", "reread"} => claim[c].put \in Key

MediaOK(c) == media[c] # NoRow => media[c].id = blob.id /\ media[c].key = blob.key

(* What a pass knows of the blob it compares, at each point.                 *)
SweepOK(s) ==
    /\ \A i \in sweep[s].saw : i < nextId
    /\ sweep[s].pc = "unmark" /\ blob.id \in sweep[s].saw => sweep[s].id = blob.id
    /\ sweep[s].pc = "mark" =>
         sweep[s].id \in Id /\ sweep[s].id \notin sweep[s].saw /\ blob.id \notin sweep[s].saw
    /\ sweep[s].pc = "due" /\ blob.id \in sweep[s].saw =>
         blob.mark = "none" \/ (blob.mark = "fresh" /\ s \in young)
    /\ sweep[s].pc \in {"bytes", "row"} => sweep[s].id \notin sweep[s].saw

IInv ==
    /\ Types
    /\ blob.id < nextId
    /\ \A c \in Client : ClaimOK(c) /\ MediaOK(c)
    /\ \A s \in Sweeper : SweepOK(s)

-----------------------------------------------------------------------------
(* What the null rows are not. *)
LEMMA Nulls ==
    /\ NoBlob.id = 0 /\ NoBlob.mark = "none" /\ NoRow.id = 0
    /\ 0 \notin Id
    /\ \A b \in BlobRow : b.id \in Id /\ b.key \in Key /\ b # NoBlob
    /\ \A m \in MediaRow : m.id \in Id /\ m.key \in Key /\ m # NoRow
<1>1. NoBlob.id = 0 /\ NoBlob.mark = "none" /\ NoRow.id = 0 /\ 0 \notin Id
    BY DEF NoBlob, NoRow, NoId, Id
<1>2. \A b \in BlobRow : b.id \in Id /\ b.key \in Key
    BY DEF BlobRow
<1>3. \A m \in MediaRow : m.id \in Id /\ m.key \in Key
    BY DEF MediaRow
<1> QED BY <1>1, <1>2, <1>3

LEMMA BlobFields ==
    ASSUME Types
    PROVE  /\ blob.id \in {0} \cup Id
           /\ blob.mark \in {"none", "fresh", "ripe"}
           /\ blob # NoBlob => blob \in BlobRow
BY Nulls DEF Types, BlobRow

LEMMA InitOK == ASSUME Init PROVE IInv
<1>1. Types
    <2>1. IdleClaim \in ClaimState
        BY DEF IdleClaim, ClaimState
    <2>2. IdleSweep \in SweepState
        BY DEF IdleSweep, SweepState
    <2> QED BY <2>1, <2>2, MaxBlobsAssumption DEF Init, Types
<1>2. blob.id < nextId
    BY DEF Init, NoBlob, NoId
<1>3. ASSUME NEW c \in Client PROVE ClaimOK(c) /\ MediaOK(c)
    BY DEF Init, ClaimOK, MediaOK, IdleClaim
<1>4. ASSUME NEW s \in Sweeper PROVE SweepOK(s)
    BY DEF Init, SweepOK, IdleSweep
<1> QED BY <1>1, <1>2, <1>3, <1>4 DEF IInv

-----------------------------------------------------------------------------
(* The kinds of things a step does to the row. *)
SameName == blob'.id = blob.id /\ blob'.key = blob.key
Unmarked == SameName /\ blob'.mark = "none"
Marked == SameName /\ blob'.mark = "fresh" /\ young' = InFlight
Replaced == blob'.id = 0 \/ blob'.id = nextId

LEMMA SweepStays ==
    ASSUME IInv, nextId' \in Nat, nextId <= nextId',
           NEW s \in Sweeper, sweep'[s] = sweep[s],
           \/ blob' = blob /\ (s \in young => s \in young')
           \/ Unmarked
           \/ Marked
           \/ Replaced
    PROVE  SweepOK(s)'
<1>1. nextId \in Nat /\ SweepOK(s) /\ sweep[s].saw \in SUBSET Id
    BY MaxBlobsAssumption DEF IInv, Types, SweepState
<1>2. sweep[s].pc = "due" => s \in InFlight
    BY DEF InFlight
<1>3. CASE Replaced
    <2>1. blob'.id \notin sweep[s].saw
        BY <1>1, <1>3 DEF Replaced, SweepOK, Id
    <2> QED BY <1>1, <2>1 DEF SweepOK, Id
<1>4. CASE blob' = blob /\ (s \in young => s \in young')
    BY <1>1, <1>4 DEF SweepOK, Id
<1>5. CASE Unmarked
    BY <1>1, <1>5 DEF SweepOK, Unmarked, SameName, Id
<1>6. CASE Marked
    BY <1>1, <1>2, <1>6 DEF SweepOK, Marked, SameName, Id
<1> QED BY <1>3, <1>4, <1>5, <1>6

LEMMA ClaimStays ==
    ASSUME IInv, nextId' \in Nat, nextId <= nextId',
           NEW c \in Client, claim'[c] = claim[c], SameName \/ Replaced
    PROVE  ClaimOK(c)'
<1>1. nextId \in Nat /\ ClaimOK(c)
    BY MaxBlobsAssumption DEF IInv, Types
<1>2. claim[c].pc \in {"probe", "confirm", "claimed"} =>
        claim[c].id \in Id /\ claim[c].id < nextId /\ claim[c].id # 0
    BY <1>1, Nulls DEF ClaimOK, NamesBlob
<1> QED BY <1>1, <1>2 DEF ClaimOK, NamesBlob, SameName, Replaced, Id

(* Every client but the one that steps. *)
Others(c) == claim' \in [Client -> ClaimState] /\ \A d \in Client \ {c} : claim'[d] = claim[d]
OtherSweeps(s) == sweep' \in [Sweeper -> SweepState] /\ \A t \in Sweeper \ {s} : sweep'[t] = sweep[t]

LEMMA ContinueFacts ==
    ASSUME Types, NEW c \in Client, NEW rec \in ClaimState, Continue(c, rec)
    PROVE  Others(c) /\ claim'[c] = rec /\ young' = young
BY DEF Types, Continue, Others

LEMMA FinishFacts ==
    ASSUME Types, NEW c \in Client, Finish(c)
    PROVE  /\ Others(c) /\ claim'[c] = IdleClaim
           /\ young' \subseteq Client \cup Sweeper
           /\ \A s \in Sweeper : s \in young => s \in young'
<1>1. IdleClaim \in ClaimState
    BY DEF IdleClaim, ClaimState
<1> QED BY <1>1, ProcessAssumption DEF Types, Finish, Ends, Others

LEMMA SweepToFacts ==
    ASSUME Types, NEW s \in Sweeper, NEW rec \in SweepState, SweepTo(s, rec)
    PROVE  OtherSweeps(s) /\ sweep'[s] = rec
BY DEF Types, SweepTo, OtherSweeps

LEMMA SweepEndsFacts ==
    ASSUME Types, NEW s \in Sweeper, SweepEnds(s)
    PROVE  /\ OtherSweeps(s) /\ sweep'[s] = IdleSweep
           /\ young' \subseteq Client \cup Sweeper
           /\ \A t \in Sweeper \ {s} : t \in young => t \in young'
<1>1. IdleSweep \in SweepState
    BY DEF IdleSweep, SweepState
<1> QED BY <1>1, SweepToFacts DEF Types, SweepEnds, Ends

(* A client's step that leaves the row, the rows of media and the sweeps.    *)
LEMMA ClaimMoves ==
    ASSUME IInv, NEW c \in Client, Others(c), ClaimOK(c)',
           objects' \subseteq Key, young' \subseteq Client \cup Sweeper,
           \A s \in Sweeper : s \in young => s \in young',
           UNCHANGED <<blob, nextId, media, sweep>>
    PROVE  IInv'
<1>1. Types' /\ (blob.id < nextId)' /\ nextId \in Nat
    BY MaxBlobsAssumption DEF IInv, Types, Others
<1>2. ASSUME NEW d \in Client PROVE ClaimOK(d)' /\ MediaOK(d)'
    <2>1. MediaOK(d)'
        BY DEF IInv, MediaOK
    <2>2. CASE d = c
        BY <2>1, <2>2
    <2>3. CASE d # c
        <3>1. claim'[d] = claim[d] /\ SameName
            BY <2>3 DEF Others, SameName
        <3> QED BY <2>1, <3>1, <1>1, ClaimStays
    <2> QED BY <2>2, <2>3
<1>3. ASSUME NEW s \in Sweeper PROVE SweepOK(s)'
    BY <1>1, SweepStays
<1> QED BY <1>1, <1>2, <1>3 DEF IInv

(* A sweep's step that leaves the row. *)
LEMMA SweepMoves ==
    ASSUME IInv, NEW s \in Sweeper, OtherSweeps(s), SweepOK(s)',
           objects' \subseteq Key, young' \subseteq Client \cup Sweeper,
           \A t \in Sweeper \ {s} : t \in young => t \in young',
           UNCHANGED <<blob, nextId, media, claim>>
    PROVE  IInv'
<1>1. Types' /\ (blob.id < nextId)' /\ nextId \in Nat
    BY MaxBlobsAssumption DEF IInv, Types, OtherSweeps
<1>2. ASSUME NEW d \in Client PROVE ClaimOK(d)' /\ MediaOK(d)'
    <2>1. MediaOK(d)'
        BY DEF IInv, MediaOK
    <2> QED BY <2>1, <1>1, ClaimStays DEF SameName
<1>3. ASSUME NEW t \in Sweeper PROVE SweepOK(t)'
    <2>1. CASE t = s
        BY <2>1
    <2>2. CASE t # s
        BY <2>2, <1>1, SweepStays DEF OtherSweeps
    <2> QED BY <2>1, <2>2
<1> QED BY <1>1, <1>2, <1>3 DEF IInv

-----------------------------------------------------------------------------
(* The steps of clients. *)
LEMMA LookupOK ==
    ASSUME IInv, NEW c \in Client, NEW ext \in Ext, Lookup(c, ext) PROVE IInv'
<1>1. Plain(ext) \in Key /\ Sized(ext) \in Key
    BY DEF Plain, Sized, Key
<1> DEFINE rec == IF blob = NoBlob
                  THEN [IdleClaim EXCEPT !.pc = "upload", !.put = Plain(ext)]
                  ELSE [pc |-> "probe", id |-> blob.id, key |-> blob.key, put |-> Sized(ext)]
<1>2. rec \in ClaimState
    BY <1>1, BlobFields, Nulls DEF IInv, IdleClaim, ClaimState, BlobRow
<1>3. Others(c) /\ claim'[c] = rec /\ young' = young
    <2> HIDE DEF rec
    <2> QED BY <1>2, ContinueFacts DEF Lookup, IInv, rec
<1>4. UNCHANGED <<blob, nextId, objects, media, sweep>>
    BY DEF Lookup
<1>5. ClaimOK(c)'
    <2>1. CASE blob = NoBlob
        <3>1. rec.pc = "upload" /\ rec.put = Plain(ext)
            BY <2>1 DEF IdleClaim
        <3> QED BY <3>1, <1>1, <1>3 DEF ClaimOK
    <2>2. CASE blob # NoBlob
        <3>1. rec.pc = "probe" /\ rec.id = blob.id /\ rec.key = blob.key /\ rec.put = Sized(ext)
            BY <2>2
        <3>2. blob.id \in Id /\ blob.key \in Key /\ blob.id < nextId
            BY <2>2, BlobFields, Nulls DEF IInv
        <3> HIDE DEF rec
        <3> QED BY <3>1, <3>2, <1>1, <1>3, <1>4 DEF ClaimOK, NamesBlob
    <2> QED BY <2>1, <2>2
<1> HIDE DEF rec
<1> QED BY <1>3, <1>4, <1>5, ClaimMoves DEF IInv, Types

(* A client whose record goes on with another pc. *)
LEMMA NextPc ==
    ASSUME Types, NEW c \in Client,
           NEW pc \in {"confirm", "upload", "insert", "reread", "claimed"},
           claim' = [claim EXCEPT ![c] = [claim[c] EXCEPT !.pc = pc]]
    PROVE  /\ Others(c)
           /\ claim'[c].pc = pc /\ claim'[c].id = claim[c].id
           /\ claim'[c].key = claim[c].key /\ claim'[c].put = claim[c].put
<1> DEFINE rec == [claim[c] EXCEPT !.pc = pc]
<1>1. /\ rec \in ClaimState
      /\ rec.pc = pc /\ rec.id = claim[c].id /\ rec.key = claim[c].key /\ rec.put = claim[c].put
    BY DEF Types, ClaimState
<1>2. claim' = [claim EXCEPT ![c] = rec] /\ claim \in [Client -> ClaimState]
    BY DEF Types
<1> HIDE DEF rec
<1>3. Others(c) /\ claim'[c] = rec
    BY <1>1, <1>2 DEF Others
<1> QED BY <1>1, <1>3

LEMMA ProbeOK ==
    ASSUME IInv, NEW c \in Client, Probe(c) PROVE IInv'
<1>1. PICK pc \in {"confirm", "upload"} : Continue(c, [claim[c] EXCEPT !.pc = pc])
    BY DEF Probe
<1>2. /\ Others(c) /\ young' = young
      /\ claim'[c].pc = pc /\ claim'[c].id = claim[c].id
      /\ claim'[c].key = claim[c].key /\ claim'[c].put = claim[c].put
    BY <1>1, NextPc DEF IInv, Continue
<1>3. ClaimOK(c)'
    BY <1>2 DEF IInv, Probe, ClaimOK, NamesBlob
<1> QED BY <1>2, <1>3, ClaimMoves DEF IInv, Types, Probe

LEMMA UploadOK ==
    ASSUME IInv, NEW c \in Client, Upload(c) PROVE IInv'
<1>1. /\ Others(c) /\ young' = young
      /\ claim'[c].pc = "insert" /\ claim'[c].put = claim[c].put
    BY NextPc DEF IInv, Upload, Continue
<1>2. claim[c].put \in Key
    BY DEF IInv, Upload, ClaimOK
<1>3. ClaimOK(c)' /\ objects' \subseteq Key
    BY <1>1, <1>2 DEF IInv, Types, Upload, ClaimOK
<1> QED BY <1>1, <1>3, ClaimMoves DEF IInv, Types, Upload

LEMMA RereadOK ==
    ASSUME IInv, NEW c \in Client, Reread(c) PROVE IInv'
<1>1. CASE blob = NoBlob
    <2>1. Finish(c)
        BY <1>1 DEF Reread
    <2>2. ClaimOK(c)'
        BY <2>1, FinishFacts DEF IInv, ClaimOK, IdleClaim
    <2> QED BY <2>1, <2>2, FinishFacts, ClaimMoves DEF IInv, Types, Reread
<1>2. CASE blob # NoBlob
    <2>1. blob.id \in Id /\ blob.key \in Key /\ blob.id < nextId
        BY <1>2, BlobFields, Nulls DEF IInv
    <2> DEFINE rec == [claim[c] EXCEPT !.pc = "claimed", !.id = blob.id, !.key = blob.key]
    <2>2. rec \in ClaimState /\ rec.pc = "claimed" /\ rec.id = blob.id /\ rec.key = blob.key
        BY <2>1 DEF IInv, Types, ClaimState
    <2>3. Continue(c, rec)
        BY <1>2 DEF Reread
    <2> HIDE DEF rec
    <2>4. Others(c) /\ claim'[c] = rec /\ young' = young
        BY <2>2, <2>3, ContinueFacts DEF IInv
    <2>5. ClaimOK(c)'
        BY <2>1, <2>2, <2>4 DEF Reread, ClaimOK, NamesBlob
    <2> QED BY <2>4, <2>5, ClaimMoves DEF IInv, Types, Reread
<1> QED BY <1>1, <1>2

LEMMA SnapshotOK ==
    ASSUME IInv, NEW c \in Client, NEW d \in Client, Snapshot(c, d) PROVE IInv'
<1>1. media[d].id \in Id /\ media[d].key \in Key
    BY Nulls DEF IInv, Types, Snapshot
<1>2. media[d].id = blob.id /\ media[d].key = blob.key
    BY DEF IInv, MediaOK, Snapshot
<1> DEFINE rec == [IdleClaim EXCEPT !.pc = "claimed", !.id = media[d].id, !.key = media[d].key]
<1>3. rec \in ClaimState /\ rec.pc = "claimed" /\ rec.id = media[d].id /\ rec.key = media[d].key
    BY <1>1 DEF IdleClaim, ClaimState
<1>4. Continue(c, rec)
    BY DEF Snapshot
<1> HIDE DEF rec
<1>5. Others(c) /\ claim'[c] = rec /\ young' = young
    BY <1>3, <1>4, ContinueFacts DEF IInv
<1>6. ClaimOK(c)'
    BY <1>1, <1>2, <1>3, <1>5 DEF IInv, Snapshot, ClaimOK, NamesBlob
<1> QED BY <1>5, <1>6, ClaimMoves DEF IInv, Types, Snapshot

LEMMA ClaimDiesOK ==
    ASSUME IInv, NEW c \in Client, ClaimDies(c) PROVE IInv'
<1>1. objects' \subseteq Key
    BY DEF IInv, Types, ClaimDies, ClaimOK
<1>2. ClaimOK(c)'
    BY FinishFacts DEF IInv, ClaimDies, ClaimOK, IdleClaim
<1> QED BY <1>1, <1>2, FinishFacts, ClaimMoves DEF IInv, ClaimDies

(* Only the mark of the row changes, if anything: what the clients rely on   *)
(* stays.                                                                    *)
LEMMA MarkMoves ==
    ASSUME IInv, blob' \in {NoBlob} \cup BlobRow, Unmarked \/ Marked \/ blob' = blob,
           young' \subseteq Client \cup Sweeper, UNCHANGED <<nextId, objects, media>>
    PROVE  /\ blob'.id < nextId' /\ nextId \in Nat /\ SameName
           /\ \A c \in Client : MediaOK(c)'
           /\ \A c \in Client : claim'[c] = claim[c] => ClaimOK(c)'
<1>1. nextId \in Nat /\ SameName
    BY MaxBlobsAssumption DEF IInv, Types, Unmarked, Marked, SameName
<1>2. ASSUME NEW c \in Client PROVE MediaOK(c)'
    BY <1>1 DEF IInv, MediaOK, SameName
<1>3. ASSUME NEW c \in Client, claim'[c] = claim[c] PROVE ClaimOK(c)'
    BY <1>1, <1>3, ClaimStays
<1> QED BY <1>1, <1>2, <1>3 DEF IInv, SameName

LEMMA Remark ==
    ASSUME Types, NEW mark \in {"none", "fresh", "ripe"}, blob' = [blob EXCEPT !.mark = mark],
           blob # NoBlob \/ mark = "none"
    PROVE  blob' \in {NoBlob} \cup BlobRow /\ SameName /\ blob'.mark = mark
<1>1. CASE blob = NoBlob
    BY <1>1 DEF NoBlob, SameName
<1>2. CASE blob # NoBlob
    <2>1. blob \in BlobRow
        BY <1>2 DEF Types
    <2> QED BY <2>1 DEF BlobRow, SameName
<1> QED BY <1>1, <1>2

LEMMA ConfirmOK ==
    ASSUME IInv, NEW c \in Client, Confirm(c) PROVE IInv'
<1>1. /\ Others(c) /\ claim'[c].pc = "claimed" /\ claim'[c].id = claim[c].id
      /\ claim'[c].key = claim[c].key
    <2>1. claim' = [claim EXCEPT ![c] = [claim[c] EXCEPT !.pc = "claimed"]]
        BY DEF Confirm
    <2> QED BY <2>1, NextPc DEF IInv
<1>2. /\ blob' \in {NoBlob} \cup BlobRow /\ young' \subseteq Client \cup Sweeper
      /\ Unmarked \/ (blob' = blob /\ young' = young)
    BY Remark DEF IInv, Types, Confirm, Unmarked
<1>3. UNCHANGED <<nextId, objects, media, sweep>>
    BY DEF Confirm
<1>4. /\ blob'.id < nextId' /\ nextId \in Nat /\ SameName
      /\ \A d \in Client : MediaOK(d)'
      /\ \A d \in Client : claim'[d] = claim[d] => ClaimOK(d)'
    BY <1>2, <1>3, MarkMoves
<1>5. ClaimOK(c)'
    BY <1>1, <1>3, <1>4 DEF IInv, Confirm, ClaimOK, NamesBlob, SameName
<1>6. ASSUME NEW s \in Sweeper PROVE SweepOK(s)'
    BY <1>2, <1>3, <1>4, SweepStays
<1>7. Types'
    BY <1>1, <1>2, <1>3 DEF IInv, Types, Others
<1> QED BY <1>1, <1>4, <1>5, <1>6, <1>7 DEF IInv, Others

LEMMA InsertOK ==
    ASSUME IInv, NEW c \in Client, Insert(c) PROVE IInv'
<1>1. /\ Others(c) /\ young' = young
      /\ claim'[c].pc = "reread" /\ claim'[c].put = claim[c].put
    BY NextPc DEF IInv, Insert, Continue
<1>2. claim[c].put \in Key /\ nextId \in Nat
    BY MaxBlobsAssumption DEF IInv, Types, Insert, ClaimOK
<1>3. ClaimOK(c)'
    BY <1>1, <1>2 DEF ClaimOK
<1>4. CASE blob # NoBlob /\ UNCHANGED <<blob, nextId>>
    BY <1>1, <1>3, <1>4, ClaimMoves DEF IInv, Types, Insert
<1>5. CASE /\ blob = NoBlob /\ nextId <= MaxBlobs
           /\ blob' = [id |-> nextId, key |-> claim[c].put, mark |-> "none"]
           /\ nextId' = nextId + 1
    <2>1. /\ nextId \in Id /\ nextId' \in 1..(MaxBlobs + 1) /\ nextId' \in Nat
          /\ blob'.id < nextId' /\ blob' \in BlobRow
        BY <1>2, <1>5, MaxBlobsAssumption DEF IInv, Types, Id, BlobRow
    <2>2. UNCHANGED <<objects, media, sweep>>
        BY DEF Insert
    <2>3. Replaced /\ nextId <= nextId'
        BY <1>2, <1>5 DEF Replaced
    <2>4. ASSUME NEW d \in Client PROVE MediaOK(d)'
        <3>1. media[d] = NoRow
            BY <1>5, Nulls DEF IInv, Types, MediaOK
        <3> QED BY <3>1, <2>2 DEF MediaOK
    <2>5. ASSUME NEW d \in Client \ {c} PROVE ClaimOK(d)'
        BY <1>1, <2>1, <2>3, ClaimStays DEF Others
    <2>6. ASSUME NEW s \in Sweeper PROVE SweepOK(s)'
        BY <2>1, <2>2, <2>3, SweepStays
    <2>7. Types'
        BY <1>1, <2>1, <2>2 DEF IInv, Types, Others
    <2> QED BY <1>3, <2>1, <2>4, <2>5, <2>6, <2>7 DEF IInv
<1> QED BY <1>4, <1>5 DEF Insert

LEMMA WriteRowOK ==
    ASSUME IInv, NEW c \in Client, WriteRow(c) PROVE IInv'
<1>1. /\ Others(c) /\ claim'[c] = IdleClaim /\ young' \subseteq Client \cup Sweeper
      /\ \A s \in Sweeper : s \in young => s \in young'
    BY FinishFacts DEF IInv, WriteRow
<1>2. UNCHANGED <<blob, nextId, objects, sweep>> /\ nextId \in Nat
    BY MaxBlobsAssumption DEF IInv, Types, WriteRow
<1>3. NamesBlob(claim[c])
    BY DEF IInv, WriteRow, ClaimOK
<1> DEFINE new == IF blob.id = claim[c].id THEN [id |-> claim[c].id, key |-> claim[c].key]
                  ELSE NoRow
<1>4. new \in {NoRow} \cup MediaRow /\ (new # NoRow => new.id = blob.id /\ new.key = blob.key)
    BY <1>3 DEF NamesBlob, MediaRow
<1>5. media' = [media EXCEPT ![c] = new]
    BY DEF WriteRow
<1> HIDE DEF new
<1>6. Types' /\ (blob.id < nextId)'
    BY <1>1, <1>2, <1>4, <1>5 DEF IInv, Types, Others
<1>7. ASSUME NEW d \in Client PROVE ClaimOK(d)' /\ MediaOK(d)'
    <2>1. MediaOK(d)'
        BY <1>2, <1>4, <1>5 DEF IInv, Types, MediaOK
    <2>2. ClaimOK(d)'
        <3>1. CASE d = c
            BY <3>1, <1>1 DEF ClaimOK, IdleClaim
        <3>2. CASE d # c
            BY <3>2, <1>1, <1>2, ClaimStays DEF Others, SameName
        <3> QED BY <3>1, <3>2
    <2> QED BY <2>1, <2>2
<1>8. ASSUME NEW s \in Sweeper PROVE SweepOK(s)'
    BY <1>1, <1>2, SweepStays
<1> QED BY <1>6, <1>7, <1>8 DEF IInv

LEMMA DeleteRowOK ==
    ASSUME IInv, NEW c \in Client, DeleteRow(c) PROVE IInv'
<1>1. UNCHANGED <<blob, nextId, objects, claim, sweep, young>> /\ nextId \in Nat
    BY MaxBlobsAssumption DEF IInv, Types, DeleteRow
<1>2. media' = [media EXCEPT ![c] = NoRow]
    BY DEF DeleteRow
<1>3. Types' /\ (blob.id < nextId)'
    BY <1>1, <1>2 DEF IInv, Types
<1>4. ASSUME NEW d \in Client PROVE ClaimOK(d)' /\ MediaOK(d)'
    <2>1. MediaOK(d)'
        BY <1>1, <1>2 DEF IInv, Types, MediaOK
    <2> QED BY <2>1, <1>1, ClaimStays DEF SameName
<1>5. ASSUME NEW s \in Sweeper PROVE SweepOK(s)'
    BY <1>1, SweepStays
<1> QED BY <1>3, <1>4, <1>5 DEF IInv

-----------------------------------------------------------------------------
(* The steps of sweeps. *)
LEMMA ReadsRefsOK ==
    ASSUME IInv, NEW s \in Sweeper, SweepReadsRefs(s) PROVE IInv'
<1> DEFINE rec == [IdleSweep EXCEPT !.pc = "scan", !.saw = {i \in Id : Referenced(i)},
                                    !.old = (blob.mark = "ripe")]
<1>1. rec \in SweepState /\ rec.pc = "scan" /\ rec.saw = {i \in Id : Referenced(i)}
    BY DEF IdleSweep, SweepState
<1>2. SweepTo(s, rec) /\ UNCHANGED <<blob, nextId, objects, media, claim, young>>
    BY DEF SweepReadsRefs
<1> HIDE DEF rec
<1>3. OtherSweeps(s) /\ sweep'[s] = rec
    BY <1>1, <1>2, SweepToFacts DEF IInv
<1>4. \A i \in rec.saw : i < nextId
    BY <1>1, Nulls DEF IInv, Types, Referenced, MediaOK
<1>5. SweepOK(s)'
    BY <1>1, <1>2, <1>3, <1>4 DEF SweepOK
<1> QED BY <1>2, <1>3, <1>5, SweepMoves DEF IInv, Types

(* A pass that goes on with what it saw. *)
LEMMA NextStage ==
    ASSUME Types, NEW s \in Sweeper, NEW rec \in SweepState,
           sweep' = [sweep EXCEPT ![s] = rec]
    PROVE  OtherSweeps(s) /\ sweep'[s] = rec
BY DEF Types, OtherSweeps

LEMMA ScansOK ==
    ASSUME IInv, NEW s \in Sweeper, SweepScans(s) PROVE IInv'
<1>1. Judge(s) \in {"unmark", "mark", "due"} /\ blob.id \in {NoId} \cup Id
    BY BlobFields DEF Judge, IInv, NoId
<1>2. UNCHANGED <<blob, nextId, objects, media, claim, young>>
    BY DEF SweepScans
<1>3. /\ OtherSweeps(s)
      /\ sweep'[s].pc = Judge(s) /\ sweep'[s].id = blob.id /\ sweep'[s].saw = sweep[s].saw
    <2> DEFINE rec == [sweep[s] EXCEPT !.id = blob.id, !.pc = Judge(s)]
    <2>1. rec \in SweepState /\ rec.pc = Judge(s) /\ rec.id = blob.id /\ rec.saw = sweep[s].saw
        BY <1>1 DEF IInv, Types, SweepState
    <2>2. sweep' = [sweep EXCEPT ![s] = rec]
        BY DEF SweepScans, SweepTo
    <2> HIDE DEF rec
    <2> QED BY <2>1, <2>2, NextStage DEF IInv
<1>4. blob # NoBlob => blob.id \in Id
    BY BlobFields, Nulls DEF IInv
<1>5. SweepOK(s)'
    <2>1. CASE blob.id \in sweep[s].saw /\ blob.mark # "none"
        BY <2>1, <1>2, <1>3 DEF IInv, SweepOK, Judge
    <2>2. CASE blob # NoBlob /\ blob.id \notin sweep[s].saw /\ blob.mark = "none"
        BY <2>2, <1>2, <1>3, <1>4 DEF IInv, SweepOK, Judge
    <2>3. CASE /\ ~(blob.id \in sweep[s].saw /\ blob.mark # "none")
               /\ ~(blob # NoBlob /\ blob.id \notin sweep[s].saw /\ blob.mark = "none")
        BY <2>3, <1>2, <1>3 DEF IInv, SweepOK, Judge
    <2> QED BY <2>1, <2>2, <2>3
<1> QED BY <1>2, <1>3, <1>5, SweepMoves DEF IInv, Types

(* A sweep's step that moves at most the mark of the row. *)
LEMMA SweepRemarks ==
    ASSUME IInv, NEW s \in Sweeper, OtherSweeps(s), SweepOK(s)',
           blob' \in {NoBlob} \cup BlobRow, young' \subseteq Client \cup Sweeper,
           Unmarked \/ Marked \/ (blob' = blob /\ young' = young),
           UNCHANGED <<nextId, objects, media, claim>>
    PROVE  IInv'
<1>1. /\ blob'.id < nextId' /\ nextId \in Nat /\ SameName
      /\ \A c \in Client : MediaOK(c)'
      /\ \A c \in Client : claim'[c] = claim[c] => ClaimOK(c)'
    BY MarkMoves
<1>2. ASSUME NEW t \in Sweeper \ {s} PROVE SweepOK(t)'
    BY <1>1, SweepStays DEF OtherSweeps
<1>3. Types'
    BY DEF IInv, Types, OtherSweeps
<1> QED BY <1>1, <1>2, <1>3 DEF IInv

LEMMA UnmarksOK ==
    ASSUME IInv, NEW s \in Sweeper, SweepUnmarks(s) PROVE IInv'
<1>1. UNCHANGED <<nextId, objects, media, claim>>
    BY DEF SweepUnmarks
<1>2. /\ OtherSweeps(s)
      /\ sweep'[s].pc = "due" /\ sweep'[s].saw = sweep[s].saw
    <2> DEFINE rec == [sweep[s] EXCEPT !.pc = "due"]
    <2>1. rec \in SweepState /\ rec.pc = "due" /\ rec.saw = sweep[s].saw
        BY DEF IInv, Types, SweepState
    <2>2. sweep' = [sweep EXCEPT ![s] = rec]
        BY DEF SweepUnmarks, SweepTo
    <2> HIDE DEF rec
    <2> QED BY <2>1, <2>2, NextStage DEF IInv
<1>3. CASE blob.id = sweep[s].id
    <2>1. blob' \in {NoBlob} \cup BlobRow /\ Unmarked /\ young' = {}
        BY <1>3, Remark DEF IInv, SweepUnmarks, Unmarked
    <2>2. SweepOK(s)'
        BY <1>1, <1>2, <2>1 DEF IInv, SweepOK, Unmarked
    <2> QED BY <1>1, <1>2, <2>1, <2>2, SweepRemarks
<1>4. CASE blob.id # sweep[s].id
    <2>1. UNCHANGED <<blob, young>>
        BY <1>4 DEF SweepUnmarks
    <2>2. SweepOK(s)'
        BY <1>1, <1>2, <1>4, <2>1 DEF IInv, SweepOK, SweepUnmarks
    <2> QED BY <1>1, <1>2, <2>1, <2>2, SweepMoves DEF IInv, Types
<1> QED BY <1>3, <1>4

LEMMA MarksOK ==
    ASSUME IInv, NEW s \in Sweeper, SweepMarks(s) PROVE IInv'
<1>1. UNCHANGED <<nextId, objects, media, claim>>
    BY DEF SweepMarks
<1>2. /\ OtherSweeps(s)
      /\ sweep'[s].pc = "due" /\ sweep'[s].saw = sweep[s].saw
    <2> DEFINE rec == [sweep[s] EXCEPT !.pc = "due"]
    <2>1. rec \in SweepState /\ rec.pc = "due" /\ rec.saw = sweep[s].saw
        BY DEF IInv, Types, SweepState
    <2>2. sweep' = [sweep EXCEPT ![s] = rec]
        BY DEF SweepMarks, SweepTo
    <2> HIDE DEF rec
    <2> QED BY <2>1, <2>2, NextStage DEF IInv
<1>3. sweep[s].id \in Id /\ blob.id \notin sweep[s].saw
    BY DEF IInv, SweepOK, SweepMarks
<1>4. CASE blob.id = sweep[s].id
    <2>1. blob # NoBlob
        BY <1>3, <1>4, Nulls
    <2>2. blob' \in {NoBlob} \cup BlobRow /\ Marked
        BY <1>4, <2>1, Remark DEF IInv, SweepMarks, Marked
    <2>3. SweepOK(s)' /\ young' \subseteq Client \cup Sweeper
        BY <1>1, <1>2, <1>3, <2>2 DEF IInv, SweepOK, Marked, SameName, InFlight
    <2> QED BY <1>1, <1>2, <2>2, <2>3, SweepRemarks
<1>5. CASE blob.id # sweep[s].id
    <2>1. UNCHANGED <<blob, young>>
        BY <1>5 DEF SweepMarks
    <2>2. SweepOK(s)'
        BY <1>1, <1>2, <1>3, <2>1 DEF IInv, SweepOK
    <2> QED BY <1>1, <1>2, <2>1, <2>2, SweepMoves DEF IInv, Types
<1> QED BY <1>4, <1>5

(* A pass that ends, or is interrupted, forgets what it saw. *)
LEMMA PassEnds ==
    ASSUME IInv, NEW s \in Sweeper, SweepEnds(s), objects' \subseteq Key,
           UNCHANGED <<blob, nextId, media, claim>>
    PROVE  IInv'
<1>1. SweepOK(s)'
    BY SweepEndsFacts DEF IInv, SweepOK, IdleSweep
<1> QED BY <1>1, SweepEndsFacts, SweepMoves DEF IInv

LEMMA ReadsDueOK ==
    ASSUME IInv, NEW s \in Sweeper, SweepReadsDue(s) PROVE IInv'
<1>1. UNCHANGED <<blob, nextId, objects, media, claim>>
    BY DEF SweepReadsDue
<1>2. CASE Due(s)
    <2>1. blob # NoBlob /\ blob.id \in Id /\ blob.key \in Key /\ blob.id \notin sweep[s].saw
        BY <1>2, BlobFields, Nulls DEF IInv, SweepReadsDue, Due, SweepOK
    <2> DEFINE rec == [sweep[s] EXCEPT !.pc = "bytes", !.id = blob.id, !.key = blob.key]
    <2>2. rec \in SweepState /\ rec.pc = "bytes" /\ rec.id = blob.id /\ rec.saw = sweep[s].saw
        BY <2>1 DEF IInv, Types, SweepState
    <2>3. sweep' = [sweep EXCEPT ![s] = rec] /\ young' = young
        BY <1>2 DEF SweepReadsDue, SweepTo
    <2> HIDE DEF rec
    <2>4. OtherSweeps(s) /\ sweep'[s] = rec
        BY <2>2, <2>3, NextStage DEF IInv
    <2>5. SweepOK(s)'
        BY <1>1, <2>1, <2>2, <2>4 DEF IInv, SweepOK
    <2> QED BY <1>1, <2>3, <2>4, <2>5, SweepMoves DEF IInv, Types
<1>3. CASE ~Due(s)
    BY <1>1, <1>3, PassEnds DEF SweepReadsDue, IInv, Types
<1> QED BY <1>2, <1>3

LEMMA DeletesBytesOK ==
    ASSUME IInv, NEW s \in Sweeper, SweepDeletesBytes(s) PROVE IInv'
<1>1. UNCHANGED <<blob, nextId, media, claim, young>> /\ objects' \subseteq Key
    BY DEF SweepDeletesBytes, IInv, Types
<1> DEFINE rec == [sweep[s] EXCEPT !.pc = "row"]
<1>2. rec \in SweepState /\ rec.pc = "row" /\ rec.id = sweep[s].id /\ rec.saw = sweep[s].saw
    BY DEF IInv, Types, SweepState
<1>3. sweep' = [sweep EXCEPT ![s] = rec]
    BY DEF SweepDeletesBytes, SweepTo
<1> HIDE DEF rec
<1>4. OtherSweeps(s) /\ sweep'[s] = rec
    BY <1>2, <1>3, NextStage DEF IInv
<1>5. SweepOK(s)'
    BY <1>1, <1>2, <1>4 DEF IInv, SweepOK, SweepDeletesBytes
<1> QED BY <1>1, <1>4, <1>5, SweepMoves DEF IInv, Types

LEMMA DeletesRowOK ==
    ASSUME IInv, NEW s \in Sweeper, SweepDeletesRow(s) PROVE IInv'
<1>1. UNCHANGED <<nextId, objects, media, claim>> /\ SweepEnds(s) /\ nextId \in Nat
    BY MaxBlobsAssumption DEF SweepDeletesRow, IInv, Types
<1>2. CASE blob.id = sweep[s].id /\ ~Referenced(blob.id)
    <2>1. blob' = NoBlob /\ Replaced /\ blob'.id < nextId'
        BY <1>1, <1>2, Nulls DEF SweepDeletesRow, Replaced, IInv, Types
    <2>2. ASSUME NEW c \in Client PROVE ClaimOK(c)' /\ MediaOK(c)'
        <3>1. MediaOK(c)'
            BY <1>1, <1>2 DEF IInv, MediaOK, Referenced
        <3> QED BY <3>1, <1>1, <2>1, ClaimStays
    <2>3. ASSUME NEW t \in Sweeper PROVE SweepOK(t)'
        <3>1. CASE t = s
            BY <3>1, <1>1, SweepEndsFacts DEF IInv, SweepOK, IdleSweep
        <3>2. CASE t # s
            BY <3>2, <1>1, <2>1, SweepEndsFacts, SweepStays DEF IInv, OtherSweeps
        <3> QED BY <3>1, <3>2
    <2>4. Types'
        BY <1>1, <2>1, SweepEndsFacts DEF IInv, Types, OtherSweeps
    <2> QED BY <2>1, <2>2, <2>3, <2>4 DEF IInv
<1>3. CASE ~(blob.id = sweep[s].id /\ ~Referenced(blob.id))
    BY <1>1, <1>3, PassEnds DEF SweepDeletesRow, IInv, Types
<1> QED BY <1>2, <1>3

LEMMA RipenOK ==
    ASSUME IInv, Ripen PROVE IInv'
<1>1. UNCHANGED <<nextId, objects, media, claim, sweep, young>> /\ nextId \in Nat
    BY MaxBlobsAssumption DEF IInv, Types, Ripen
<1>2. blob # NoBlob
    BY Nulls DEF Ripen
<1>3. blob' \in {NoBlob} \cup BlobRow /\ SameName /\ blob'.mark = "ripe"
    BY <1>2, Remark DEF IInv, Ripen
<1>4. ASSUME NEW c \in Client PROVE ClaimOK(c)' /\ MediaOK(c)'
    <2>1. MediaOK(c)'
        BY <1>1, <1>3 DEF IInv, MediaOK, SameName
    <2> QED BY <2>1, <1>1, <1>3, ClaimStays
<1>5. ASSUME NEW s \in Sweeper PROVE SweepOK(s)'
    BY <1>1, <1>3 DEF IInv, SweepOK, SameName, Ripen
<1>6. Types' /\ (blob.id < nextId)'
    BY <1>1, <1>3 DEF IInv, Types, SameName
<1> QED BY <1>4, <1>5, <1>6 DEF IInv

-----------------------------------------------------------------------------
LEMMA NextOK == ASSUME IInv, [Next]_vars PROVE IInv'
<1>1. ASSUME NEW c \in Client, ClaimStep(c) PROVE IInv'
    BY <1>1, LookupOK, ProbeOK, ConfirmOK, UploadOK, InsertOK, RereadOK, WriteRowOK,
       SnapshotOK, ClaimDiesOK, DeleteRowOK DEF ClaimStep
<1>2. ASSUME NEW s \in Sweeper, SweepStep(s) PROVE IInv'
    BY <1>2, ReadsRefsOK, ScansOK, UnmarksOK, MarksOK, ReadsDueOK, DeletesBytesOK,
       DeletesRowOK DEF SweepStep
<1>3. ASSUME NEW s \in Sweeper, SweepDies(s) PROVE IInv'
    BY <1>3, PassEnds DEF SweepDies, IInv, Types
<1>4. CASE UNCHANGED vars
    <2>1. UNCHANGED <<blob, nextId, objects, media, claim, sweep, young>> /\ nextId \in Nat
        BY <1>4, MaxBlobsAssumption DEF vars, IInv, Types
    <2>2. ASSUME NEW c \in Client PROVE ClaimOK(c)' /\ MediaOK(c)'
        BY <2>1, ClaimStays DEF IInv, MediaOK, SameName
    <2>3. ASSUME NEW s \in Sweeper PROVE SweepOK(s)'
        BY <2>1, SweepStays
    <2> QED BY <2>1, <2>2, <2>3 DEF IInv, Types
<1> QED BY <1>1, <1>2, <1>3, <1>4, RipenOK DEF Next

LEMMA Invariance == Spec => []IInv
BY InitOK, NextOK, PTL DEF Spec

(* Every variable has its type, whatever sweeps and clients do at once: no   *)
(* mark outlives its row, and no claim succeeds without a blob.              *)
THEOREM TypeCorrect == Spec => []TypeOK
<1>1. IInv => TypeOK
    <2> SUFFICES ASSUME IInv PROVE TypeOK
        OBVIOUS
    <2>1. \A c \in Client : claim[c].pc = "claimed" => claim[c].id \in Id
        BY DEF IInv, ClaimOK, NamesBlob
    <2> QED BY <2>1 DEF IInv, Types, TypeOK, BlobRow, MediaRow, ClaimState, SweepState
<1> QED BY <1>1, Invariance, PTL

(* "The references are read once": pass 2 of sweepOrphanBlobs deletes nothing *)
(* that its pass saw referenced, however many sweeps, claims and deletions   *)
(* interleave with it and however often the row is deleted and inserted.     *)
THEOREM NothingSeenIsDeleted == Spec => []RecheckIsRedundant
<1>1. IInv => RecheckIsRedundant
    BY DEF IInv, SweepOK, RecheckIsRedundant
<1> QED BY <1>1, Invariance, PTL

(* Media rows and the blob row agree on id and key, beside any number of     *)
(* sweeps: the foreign key keeps a referenced row, and a claim never carries *)
(* a key that is not its row's.                                              *)
THEOREM ReferencesAgree == Spec => []ReferencesAgreeWithTheRow
<1>1. IInv => ReferencesAgreeWithTheRow
    BY DEF IInv, MediaOK, ReferencesAgreeWithTheRow
<1> QED BY <1>1, Invariance, PTL

-----------------------------------------------------------------------------
(* Without sweeps, what may be referred to has bytes at each point.          *)
BytesOK ==
    /\ blob # NoBlob => blob.key \in objects
    /\ \A c \in Client :
         /\ claim[c].pc \in {"confirm", "claimed"} => claim[c].key \in objects
         /\ claim[c].pc = "insert" => claim[c].put \in objects
         /\ media[c] # NoRow => media[c].key \in objects

(* A client's step that leaves the row and the rows of media.                *)
LEMMA BytesMove ==
    ASSUME BytesOK, NEW c \in Client, Others(c), objects \subseteq objects',
           claim'[c].pc \in {"confirm", "claimed"} => claim'[c].key \in objects',
           claim'[c].pc = "insert" => claim'[c].put \in objects',
           UNCHANGED <<blob, media>>
    PROVE  BytesOK'
BY DEF BytesOK, Others

LEMMA BytesStep ==
    ASSUME IInv, BytesOK, NEW c \in Client, ClaimStep(c)
    PROVE  BytesOK'
<1>1. ASSUME NEW ext \in Ext, Lookup(c, ext) PROVE BytesOK'
    <2> DEFINE rec == IF blob = NoBlob
                      THEN [IdleClaim EXCEPT !.pc = "upload", !.put = Plain(ext)]
                      ELSE [pc |-> "probe", id |-> blob.id, key |-> blob.key, put |-> Sized(ext)]
    <2>1. rec \in ClaimState /\ rec.pc \in {"upload", "probe"}
        BY BlobFields, Nulls DEF IInv, IdleClaim, ClaimState, BlobRow, Plain, Sized, Key
    <2>2. Continue(c, rec) /\ UNCHANGED <<blob, objects, media>>
        BY <1>1 DEF Lookup
    <2> HIDE DEF rec
    <2>3. Others(c) /\ claim'[c] = rec
        BY <2>1, <2>2, ContinueFacts DEF IInv
    <2> QED BY <2>1, <2>2, <2>3, BytesMove
<1>2. CASE Probe(c)
    <2>1. UNCHANGED <<blob, objects, media>>
        BY <1>2 DEF Probe
    <2>2. CASE Reusable(claim[c].key) /\ Continue(c, [claim[c] EXCEPT !.pc = "confirm"])
        <3>1. Others(c) /\ claim'[c].pc = "confirm" /\ claim'[c].key = claim[c].key
            BY <2>2, NextPc DEF IInv, Continue
        <3> QED BY <2>1, <2>2, <3>1, BytesMove DEF Reusable
    <2>3. CASE Continue(c, [claim[c] EXCEPT !.pc = "upload"])
        <3>1. Others(c) /\ claim'[c].pc = "upload"
            BY <2>3, NextPc DEF IInv, Continue
        <3> QED BY <2>1, <3>1, BytesMove
    <2> QED BY <1>2, <2>2, <2>3 DEF Probe
<1>3. CASE Confirm(c)
    <2>1. claim' = [claim EXCEPT ![c] = [claim[c] EXCEPT !.pc = "claimed"]]
        BY <1>3 DEF Confirm
    <2>2. Others(c) /\ claim'[c].pc = "claimed" /\ claim'[c].key = claim[c].key
        BY <2>1, NextPc DEF IInv
    <2>3. blob' # NoBlob => blob # NoBlob /\ blob'.key = blob.key
        BY <1>3, Remark DEF IInv, Confirm, NoBlob, SameName
    <2>4. UNCHANGED <<objects, media>> /\ claim[c].pc = "confirm"
        BY <1>3 DEF Confirm
    <2> QED BY <2>2, <2>3, <2>4 DEF BytesOK, Others
<1>4. CASE Upload(c)
    <2>1. Others(c) /\ claim'[c].pc = "insert" /\ claim'[c].put = claim[c].put
        BY <1>4, NextPc DEF IInv, Upload, Continue
    <2> QED BY <1>4, <2>1, BytesMove DEF Upload
<1>5. CASE Insert(c)
    <2>1. Others(c) /\ claim'[c].pc = "reread"
        BY <1>5, NextPc DEF IInv, Insert, Continue
    <2>2. UNCHANGED <<objects, media>> /\ claim[c].pc = "insert"
        BY <1>5 DEF Insert
    <2>3. blob' = blob \/ blob'.key = claim[c].put
        BY <1>5 DEF Insert
    <2> QED BY <2>1, <2>2, <2>3 DEF BytesOK, Others
<1>6. CASE Reread(c)
    <2>1. UNCHANGED <<blob, objects, media>>
        BY <1>6 DEF Reread
    <2>2. CASE blob = NoBlob
        <3>1. Others(c) /\ claim'[c].pc = "idle"
            BY <1>6, <2>2, FinishFacts DEF IInv, Reread, IdleClaim
        <3> QED BY <2>1, <3>1, BytesMove
    <2>3. CASE blob # NoBlob
        <3>1. blob.id \in Id /\ blob.key \in Key
            BY <2>3, BlobFields, Nulls DEF IInv
        <3> DEFINE rec == [claim[c] EXCEPT !.pc = "claimed", !.id = blob.id, !.key = blob.key]
        <3>2. rec \in ClaimState /\ rec.pc = "claimed" /\ rec.key = blob.key
            BY <3>1 DEF IInv, Types, ClaimState
        <3>3. Continue(c, rec)
            BY <1>6, <2>3 DEF Reread
        <3> HIDE DEF rec
        <3>4. Others(c) /\ claim'[c] = rec
            BY <3>2, <3>3, ContinueFacts DEF IInv
        <3> QED BY <2>1, <2>3, <3>2, <3>4, BytesMove DEF BytesOK
    <2> QED BY <2>2, <2>3
<1>7. CASE WriteRow(c)
    <2>1. Others(c) /\ claim'[c].pc = "idle"
        BY <1>7, FinishFacts DEF IInv, WriteRow, IdleClaim
    <2>2. UNCHANGED <<blob, objects>> /\ claim[c].pc = "claimed"
        BY <1>7 DEF WriteRow
    <2>3. media'[c] = NoRow \/ media'[c].key = claim[c].key
        BY <1>7 DEF IInv, Types, WriteRow
    <2>4. \A d \in Client \ {c} : media'[d] = media[d]
        BY <1>7 DEF IInv, Types, WriteRow
    <2> QED BY <2>1, <2>2, <2>3, <2>4 DEF BytesOK, Others
<1>8. ASSUME NEW d \in Client, Snapshot(c, d) PROVE BytesOK'
    <2>1. media[d] # NoRow /\ media[d].id \in Id /\ media[d].key \in Key
        BY <1>8, Nulls DEF IInv, Types, Snapshot
    <2> DEFINE rec == [IdleClaim EXCEPT !.pc = "claimed", !.id = media[d].id, !.key = media[d].key]
    <2>2. rec \in ClaimState /\ rec.pc = "claimed" /\ rec.key = media[d].key
        BY <2>1 DEF IdleClaim, ClaimState
    <2>3. Continue(c, rec) /\ UNCHANGED <<blob, objects, media>>
        BY <1>8 DEF Snapshot
    <2> HIDE DEF rec
    <2>4. Others(c) /\ claim'[c] = rec
        BY <2>2, <2>3, ContinueFacts DEF IInv
    <2> QED BY <2>1, <2>2, <2>3, <2>4, BytesMove DEF BytesOK
<1>9. CASE ClaimDies(c)
    <2>1. Others(c) /\ claim'[c].pc = "idle"
        BY <1>9, FinishFacts DEF IInv, ClaimDies, IdleClaim
    <2>2. objects \subseteq objects' /\ UNCHANGED <<blob, media>>
        BY <1>9 DEF ClaimDies
    <2> QED BY <2>1, <2>2, BytesMove
<1>10. CASE DeleteRow(c)
    <2>1. UNCHANGED <<blob, objects, claim>>
        BY <1>10 DEF DeleteRow
    <2>2. \A d \in Client : media'[d] = NoRow \/ media'[d] = media[d]
        BY <1>10 DEF IInv, Types, DeleteRow
    <2> QED BY <2>1, <2>2 DEF BytesOK
<1> QED BY <1>1, <1>2, <1>3, <1>4, <1>5, <1>6, <1>7, <1>8, <1>9, <1>10 DEF ClaimStep

(* The ordering argument of MediaBlobStore, for any number of uploads of one *)
(* content under any extensions: bytes before rows, so what is referred to   *)
(* is in the store, as long as nothing is swept.                             *)
THEOREM ReferencesAreStored ==
    ASSUME Sweeper = {}
    PROVE  Spec => []ReferencesHaveBytes
<1>1. Init => BytesOK
    BY DEF Init, BytesOK, IdleClaim
<1>2. ASSUME IInv, BytesOK, [Next]_vars PROVE BytesOK'
    <2>1. CASE Ripen
        <3>1. UNCHANGED <<objects, media, claim>>
            BY <2>1 DEF Ripen
        <3>2. blob' # NoBlob => blob # NoBlob /\ blob'.key = blob.key
            BY <1>2, <2>1, Nulls, Remark DEF IInv, Ripen, SameName
        <3> QED BY <1>2, <3>1, <3>2 DEF BytesOK
    <2>2. CASE UNCHANGED vars
        BY <1>2, <2>2 DEF vars, BytesOK
    <2>3. ASSUME NEW c \in Client, ClaimStep(c) PROVE BytesOK'
        BY <1>2, <2>3, BytesStep
    <2> QED BY <1>2, <2>1, <2>2, <2>3 DEF Next
<1>3. BytesOK => ReferencesHaveBytes
    BY DEF BytesOK, ReferencesHaveBytes, MediaHaveBytes
<1> QED BY <1>1, <1>2, <1>3, Invariance, PTL DEF Spec

-----------------------------------------------------------------------------
(* What a step of a pass does to the pass, the row and the processes that    *)
(* are young.                                                                *)
LEMMA ReadsRefsDoes ==
    ASSUME IInv, NEW s \in Sweeper, SweepReadsRefs(s)
    PROVE  /\ sweep[s].pc = "idle" /\ sweep'[s].pc = "scan"
           /\ sweep'[s].saw = {i \in Id : Referenced(i)}
           /\ sweep'[s].old = (blob.mark = "ripe")
           /\ UNCHANGED <<blob, young, media, claim>>
<1> DEFINE rec == [IdleSweep EXCEPT !.pc = "scan", !.saw = {i \in Id : Referenced(i)},
                                    !.old = (blob.mark = "ripe")]
<1>1. /\ rec \in SweepState /\ rec.pc = "scan" /\ rec.saw = {i \in Id : Referenced(i)}
      /\ rec.old = (blob.mark = "ripe")
    BY DEF IdleSweep, SweepState
<1>2. SweepTo(s, rec) /\ sweep[s].pc = "idle" /\ UNCHANGED <<blob, young, media, claim>>
    BY DEF SweepReadsRefs
<1> HIDE DEF rec
<1> QED BY <1>1, <1>2, SweepToFacts DEF IInv

LEMMA ScansDoes ==
    ASSUME IInv, NEW s \in Sweeper, SweepScans(s)
    PROVE  /\ sweep[s].pc = "scan" /\ sweep'[s].pc = Judge(s) /\ sweep'[s].id = blob.id
           /\ sweep'[s].saw = sweep[s].saw /\ sweep'[s].old = sweep[s].old
           /\ UNCHANGED <<blob, young, media, claim>>
<1> DEFINE rec == [sweep[s] EXCEPT !.id = blob.id, !.pc = Judge(s)]
<1>1. Judge(s) \in {"unmark", "mark", "due"} /\ blob.id \in {NoId} \cup Id
    BY BlobFields DEF Judge, IInv, NoId
<1>2. /\ rec \in SweepState /\ rec.pc = Judge(s) /\ rec.id = blob.id
      /\ rec.saw = sweep[s].saw /\ rec.old = sweep[s].old
    BY <1>1 DEF IInv, Types, SweepState
<1>3. /\ sweep' = [sweep EXCEPT ![s] = rec] /\ sweep[s].pc = "scan"
      /\ UNCHANGED <<blob, young, media, claim>>
    BY DEF SweepScans, SweepTo
<1> HIDE DEF rec
<1> QED BY <1>2, <1>3, NextStage DEF IInv

LEMMA RemarksDoes ==
    ASSUME IInv, NEW s \in Sweeper, SweepUnmarks(s) \/ SweepMarks(s)
    PROVE  /\ sweep'[s].pc = "due" /\ sweep'[s].id = sweep[s].id
           /\ sweep'[s].saw = sweep[s].saw /\ sweep'[s].old = sweep[s].old
           /\ UNCHANGED <<media, claim>>
<1> DEFINE rec == [sweep[s] EXCEPT !.pc = "due"]
<1>1. /\ rec \in SweepState /\ rec.pc = "due" /\ rec.id = sweep[s].id
      /\ rec.saw = sweep[s].saw /\ rec.old = sweep[s].old
    BY DEF IInv, Types, SweepState
<1>2. sweep' = [sweep EXCEPT ![s] = rec] /\ UNCHANGED <<media, claim>>
    BY DEF SweepUnmarks, SweepMarks, SweepTo
<1> HIDE DEF rec
<1> QED BY <1>1, <1>2, NextStage DEF IInv

LEMMA ReadsDueDoes ==
    ASSUME IInv, NEW s \in Sweeper, SweepReadsDue(s)
    PROVE  /\ sweep[s].pc = "due" /\ UNCHANGED <<blob, media, claim>>
           /\ \/ /\ Due(s) /\ sweep'[s].pc = "bytes" /\ sweep'[s].id = blob.id
                 /\ sweep'[s].saw = sweep[s].saw /\ sweep'[s].old = sweep[s].old
                 /\ young' = young
              \/ ~Due(s) /\ sweep'[s] = IdleSweep /\ young' = young \ {s}
<1>1. sweep[s].pc = "due" /\ UNCHANGED <<blob, media, claim>>
    BY DEF SweepReadsDue
<1>2. CASE Due(s)
    <2> DEFINE rec == [sweep[s] EXCEPT !.pc = "bytes", !.id = blob.id, !.key = blob.key]
    <2>1. blob.id \in Id /\ blob.key \in Key
        BY <1>2, BlobFields, Nulls DEF IInv, Due
    <2>2. /\ rec \in SweepState /\ rec.pc = "bytes" /\ rec.id = blob.id
          /\ rec.saw = sweep[s].saw /\ rec.old = sweep[s].old
        BY <2>1 DEF IInv, Types, SweepState
    <2>3. sweep' = [sweep EXCEPT ![s] = rec] /\ young' = young
        BY <1>2 DEF SweepReadsDue, SweepTo
    <2> HIDE DEF rec
    <2>4. sweep'[s] = rec
        BY <2>2, <2>3, NextStage DEF IInv
    <2> QED BY <1>1, <1>2, <2>2, <2>3, <2>4
<1>3. CASE ~Due(s)
    <2>1. SweepEnds(s)
        BY <1>3 DEF SweepReadsDue
    <2> QED BY <1>1, <1>3, <2>1, SweepEndsFacts DEF IInv, SweepEnds, Ends
<1> QED BY <1>2, <1>3

LEMMA DeletesBytesDoes ==
    ASSUME IInv, NEW s \in Sweeper, SweepDeletesBytes(s)
    PROVE  /\ sweep[s].pc = "bytes" /\ sweep'[s].pc = "row" /\ sweep'[s].id = sweep[s].id
           /\ sweep'[s].saw = sweep[s].saw /\ sweep'[s].old = sweep[s].old
           /\ UNCHANGED <<blob, young, media, claim>>
<1> DEFINE rec == [sweep[s] EXCEPT !.pc = "row"]
<1>1. /\ rec \in SweepState /\ rec.pc = "row" /\ rec.id = sweep[s].id
      /\ rec.saw = sweep[s].saw /\ rec.old = sweep[s].old
    BY DEF IInv, Types, SweepState
<1>2. /\ sweep' = [sweep EXCEPT ![s] = rec] /\ sweep[s].pc = "bytes"
      /\ UNCHANGED <<blob, young, media, claim>>
    BY DEF SweepDeletesBytes, SweepTo
<1> HIDE DEF rec
<1> QED BY <1>1, <1>2, NextStage DEF IInv

(* A pass moves by its own steps: it goes on in the order of the code, or it *)
(* is back at rest.                                                          *)
Order ==
    {<<"idle", "scan">>, <<"scan", "unmark">>, <<"scan", "mark">>, <<"scan", "due">>,
     <<"unmark", "due">>, <<"mark", "due">>, <<"due", "bytes">>, <<"bytes", "row">>}

Advances(s) == <<sweep[s].pc, sweep'[s].pc>> \in Order \/ sweep'[s] = IdleSweep

LEMMA PassAdvances ==
    ASSUME IInv, NEW s \in Sweeper, SweepStep(s)
    PROVE  Advances(s)
<1>1. CASE SweepReadsRefs(s)
    BY <1>1, ReadsRefsDoes DEF Advances, Order
<1>2. CASE SweepScans(s)
    BY <1>2, ScansDoes DEF Judge, Advances, Order
<1>3. CASE SweepUnmarks(s) \/ SweepMarks(s)
    <2>1. sweep[s].pc \in {"unmark", "mark"}
        BY <1>3 DEF SweepUnmarks, SweepMarks
    <2> QED BY <1>3, <2>1, RemarksDoes DEF Advances, Order
<1>4. CASE SweepReadsDue(s)
    BY <1>4, ReadsDueDoes DEF Advances, Order
<1>5. CASE SweepDeletesBytes(s)
    BY <1>5, DeletesBytesDoes DEF Advances, Order
<1>6. CASE SweepDeletesRow(s)
    BY <1>6, SweepEndsFacts DEF SweepDeletesRow, Advances, IInv
<1> QED BY <1>1, <1>2, <1>3, <1>4, <1>5, <1>6 DEF SweepStep

LEMMA ClaimLeavesSweeps ==
    ASSUME NEW c \in Client, ClaimStep(c) PROVE UNCHANGED sweep
BY DEF ClaimStep, Lookup, Probe, Confirm, Upload, Insert, Reread, WriteRow, Snapshot,
       ClaimDies, DeleteRow

LEMMA PassSteps ==
    ASSUME IInv, NEW s \in Sweeper, [Next]_vars
    PROVE  sweep'[s] = sweep[s] \/ SweepStep(s) \/ sweep'[s] = IdleSweep
<1>1. CASE Ripen \/ UNCHANGED vars
    BY <1>1 DEF Ripen, vars
<1>2. ASSUME NEW c \in Client, ClaimStep(c) PROVE UNCHANGED sweep
    BY <1>2, ClaimLeavesSweeps
<1>3. CASE SweepDies(s)
    BY <1>3, SweepEndsFacts DEF SweepDies, IInv
<1>4. ASSUME NEW t \in Sweeper \ {s}, SweepStep(t) \/ SweepDies(t) PROVE sweep'[s] = sweep[s]
    BY <1>4 DEF SweepStep, SweepDies, SweepReadsRefs, SweepScans, SweepUnmarks, SweepMarks,
       SweepReadsDue, SweepDeletesBytes, SweepDeletesRow, SweepEnds, SweepTo, IInv, Types
<1> QED BY <1>1, <1>2, <1>3, <1>4 DEF Next

LEMMA PassMoves ==
    ASSUME IInv, NEW s \in Sweeper, [Next]_vars
    PROVE  sweep'[s] = sweep[s] \/ Advances(s)
BY PassSteps, PassAdvances DEF Advances

(* What the fairness of a pass asks of ENABLED, which the prover does not    *)
(* expand: each statement of a pass is a guard on its pc and assignments.    *)
PassesCanGoOn(s) ==
    /\ sweep[s].pc = "idle" => ENABLED <<SweepReadsRefs(s)>>_vars
    /\ sweep[s].pc = "scan" => ENABLED <<SweepScans(s)>>_vars
    /\ sweep[s].pc = "unmark" => ENABLED <<SweepUnmarks(s)>>_vars
    /\ sweep[s].pc = "mark" => ENABLED <<SweepMarks(s)>>_vars
    /\ sweep[s].pc = "due" => ENABLED <<SweepReadsDue(s)>>_vars
    /\ sweep[s].pc = "bytes" => ENABLED <<SweepDeletesBytes(s)>>_vars
    /\ sweep[s].pc = "row" => ENABLED <<SweepDeletesRow(s)>>_vars

LEMMA SweeperGoesOn ==
    ASSUME NEW s \in Sweeper
    PROVE  FairSpec => SweepGoesOn(s)
<1>1. FairSpec => SweepsGoOn
    BY PTL DEF FairSpec, Fairness
<1>2. SweepsGoOn => SweepGoesOn(s)
    BY DEF SweepsGoOn
<1> QED BY <1>1, <1>2, PTL

(* However often passes are interrupted, there is always one that ends. *)
PassesEnd(s) == FairSpec /\ []PassesCanGoOn(s) => []<>(sweep[s].pc = "idle")

LEMMA EveryPassEnds ==
    ASSUME NEW s \in Sweeper
    PROVE  PassesEnd(s)
<1> DEFINE Idle == sweep[s].pc = "idle"
           Scan == sweep[s].pc = "scan"
           Unmark == sweep[s].pc = "unmark"
           Mark == sweep[s].pc = "mark"
           Awaits == sweep[s].pc = "due"
           Bytes == sweep[s].pc = "bytes"
           Row == sweep[s].pc = "row"
<1>1. IInv => Idle \/ Scan \/ Unmark \/ Mark \/ Awaits \/ Bytes \/ Row
    BY DEF IInv, Types, SweepState
<1>2. IInv /\ [Next]_vars
      => /\ Scan => Scan' \/ Unmark' \/ Mark' \/ Awaits' \/ Idle'
         /\ Unmark => Unmark' \/ Awaits' \/ Idle'
         /\ Mark => Mark' \/ Awaits' \/ Idle'
         /\ Awaits => Awaits' \/ Bytes' \/ Idle'
         /\ Bytes => Bytes' \/ Row' \/ Idle'
         /\ Row => Row' \/ Idle'
    BY PassMoves DEF Advances, Order, IdleSweep
<1>3. IInv /\ <<SweepScans(s)>>_vars => ~Scan'
    BY ScansDoes DEF Judge
<1>4. IInv /\ <<SweepUnmarks(s)>>_vars => Awaits'
    BY RemarksDoes
<1>5. IInv /\ <<SweepMarks(s)>>_vars => Awaits'
    BY RemarksDoes
<1>6. IInv /\ <<SweepReadsDue(s)>>_vars => ~Awaits'
    BY ReadsDueDoes DEF IdleSweep
<1>7. IInv /\ <<SweepDeletesBytes(s)>>_vars => Row'
    BY DeletesBytesDoes
<1>8. IInv /\ <<SweepDeletesRow(s)>>_vars => Idle'
    BY SweepEndsFacts DEF SweepDeletesRow, IInv, IdleSweep
<1>9. PassesCanGoOn(s)
      => /\ Scan => ENABLED <<SweepScans(s)>>_vars
         /\ Unmark => ENABLED <<SweepUnmarks(s)>>_vars
         /\ Mark => ENABLED <<SweepMarks(s)>>_vars
         /\ Awaits => ENABLED <<SweepReadsDue(s)>>_vars
         /\ Bytes => ENABLED <<SweepDeletesBytes(s)>>_vars
         /\ Row => ENABLED <<SweepDeletesRow(s)>>_vars
    BY DEF PassesCanGoOn
<1>10. Idle <=> sweep[s].pc = "idle"
    OBVIOUS
<1> HIDE DEF Idle, Scan, Unmark, Mark, Awaits, Bytes, Row
<1>12. FairSpec /\ []PassesCanGoOn(s) => [](Row => <>Idle)
    BY <1>2, <1>8, <1>9, Invariance, SweeperGoesOn, PTL DEF FairSpec, Spec, SweepGoesOn
<1>13. FairSpec /\ []PassesCanGoOn(s) => [](Bytes => <>Idle)
    BY <1>2, <1>7, <1>9, <1>12, Invariance, SweeperGoesOn, PTL DEF FairSpec, Spec, SweepGoesOn
<1>14. FairSpec /\ []PassesCanGoOn(s) => [](Awaits => <>Idle)
    BY <1>2, <1>6, <1>9, <1>13, Invariance, SweeperGoesOn, PTL DEF FairSpec, Spec, SweepGoesOn
<1>15. FairSpec /\ []PassesCanGoOn(s) => [](Mark => <>Idle)
    BY <1>2, <1>5, <1>9, <1>14, Invariance, SweeperGoesOn, PTL DEF FairSpec, Spec, SweepGoesOn
<1>16. FairSpec /\ []PassesCanGoOn(s) => [](Unmark => <>Idle)
    BY <1>2, <1>4, <1>9, <1>14, Invariance, SweeperGoesOn, PTL DEF FairSpec, Spec, SweepGoesOn
<1>17. FairSpec /\ []PassesCanGoOn(s) => [](Scan => <>Idle)
    BY <1>2, <1>3, <1>9, <1>14, <1>15, <1>16, Invariance, SweeperGoesOn, PTL
       DEF FairSpec, Spec, SweepGoesOn
<1> QED BY <1>1, <1>10, <1>12, <1>13, <1>14, <1>15, <1>16, <1>17, Invariance, PTL
        DEF FairSpec, PassesEnd

-----------------------------------------------------------------------------
(* MarkIsWithdrawn.  A marked row is changed by its mark alone, or goes.     *)
LEMMA MarkedRowStays ==
    ASSUME IInv, [Next]_vars, blob.mark # "none"
    PROVE  blob'.mark = "none" \/ blob'.id = blob.id
<1>1. blob # NoBlob
    BY Nulls
<1>2. ASSUME NEW mark \in {"none", "fresh", "ripe"}, blob' = [blob EXCEPT !.mark = mark]
      PROVE  blob'.id = blob.id
    BY <1>1, <1>2, Remark DEF IInv, SameName
<1>3. CASE Ripen \/ UNCHANGED vars
    BY <1>2, <1>3 DEF Ripen, vars
<1>4. ASSUME NEW c \in Client, ClaimStep(c) PROVE blob'.id = blob.id
    BY <1>1, <1>2, <1>4 DEF ClaimStep, Lookup, Probe, Confirm, Upload, Insert, Reread,
       WriteRow, Snapshot, ClaimDies, DeleteRow
<1>5. ASSUME NEW s \in Sweeper, SweepStep(s) \/ SweepDies(s)
      PROVE  blob'.id = blob.id \/ blob' = NoBlob
    BY <1>2, <1>5 DEF SweepStep, SweepDies, SweepReadsRefs, SweepScans, SweepUnmarks,
       SweepMarks, SweepReadsDue, SweepDeletesBytes, SweepDeletesRow
<1> QED BY <1>3, <1>4, <1>5, Nulls DEF Next

Suspected == blob.mark # "none" /\ Referenced(blob.id)

(* A pass that begins while the row is marked and referenced has seen it     *)
(* referenced, and goes on to take the mark away.                            *)
Acquits(s) ==
    \/ sweep[s].pc = "idle"
    \/ sweep[s].pc \in {"scan", "unmark"} /\ blob.id \in sweep[s].saw

LEMMA UnmarkWithdraws ==
    ASSUME IInv, NEW s \in Sweeper, Acquits(s), SweepUnmarks(s)
    PROVE  blob'.mark = "none"
<1>1. sweep[s].pc = "unmark" /\ sweep[s].id = blob.id
    BY DEF SweepUnmarks, Acquits, IInv, SweepOK
<1>2. blob' = [blob EXCEPT !.mark = "none"]
    BY <1>1 DEF SweepUnmarks
<1> QED BY <1>2, Remark DEF IInv

LEMMA StillAcquits ==
    ASSUME IInv, [Next]_vars, NEW s \in Sweeper, Suspected, Suspected', Acquits(s)
    PROVE  /\ Acquits(s)'
           /\ SweepScans(s) => sweep'[s].pc = "unmark"
<1>1. blob'.id = blob.id
    BY MarkedRowStays DEF Suspected
<1>2. ASSUME sweep'[s] = sweep[s] PROVE Acquits(s)'
    BY <1>1, <1>2 DEF Acquits
<1>3. ASSUME sweep'[s] = IdleSweep PROVE Acquits(s)'
    BY <1>3 DEF Acquits, IdleSweep
<1>4. ASSUME SweepReadsRefs(s) PROVE Acquits(s)'
    <2>1. blob.id \in Id
        BY Nulls, BlobFields DEF Suspected, IInv
    <2>2. sweep'[s].pc = "scan" /\ sweep'[s].saw = {i \in Id : Referenced(i)}
        BY <1>4, ReadsRefsDoes
    <2> QED BY <1>1, <2>1, <2>2 DEF Acquits, Suspected
<1>5. SweepScans(s) => /\ sweep'[s].pc = "unmark" /\ sweep'[s].saw = sweep[s].saw
                       /\ blob.id \in sweep[s].saw
    BY ScansDoes DEF Acquits, Suspected, Judge
<1>6. SweepStep(s) => \/ SweepReadsRefs(s) \/ SweepScans(s) \/ SweepUnmarks(s)
                      \/ sweep[s].pc \notin {"idle", "scan", "unmark"}
    BY DEF SweepStep, SweepMarks, SweepReadsDue, SweepDeletesBytes, SweepDeletesRow
<1>7. Acquits(s)'
    BY <1>1, <1>2, <1>3, <1>4, <1>5, <1>6, PassSteps, UnmarkWithdraws DEF Acquits, Suspected
<1> QED BY <1>5, <1>7

(* A mark on a row that stays referenced is taken away, by any one sweeper   *)
(* that keeps trying, whatever the requests and the other sweepers do.       *)
THEOREM MarksAreWithdrawn ==
    ASSUME NEW s \in Sweeper
    PROVE  FairSpec /\ []PassesCanGoOn(s) => MarkIsWithdrawn
<1> DEFINE Idle == sweep[s].pc = "idle"
           Scan == sweep[s].pc = "scan"
           Unmark == sweep[s].pc = "unmark"
<1>1. IInv /\ [Next]_vars /\ Suspected /\ Suspected' /\ Acquits(s) => Acquits(s)'
    BY StillAcquits
<1>2. /\ Idle => Acquits(s)
      /\ Acquits(s) => Idle \/ Scan \/ Unmark
    BY DEF Acquits
<1>3. IInv /\ <<SweepReadsRefs(s)>>_vars => Scan'
    BY ReadsRefsDoes
<1>4. IInv /\ [Next]_vars /\ Suspected /\ Suspected' /\ Acquits(s) /\ <<SweepScans(s)>>_vars
      => Unmark'
    BY StillAcquits
<1>5. IInv /\ Acquits(s) /\ <<SweepUnmarks(s)>>_vars => ~Suspected'
    BY UnmarkWithdraws DEF Suspected
<1>6. PassesCanGoOn(s)
      => /\ Idle => ENABLED <<SweepReadsRefs(s)>>_vars
         /\ Scan => ENABLED <<SweepScans(s)>>_vars
         /\ Unmark => ENABLED <<SweepUnmarks(s)>>_vars
    BY DEF PassesCanGoOn
<1>7. blob.mark # "none" /\ Referenced(blob.id) => Suspected
    BY DEF Suspected
<1>8. ~Suspected => blob.mark = "none" \/ ~Referenced(blob.id)
    BY DEF Suspected
<1>9. FairSpec /\ []PassesCanGoOn(s) => []<>Idle
    <2>1. PassesEnd(s)
        BY EveryPassEnds
    <2> QED BY <2>1, PTL DEF PassesEnd
<1> HIDE DEF Idle, Scan, Unmark
<1>10. FairSpec /\ []PassesCanGoOn(s) => (Suspected ~> ~Suspected)
    BY <1>1, <1>2, <1>3, <1>4, <1>5, <1>6, <1>9, Invariance, SweeperGoesOn, PTL
       DEF FairSpec, Spec, SweepGoesOn
<1> QED BY <1>7, <1>8, <1>10, PTL DEF MarkIsWithdrawn

-----------------------------------------------------------------------------
(* UnreferencedIsCollected.  Who is young is still under way. *)
YoungAreUnderWay == young \subseteq InFlight

(* What a step does to the processes under way. *)
LEMMA ClaimYoung ==
    ASSUME IInv, NEW c \in Client, ClaimStep(c), c \in young => claim[c].pc # "idle"
    PROVE  /\ UNCHANGED sweep /\ young' \subseteq young
           /\ \A d \in Client \ {c} : claim'[d] = claim[d]
           /\ c \in young' => claim'[c].pc # "idle"
<1>1. UNCHANGED sweep
    BY ClaimLeavesSweeps
<1>2. ASSUME Finish(c)
      PROVE  /\ young' \subseteq young /\ c \notin young'
             /\ \A d \in Client \ {c} : claim'[d] = claim[d]
    BY <1>2, FinishFacts DEF IInv, Others, Finish, Ends
<1>3. ASSUME NEW rec, rec.pc # "idle", Continue(c, rec)
      PROVE  /\ young' = young /\ claim'[c].pc # "idle"
             /\ \A d \in Client \ {c} : claim'[d] = claim[d]
    BY <1>3 DEF IInv, Types, Continue
<1>4. ASSUME NEW ext \in Ext, Lookup(c, ext)
      PROVE  \E rec : rec.pc # "idle" /\ Continue(c, rec)
    <2>1. CASE blob = NoBlob
        <3>1. Continue(c, [IdleClaim EXCEPT !.pc = "upload", !.put = Plain(ext)])
            BY <1>4, <2>1 DEF Lookup
        <3>2. [IdleClaim EXCEPT !.pc = "upload", !.put = Plain(ext)].pc = "upload"
            BY DEF IdleClaim
        <3> QED BY <3>1, <3>2
    <2>2. CASE blob # NoBlob
        <3>1. Continue(c, [pc |-> "probe", id |-> blob.id, key |-> blob.key, put |-> Sized(ext)])
            BY <1>4, <2>2 DEF Lookup
        <3> QED BY <3>1
    <2> QED BY <2>1, <2>2
<1>5. ASSUME Probe(c) \/ Upload(c) \/ Insert(c)
      PROVE  \E rec : rec.pc # "idle" /\ Continue(c, rec)
    <2>1. ASSUME NEW pc \in {"confirm", "upload", "insert", "reread"}
          PROVE  [claim[c] EXCEPT !.pc = pc].pc # "idle"
        BY DEF IInv, Types, ClaimState
    <2>2. PICK pc \in {"confirm", "upload", "insert", "reread"} :
              Continue(c, [claim[c] EXCEPT !.pc = pc])
        BY <1>5 DEF Probe, Upload, Insert
    <2> QED BY <2>1, <2>2
<1>6. ASSUME Reread(c)
      PROVE  Finish(c) \/ \E rec : rec.pc # "idle" /\ Continue(c, rec)
    <2>1. [claim[c] EXCEPT !.pc = "claimed", !.id = blob.id, !.key = blob.key].pc = "claimed"
        BY DEF IInv, Types, ClaimState
    <2> QED BY <1>6, <2>1 DEF Reread
<1>7. ASSUME NEW d \in Client, Snapshot(c, d)
      PROVE  \E rec : rec.pc # "idle" /\ Continue(c, rec)
    <2>1. [IdleClaim EXCEPT !.pc = "claimed", !.id = media[d].id, !.key = media[d].key].pc
            = "claimed"
        BY DEF IdleClaim
    <2> QED BY <1>7, <2>1 DEF Snapshot
<1>8. ASSUME Confirm(c)
      PROVE  /\ young' \subseteq young /\ claim'[c].pc # "idle"
             /\ \A d \in Client \ {c} : claim'[d] = claim[d]
    BY <1>8 DEF Confirm, IInv, Types, ClaimState
<1>9. ASSUME DeleteRow(c) PROVE UNCHANGED <<claim, young>>
    BY <1>9 DEF DeleteRow
<1>10. WriteRow(c) \/ ClaimDies(c) => Finish(c)
    BY DEF WriteRow, ClaimDies
<1> QED BY <1>1, <1>2, <1>3, <1>4, <1>5, <1>6, <1>7, <1>8, <1>9, <1>10 DEF ClaimStep

LEMMA SweepYoung ==
    ASSUME IInv, NEW s \in Sweeper, SweepStep(s) \/ SweepDies(s), YoungAreUnderWay
    PROVE  YoungAreUnderWay'
<1>1. /\ UNCHANGED claim
      /\ \A t \in Sweeper \ {s} : sweep'[t] = sweep[t]
    BY DEF SweepStep, SweepDies, SweepReadsRefs, SweepScans, SweepUnmarks, SweepMarks,
       SweepReadsDue, SweepDeletesBytes, SweepDeletesRow, SweepEnds, SweepTo, IInv, Types
<1>2. ASSUME SweepEnds(s) PROVE young' \subseteq young \ {s}
    BY <1>2 DEF SweepEnds, Ends
<1>3. ASSUME sweep'[s].pc # "idle", young' \subseteq young \cup InFlight
      PROVE  YoungAreUnderWay'
    BY <1>1, <1>3 DEF YoungAreUnderWay, InFlight
<1>4. ASSUME young' \subseteq young \ {s} PROVE YoungAreUnderWay'
    BY <1>1, <1>4 DEF YoungAreUnderWay, InFlight
<1>5. CASE SweepReadsRefs(s)
    BY <1>3, <1>5, ReadsRefsDoes
<1>6. CASE SweepScans(s)
    BY <1>3, <1>6, ScansDoes DEF Judge
<1>7. CASE SweepUnmarks(s) \/ SweepMarks(s)
    <2>1. young' \subseteq young \cup InFlight
        BY <1>7 DEF SweepUnmarks, SweepMarks
    <2> QED BY <1>3, <1>7, <2>1, RemarksDoes
<1>8. CASE SweepReadsDue(s)
    BY <1>3, <1>4, <1>8, ReadsDueDoes
<1>9. CASE SweepDeletesBytes(s)
    BY <1>3, <1>9, DeletesBytesDoes
<1>10. CASE SweepDeletesRow(s) \/ SweepDies(s)
    BY <1>2, <1>4, <1>10 DEF SweepDeletesRow, SweepDies
<1> QED BY <1>5, <1>6, <1>7, <1>8, <1>9, <1>10 DEF SweepStep

LEMMA YoungInvariant == Spec => []YoungAreUnderWay
<1>1. Init => YoungAreUnderWay
    BY DEF Init, YoungAreUnderWay
<1>2. IInv /\ [Next]_vars /\ YoungAreUnderWay => YoungAreUnderWay'
    <2>1. SUFFICES ASSUME IInv, [Next]_vars, YoungAreUnderWay PROVE YoungAreUnderWay'
        OBVIOUS
    <2>2. CASE Ripen \/ UNCHANGED vars
        BY <2>1, <2>2 DEF Ripen, vars, YoungAreUnderWay, InFlight
    <2>3. ASSUME NEW c \in Client, ClaimStep(c) PROVE YoungAreUnderWay'
        <3>1. c \in young => claim[c].pc # "idle"
            BY <2>1, ProcessAssumption DEF YoungAreUnderWay, InFlight
        <3>2. /\ UNCHANGED sweep /\ young' \subseteq young
              /\ \A d \in Client \ {c} : claim'[d] = claim[d]
              /\ c \in young' => claim'[c].pc # "idle"
            BY <2>1, <2>3, <3>1, ClaimYoung
        <3> QED BY <2>1, <3>2 DEF YoungAreUnderWay, InFlight
    <2> QED BY <2>1, <2>2, <2>3, SweepYoung DEF Next
<1> QED BY <1>1, <1>2, Invariance, PTL DEF Spec

Quiet == \A c \in Client : media[c] = NoRow /\ claim[c].pc = "idle"

(* A pass that began since it is quiet has seen no reference.                *)
Blind(s) == sweep[s].pc = "idle" \/ (sweep[s].saw = {} /\ sweep[s].pc # "unmark")

LEMMA StaysBlind ==
    ASSUME IInv, [Next]_vars, NEW s \in Sweeper, Quiet, Blind(s)
    PROVE  Blind(s)'
<1>1. ASSUME sweep'[s] = sweep[s] \/ sweep'[s] = IdleSweep PROVE Blind(s)'
    BY <1>1 DEF Blind, IdleSweep
<1>2. ASSUME SweepReadsRefs(s) PROVE Blind(s)'
    <2>1. sweep'[s].pc = "scan" /\ sweep'[s].saw = {i \in Id : Referenced(i)}
        BY <1>2, ReadsRefsDoes
    <2>2. \A i \in Id : ~Referenced(i)
        BY Nulls DEF Quiet, Referenced
    <2> QED BY <2>1, <2>2 DEF Blind
<1>3. ASSUME SweepScans(s) PROVE Blind(s)'
    BY <1>3, ScansDoes DEF Blind, Judge
<1>4. ASSUME SweepUnmarks(s) \/ SweepMarks(s) PROVE Blind(s)'
    <2>1. sweep[s].pc # "idle"
        BY <1>4 DEF SweepUnmarks, SweepMarks
    <2> QED BY <1>4, <2>1, RemarksDoes DEF Blind
<1>5. ASSUME SweepReadsDue(s) PROVE Blind(s)'
    BY <1>5, ReadsDueDoes DEF Blind, IdleSweep
<1>6. ASSUME SweepDeletesBytes(s) PROVE Blind(s)'
    BY <1>6, DeletesBytesDoes DEF Blind
<1>7. ASSUME SweepDeletesRow(s) PROVE Blind(s)'
    BY <1>1, <1>7, SweepEndsFacts DEF SweepDeletesRow, IInv
<1> QED BY <1>1, <1>2, <1>3, <1>4, <1>5, <1>6, <1>7, PassSteps DEF SweepStep

(* Then there is nothing but sweeps and time, and no mark is taken away.     *)
LEMMA QuietSteps ==
    ASSUME IInv, Next, Quiet, Quiet'
    PROVE  Ripen \/ \E s \in Sweeper : SweepStep(s) \/ SweepDies(s)
<1>1. ASSUME NEW c \in Client, ClaimStep(c) PROVE FALSE
    <2>1. claim[c].pc = "idle" /\ claim'[c].pc = "idle" /\ \A d \in Client : media[d] = NoRow
        BY DEF Quiet
    <2>2. ASSUME NEW ext \in Ext, Lookup(c, ext) PROVE FALSE
        <3>1. claim'[c].pc \in {"upload", "probe"}
            BY <2>2 DEF Lookup, Continue, IdleClaim, IInv, Types
        <3> QED BY <2>1, <3>1
    <2>3. ~(Probe(c) \/ Confirm(c) \/ Upload(c) \/ Insert(c) \/ Reread(c) \/ WriteRow(c)
            \/ ClaimDies(c))
        BY <2>1 DEF Probe, Confirm, Upload, Insert, Reread, WriteRow, ClaimDies
    <2>4. ~(DeleteRow(c) \/ \E d \in Client : Snapshot(c, d))
        BY <2>1 DEF DeleteRow, Snapshot
    <2> QED BY <1>1, <2>2, <2>3, <2>4 DEF ClaimStep
<1> QED BY <1>1 DEF Next

AllBlind == \A s \in Sweeper : Blind(s)
NewMark == blob' = [blob EXCEPT !.mark = "fresh"]

LEMMA QuietRow ==
    ASSUME IInv, [Next]_vars, Quiet, Quiet', AllBlind
    PROVE  \/ UNCHANGED blob
           \/ blob # NoBlob /\ blob' = NoBlob
           \/ blob # NoBlob /\ NewMark /\ \E s \in Sweeper : sweep[s].pc = "mark"
           \/ Ripen
<1>1. UNCHANGED vars => UNCHANGED blob
    BY DEF vars
<1>2. ASSUME NEW s \in Sweeper, SweepUnmarks(s) PROVE FALSE
    BY <1>2 DEF SweepUnmarks, AllBlind, Blind
<1>3. ASSUME NEW s \in Sweeper, SweepMarks(s)
      PROVE  UNCHANGED blob \/ (blob # NoBlob /\ NewMark /\ sweep[s].pc = "mark")
    <2>1. sweep[s].pc = "mark" /\ sweep[s].id \in Id
        BY <1>3 DEF SweepMarks, IInv, SweepOK
    <2> QED BY <1>3, <2>1, Nulls DEF SweepMarks, NewMark
<1>4. ASSUME NEW s \in Sweeper, SweepDeletesRow(s)
      PROVE  UNCHANGED blob \/ (blob # NoBlob /\ blob' = NoBlob)
    BY <1>4 DEF SweepDeletesRow
<1>5. ASSUME NEW s \in Sweeper, SweepStep(s) \/ SweepDies(s),
             ~SweepUnmarks(s), ~SweepMarks(s), ~SweepDeletesRow(s)
      PROVE  UNCHANGED blob
    BY <1>5 DEF SweepStep, SweepDies, SweepReadsRefs, SweepScans, SweepReadsDue,
       SweepDeletesBytes
<1> QED BY <1>1, <1>2, <1>3, <1>4, <1>5, QuietSteps

(* In these terms: what happens to the row. *)
OnRecord == blob.mark # "none"

(* A pass that compares the row with no reference, marked or not. *)
Settled(s) == sweep[s].pc # "mark"
AllSettled == \A s \in Sweeper : Settled(s)

LEMMA RowKept ==
    ASSUME IInv, [Next]_vars, Quiet, Quiet', AllBlind
    PROVE  /\ blob = NoBlob => blob' = NoBlob
           /\ OnRecord => OnRecord' \/ blob' = NoBlob
           /\ blob' = NoBlob \/ SameName
           /\ blob # NoBlob /\ ~OnRecord /\ ~OnRecord' => blob' = NoBlob \/ blob' = blob
           /\ AllSettled /\ blob.mark = "fresh" =>
                blob' = NoBlob \/ blob'.mark \in {"fresh", "ripe"}
           /\ AllSettled /\ blob.mark = "ripe" => blob' = NoBlob \/ blob'.mark = "ripe"
<1>1. CASE UNCHANGED blob
    BY <1>1 DEF OnRecord, SameName
<1>2. CASE blob # NoBlob /\ blob' = NoBlob
    BY <1>2
<1>3. CASE blob # NoBlob /\ NewMark /\ \E s \in Sweeper : sweep[s].pc = "mark"
    <2>1. SameName /\ blob'.mark = "fresh"
        BY <1>3, Remark DEF NewMark, IInv
    <2> QED BY <1>3, <2>1 DEF OnRecord, AllSettled, Settled
<1>4. CASE Ripen
    <2>1. blob # NoBlob /\ blob.mark = "fresh"
        BY <1>4, Nulls DEF Ripen
    <2>2. SameName /\ blob'.mark = "ripe"
        BY <1>4, <2>1, Remark DEF Ripen, IInv
    <2> QED BY <2>1, <2>2 DEF OnRecord
<1> QED BY <1>1, <1>2, <1>3, <1>4, QuietRow

LEMMA StaysSettled ==
    ASSUME IInv, [Next]_vars, NEW s \in Sweeper, Blind(s), OnRecord, Settled(s)
    PROVE  Settled(s)'
<1>1. CASE SweepScans(s)
    BY <1>1, ScansDoes DEF Judge, OnRecord, Settled
<1>2. ASSUME ~SweepScans(s), Advances(s) PROVE Settled(s)'
    <2>1. sweep'[s] = IdleSweep \/ sweep'[s].pc # "mark" \/ sweep[s].pc = "scan"
        BY <1>2 DEF Advances, Order
    <2>2. ASSUME sweep[s].pc = "scan", SweepStep(s) PROVE SweepScans(s)
        BY <2>2 DEF SweepStep, SweepReadsRefs, SweepUnmarks, SweepMarks, SweepReadsDue,
           SweepDeletesBytes, SweepDeletesRow
    <2> QED BY <1>2, <2>1, <2>2, PassSteps DEF Settled, IdleSweep
<1>3. CASE sweep'[s] = sweep[s]
    BY <1>3 DEF Settled
<1> QED BY <1>1, <1>2, <1>3, PassMoves

(* Nobody becomes young any more. *)
LEMMA YoungLeave ==
    ASSUME IInv, [Next]_vars, Quiet, Quiet', AllSettled
    PROVE  young' \subseteq young
<1>1. Ripen \/ UNCHANGED vars => young' = young
    BY DEF Ripen, vars
<1>2. ASSUME NEW s \in Sweeper, SweepStep(s) \/ SweepDies(s) PROVE young' \subseteq young
    BY <1>2 DEF SweepStep, SweepDies, SweepReadsRefs, SweepScans, SweepUnmarks, SweepMarks,
       SweepReadsDue, SweepDeletesBytes, SweepDeletesRow, SweepEnds, Ends, AllSettled, Settled
<1> QED BY <1>1, <1>2, QuietSteps

Gone == blob = NoBlob

(* A pass that finds the row unmarked and unreferenced, and marks it.        *)
Accuses(s) == \/ sweep[s].pc \in {"idle", "scan"}
              \/ sweep[s].pc = "mark" /\ sweep[s].id = blob.id

LEMMA StillAccuses ==
    ASSUME IInv, [Next]_vars, NEW s \in Sweeper, Blind(s), Accuses(s), ~Gone, ~OnRecord
    PROVE  /\ blob' = blob => Accuses(s)'
           /\ SweepScans(s) => sweep'[s].pc = "mark"
           /\ SweepMarks(s) => OnRecord'
<1>1. ASSUME SweepScans(s) PROVE sweep'[s].pc = "mark" /\ sweep'[s].id = blob.id
    <2>1. sweep[s].pc = "scan" /\ sweep[s].saw = {}
        BY <1>1 DEF SweepScans, Blind
    <2>2. Judge(s) = "mark"
        BY <2>1 DEF Judge, Gone, OnRecord
    <2> QED BY <1>1, <2>2, ScansDoes
<1>2. ASSUME SweepMarks(s) PROVE OnRecord'
    <2>1. blob' = [blob EXCEPT !.mark = "fresh"]
        BY <1>2 DEF SweepMarks, Accuses
    <2>2. blob'.mark = "fresh"
        BY <2>1, Remark DEF IInv, Gone
    <2> QED BY <2>2 DEF OnRecord
<1>3. ASSUME blob' = blob PROVE Accuses(s)'
    <2>1. ASSUME sweep'[s] = sweep[s] \/ sweep'[s] = IdleSweep PROVE Accuses(s)'
        BY <1>3, <2>1 DEF Accuses, IdleSweep
    <2>2. ASSUME SweepReadsRefs(s) PROVE Accuses(s)'
        BY <2>2, ReadsRefsDoes DEF Accuses
    <2>3. ASSUME SweepScans(s) PROVE Accuses(s)'
        BY <1>1, <1>3, <2>3 DEF Accuses
    <2>4. ~SweepMarks(s)
        BY <1>2, <1>3 DEF OnRecord
    <2>5. ~(SweepUnmarks(s) \/ SweepReadsDue(s) \/ SweepDeletesBytes(s) \/ SweepDeletesRow(s))
        BY DEF Accuses, SweepUnmarks, SweepReadsDue, SweepDeletesBytes, SweepDeletesRow
    <2> QED BY <2>1, <2>2, <2>3, <2>4, <2>5, PassSteps DEF SweepStep
<1> QED BY <1>1, <1>2, <1>3

(* A pass that finds the row due, and deletes it.                            *)
Condemns(s) ==
    \/ sweep[s].pc = "idle"
    \/ sweep[s].pc \in {"scan", "due"} /\ sweep[s].old
    \/ sweep[s].pc \in {"bytes", "row"} /\ sweep[s].id = blob.id

Ripe == blob.mark = "ripe"

LEMMA StillCondemns ==
    ASSUME IInv, [Next]_vars, NEW s \in Sweeper, Quiet, Blind(s), Condemns(s), Ripe
    PROVE  /\ SameName => Condemns(s)'
           /\ SweepScans(s) => sweep'[s].pc = "due"
           /\ SweepReadsDue(s) => sweep'[s].pc = "bytes"
           /\ SweepDeletesRow(s) => blob' = NoBlob
<1>1. ASSUME SweepScans(s) PROVE sweep'[s].pc = "due" /\ sweep'[s].old
    <2>1. sweep[s].pc = "scan" /\ sweep[s].saw = {} /\ sweep[s].old
        BY <1>1 DEF SweepScans, Blind, Condemns
    <2>2. Judge(s) = "due"
        BY <2>1 DEF Judge, Ripe
    <2> QED BY <1>1, <2>1, <2>2, ScansDoes
<1>2. ASSUME SweepReadsDue(s) PROVE sweep'[s].pc = "bytes" /\ sweep'[s].id = blob.id
    <2>1. Due(s)
        BY <1>2 DEF SweepReadsDue, Condemns, Due, Ripe
    <2> QED BY <1>2, <2>1, ReadsDueDoes
<1>3. ASSUME SweepDeletesRow(s) PROVE blob' = NoBlob /\ sweep'[s] = IdleSweep
    <2>1. sweep[s].id = blob.id
        BY <1>3 DEF SweepDeletesRow, Condemns
    <2>2. blob.id \in Id
        BY Nulls, BlobFields DEF IInv, Ripe
    <2>3. ~Referenced(blob.id)
        BY <2>2, Nulls DEF Quiet, Referenced
    <2> QED BY <1>3, <2>1, <2>3, SweepEndsFacts DEF SweepDeletesRow, IInv
<1>4. ASSUME SameName PROVE Condemns(s)'
    <2>1. ASSUME sweep'[s] = sweep[s] \/ sweep'[s] = IdleSweep PROVE Condemns(s)'
        BY <1>4, <2>1 DEF Condemns, IdleSweep, SameName
    <2>2. ASSUME SweepReadsRefs(s) PROVE Condemns(s)'
        BY <2>2, ReadsRefsDoes DEF Condemns, Ripe
    <2>3. ASSUME SweepScans(s) PROVE Condemns(s)'
        BY <1>1, <2>3 DEF Condemns
    <2>4. ASSUME SweepReadsDue(s) PROVE Condemns(s)'
        BY <1>2, <1>4, <2>4 DEF Condemns, SameName
    <2>5. ASSUME SweepDeletesBytes(s) PROVE Condemns(s)'
        BY <1>4, <2>5, DeletesBytesDoes DEF Condemns, SameName
    <2>6. ~(SweepUnmarks(s) \/ SweepMarks(s))
        BY DEF Condemns, SweepUnmarks, SweepMarks
    <2> QED BY <1>3, <2>1, <2>2, <2>3, <2>4, <2>5, <2>6, PassSteps DEF SweepStep
<1> QED BY <1>1, <1>2, <1>3, <1>4

(* A quiet row that is there is marked ...                                   *)
LEMMA QuietIsMarked ==
    ASSUME NEW s \in Sweeper
    PROVE  FairSpec /\ []PassesCanGoOn(s) => []([]Quiet /\ []AllBlind => <>(Gone \/ OnRecord))
<1> DEFINE Idle == sweep[s].pc = "idle"
           Scan == sweep[s].pc = "scan"
           Mark == sweep[s].pc = "mark"
<1>1. IInv /\ [Next]_vars /\ Quiet /\ Quiet' /\ AllBlind /\ Accuses(s) /\ ~Gone /\ ~OnRecord
      => Gone' \/ OnRecord' \/ Accuses(s)'
    BY RowKept, StillAccuses DEF AllBlind, Gone
<1>2. /\ Idle => Accuses(s)
      /\ Accuses(s) => Idle \/ Scan \/ Mark
    BY DEF Accuses
<1>3. IInv /\ <<SweepReadsRefs(s)>>_vars => Scan'
    BY ReadsRefsDoes
<1>4. IInv /\ [Next]_vars /\ AllBlind /\ Accuses(s) /\ ~Gone /\ ~OnRecord /\ <<SweepScans(s)>>_vars
      => Mark'
    BY StillAccuses DEF AllBlind
<1>5. IInv /\ [Next]_vars /\ AllBlind /\ Accuses(s) /\ ~Gone /\ ~OnRecord /\ <<SweepMarks(s)>>_vars
      => OnRecord'
    BY StillAccuses DEF AllBlind
<1>6. PassesCanGoOn(s)
      => /\ Idle => ENABLED <<SweepReadsRefs(s)>>_vars
         /\ Scan => ENABLED <<SweepScans(s)>>_vars
         /\ Mark => ENABLED <<SweepMarks(s)>>_vars
    BY DEF PassesCanGoOn
<1>7. FairSpec /\ []PassesCanGoOn(s) => []<>Idle
    <2>1. PassesEnd(s)
        BY EveryPassEnds
    <2> QED BY <2>1, PTL DEF PassesEnd
<1> HIDE DEF Idle, Scan, Mark
<1> QED BY <1>1, <1>2, <1>3, <1>4, <1>5, <1>6, <1>7, Invariance, SweeperGoesOn, PTL
        DEF FairSpec, Spec, SweepGoesOn

(* ... a ripe mark is the end of it ... *)
LEMMA RipeIsCollected ==
    ASSUME NEW s \in Sweeper
    PROVE  FairSpec /\ []PassesCanGoOn(s)
           => []([]Quiet /\ []AllBlind /\ [](Ripe \/ Gone) => <>Gone)
<1> DEFINE Idle == sweep[s].pc = "idle"
           Scan == sweep[s].pc = "scan"
           Awaits == sweep[s].pc = "due"
           Bytes == sweep[s].pc = "bytes"
           Row == sweep[s].pc = "row"
<1>1. IInv /\ [Next]_vars /\ Quiet /\ Quiet' /\ AllBlind /\ Ripe /\ Condemns(s)
      => Gone' \/ Condemns(s)'
    BY RowKept, StillCondemns DEF AllBlind, Gone
<1>2. /\ Idle => Condemns(s)
      /\ Condemns(s) => Idle \/ Scan \/ Awaits \/ Bytes \/ Row
    BY DEF Condemns
<1>3. IInv /\ <<SweepReadsRefs(s)>>_vars => Scan'
    BY ReadsRefsDoes
<1>4. IInv /\ [Next]_vars /\ Quiet /\ AllBlind /\ Ripe /\ Condemns(s) /\ <<SweepScans(s)>>_vars
      => Awaits'
    BY StillCondemns DEF AllBlind
<1>5. IInv /\ [Next]_vars /\ Quiet /\ AllBlind /\ Ripe /\ Condemns(s) /\ <<SweepReadsDue(s)>>_vars
      => Bytes'
    BY StillCondemns DEF AllBlind
<1>6. IInv /\ <<SweepDeletesBytes(s)>>_vars => Row'
    BY DeletesBytesDoes
<1>7. IInv /\ [Next]_vars /\ Quiet /\ AllBlind /\ Ripe /\ Condemns(s) /\ <<SweepDeletesRow(s)>>_vars
      => Gone'
    BY StillCondemns DEF AllBlind, Gone
<1>8. PassesCanGoOn(s)
      => /\ Idle => ENABLED <<SweepReadsRefs(s)>>_vars
         /\ Scan => ENABLED <<SweepScans(s)>>_vars
         /\ Awaits => ENABLED <<SweepReadsDue(s)>>_vars
         /\ Bytes => ENABLED <<SweepDeletesBytes(s)>>_vars
         /\ Row => ENABLED <<SweepDeletesRow(s)>>_vars
    BY DEF PassesCanGoOn
<1>9. FairSpec /\ []PassesCanGoOn(s) => []<>Idle
    <2>1. PassesEnd(s)
        BY EveryPassEnds
    <2> QED BY <2>1, PTL DEF PassesEnd
<1> HIDE DEF Idle, Scan, Awaits, Bytes, Row
<1> QED BY <1>1, <1>2, <1>3, <1>4, <1>5, <1>6, <1>7, <1>8, <1>9, Invariance, SweeperGoesOn, PTL
        DEF FairSpec, Spec, SweepGoesOn

(* What the fairness of time asks of ENABLED. *)
MarksCanRipen == blob.mark = "fresh" /\ young = {} => ENABLED <<Ripen>>_vars

(* ... and a mark that stays ripens, once both sweepers have begun anew.     *)
LEMMA MarkedIsCollected ==
    ASSUME NEW s \in Sweeper, NEW t \in Sweeper, Sweeper = {s, t}
    PROVE  FairSpec /\ []PassesCanGoOn(s) /\ []PassesCanGoOn(t) /\ []MarksCanRipen
           => []([]Quiet /\ []AllBlind /\ OnRecord => <>Gone)
<1> DEFINE IdleS == sweep[s].pc = "idle"
           IdleT == sweep[t].pc = "idle"
           OutS == s \notin young
           OutT == t \notin young
           Fresh == blob.mark = "fresh"
           Old == young = {}
<1>1. FairSpec /\ []PassesCanGoOn(s) => []<>IdleS
    <2>1. PassesEnd(s)
        BY EveryPassEnds
    <2> QED BY <2>1, PTL DEF PassesEnd
<1>2. FairSpec /\ []PassesCanGoOn(t) => []<>IdleT
    <2>1. PassesEnd(t)
        BY EveryPassEnds
    <2> QED BY <2>1, PTL DEF PassesEnd
<1>3. /\ IdleS => Settled(s)
      /\ IdleT => Settled(t)
      /\ Settled(s) /\ Settled(t) <=> AllSettled
    BY DEF Settled, AllSettled
<1>4. IInv /\ [Next]_vars /\ AllBlind /\ OnRecord
      => /\ Settled(s) => Settled(s)'
         /\ Settled(t) => Settled(t)'
    BY StaysSettled DEF AllBlind
<1>5. IInv /\ YoungAreUnderWay
      => /\ IdleS => OutS
         /\ IdleT => OutT
         /\ Quiet /\ OutS /\ OutT => Old
    BY ProcessAssumption DEF YoungAreUnderWay, InFlight, Quiet
<1>6. IInv /\ [Next]_vars /\ Quiet /\ Quiet' /\ AllSettled
      => /\ OutS => OutS'
         /\ OutT => OutT'
    BY YoungLeave
<1>7. IInv /\ [Next]_vars /\ Quiet /\ Quiet' /\ AllBlind
      => /\ OnRecord => OnRecord' \/ Gone'
         /\ AllSettled /\ Fresh => Fresh' \/ Ripe' \/ Gone'
         /\ AllSettled /\ Ripe => Ripe' \/ Gone'
    BY RowKept DEF Gone, Ripe
<1>8. IInv /\ OnRecord => (Fresh \/ Ripe) /\ ~Gone
    BY BlobFields, Nulls DEF IInv, OnRecord, Ripe, Gone
<1>9. IInv /\ <<Ripen>>_vars => ~Fresh'
    BY Remark, Nulls DEF Ripen, IInv
<1>10. MarksCanRipen /\ Fresh /\ Old => ENABLED <<Ripen>>_vars
    BY DEF MarksCanRipen
<1>11. FairSpec /\ []PassesCanGoOn(s)
       => []([]Quiet /\ []AllBlind /\ [](Ripe \/ Gone) => <>Gone)
    BY RipeIsCollected
<1> HIDE DEF IdleS, IdleT, OutS, OutT, Fresh, Old
<1>12. FairSpec /\ []PassesCanGoOn(s) /\ []PassesCanGoOn(t)
       => []([]Quiet /\ []AllBlind /\ []OnRecord => <>[]AllSettled)
    BY <1>1, <1>2, <1>3, <1>4, Invariance, PTL DEF FairSpec, Spec
<1>13. FairSpec /\ []PassesCanGoOn(s) /\ []PassesCanGoOn(t)
       => []([]Quiet /\ []AllSettled => <>[]Old)
    BY <1>1, <1>2, <1>5, <1>6, Invariance, YoungInvariant, PTL DEF FairSpec, Spec
<1>14. FairSpec /\ []MarksCanRipen
       => []([]Quiet /\ []AllBlind /\ []OnRecord /\ []AllSettled /\ []Old => <>[](Ripe \/ Gone))
    BY <1>7, <1>8, <1>9, <1>10, Invariance, PTL DEF FairSpec, Spec, Fairness
<1>15. FairSpec => []([]Quiet /\ []AllBlind /\ OnRecord => []OnRecord \/ <>Gone)
    BY <1>7, Invariance, PTL DEF FairSpec, Spec
<1> QED BY <1>11, <1>12, <1>13, <1>14, <1>15, PTL

(* What nothing refers to is collected, by one or by two sweepers, however   *)
(* often their passes are interrupted: passes under way end, from then on    *)
(* every pass is blind, the row is marked, the mark outlives what was under  *)
(* way, ripens, and the next pass that gets through deletes the row.         *)
THEOREM UnreferencedAreCollected ==
    ASSUME NEW s \in Sweeper, NEW t \in Sweeper, Sweeper = {s, t}
    PROVE  FairSpec /\ []PassesCanGoOn(s) /\ []PassesCanGoOn(t) /\ []MarksCanRipen
           => UnreferencedIsCollected
<1> DEFINE IdleS == sweep[s].pc = "idle"
           IdleT == sweep[t].pc = "idle"
<1>1. FairSpec /\ []PassesCanGoOn(s) => []<>IdleS
    <2>1. PassesEnd(s)
        BY EveryPassEnds
    <2> QED BY <2>1, PTL DEF PassesEnd
<1>2. FairSpec /\ []PassesCanGoOn(t) => []<>IdleT
    <2>1. PassesEnd(t)
        BY EveryPassEnds
    <2> QED BY <2>1, PTL DEF PassesEnd
<1>3. /\ IdleS => Blind(s)
      /\ IdleT => Blind(t)
      /\ Blind(s) /\ Blind(t) <=> AllBlind
    BY DEF Blind, AllBlind
<1>4. IInv /\ [Next]_vars /\ Quiet
      => /\ Blind(s) => Blind(s)'
         /\ Blind(t) => Blind(t)'
    BY StaysBlind
<1>5. IInv /\ [Next]_vars /\ Quiet /\ Quiet' /\ AllBlind /\ Gone => Gone'
    BY RowKept DEF Gone
<1>6. FairSpec /\ []PassesCanGoOn(s) => []([]Quiet /\ []AllBlind => <>(Gone \/ OnRecord))
    BY QuietIsMarked
<1>7. Quiet <=> \A c \in Client : media[c] = NoRow /\ claim[c].pc = "idle"
    BY DEF Quiet
<1>8. Gone <=> blob = NoBlob
    BY DEF Gone
<1> HIDE DEF IdleS, IdleT
<1>9. FairSpec /\ []PassesCanGoOn(s) /\ []PassesCanGoOn(t) => []([]Quiet => <>[]AllBlind)
    BY <1>1, <1>2, <1>3, <1>4, Invariance, PTL DEF FairSpec, Spec
<1>10. FairSpec => []([]Quiet /\ []AllBlind /\ <>Gone => <>[]Gone)
    BY <1>5, Invariance, PTL DEF FairSpec, Spec
<1> QED BY <1>6, <1>7, <1>8, <1>9, <1>10, MarkedIsCollected, PTL DEF UnreferencedIsCollected
=============================================================================
