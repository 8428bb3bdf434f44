--------------------------- MODULE DubbingProofs ---------------------------
(***************************************************************************)
(* The safety properties of Dubbing, for any number of dubs, runs, slots,  *)
(* media and events.                                                       *)
(*                                                                         *)
(* A dub without trouble has one run at most between its claim and the end *)
(* of its failure, and that run buys only what nobody bought before.  A    *)
(* run whose dub never outlasted a lease is the only such run on its slot: *)
(* who comes to it finds it taken, and who leaves it late finds another    *)
(* dub's name on it.                                                       *)
(***************************************************************************)
EXTENDS Dubbing, TLAPS

SlotType == [holder : Dub \cup {NoDub}, live : BOOLEAN]

Typed ==
    /\ row \in [Dub -> RowType] /\ media \in [Dub -> Media]
    /\ waiting \in [Dub -> SUBSET {"plain", "force"}]
    /\ run \in [Run -> RunType]
    /\ slot \in [Slot -> SlotType]
    /\ bought \in [Dub -> Seq(Media)]
    /\ trouble \in [Dub -> SUBSET Trouble] /\ events \in 0..MaxEvents

(* A run that is under way has a dub, and one that took a slot has a slot. *)
PlacedAt(r) ==
    /\ run[r].pc # "idle" => run[r].dub \in Dub
    /\ run[r].pc = "idle" => run[r].dub = NoDub
    /\ run[r].pc \in Holding => run[r].slot \in Slot

Placed == \A r \in Run : PlacedAt(r)

(* Handles name projects; what a run found in its row the row still has, but *)
(* if it was deleted.                                                        *)
RowOK(d) ==
    /\ row[d].project \in {0} \cup DOMAIN bought[d]
    /\ row[d].status = "completed" => row[d].project # 0

RunOK(r) ==
    LET d == run[r].dub IN
    run[r].pc # "idle" =>
      /\ row[d].status # "none"
      /\ run[r].project \in {0} \cup DOMAIN bought[d]
      /\ run[r].pc \in {"record", "poll", "publish"} => run[r].project # 0
      /\ run[r].pc \in {"slot", "claim", "resolve", "poll", "publish"} =>
           run[r].project = 0 \/ row[d].status = "gone" \/ row[d].project # 0

Handles == (\A d \in Dub : RowOK(d)) /\ (\A r \in Run : RunOK(r))

(* The claim holds: while the dub has had no trouble that breaks it, whoever *)
(* works on it is alone, and buys only if nothing was bought.                *)
Clean(d) == trouble[d] \cap {"blind", "late", "force", "refuse"} = {}
Works(r, d) == run[r].dub = d /\ run[r].pc \in Working
Taken(d) == row[d].status = "gone" \/ (row[d].status = "processing" /\ ~row[d].stale)

ClaimedAt(d) ==
    /\ \A r \in Run : Works(r, d) =>
          /\ Taken(d) /\ \A q \in Run : Works(q, d) => q = r
          /\ run[r].pc = "create" => bought[d] = <<>>
    /\ Len(bought[d]) <= 1

Claimed == \A d \in Dub : Clean(d) => ClaimedAt(d)

(* Who holds a slot, and has never outlasted a lease, has it alone. *)
Holds(r) == run[r].pc \in Holding
Lapsed(r) == "lapse" \in trouble[run[r].dub]

OwnedBy(r) ==
    /\ slot[run[r].slot].holder = run[r].dub /\ slot[run[r].slot].live
    /\ \A q \in Run \ {r} : Holds(q) /\ run[q].slot = run[r].slot => Lapsed(q)

Owned == \A r \in Run : Holds(r) /\ ~Lapsed(r) => OwnedBy(r)

IInv == Typed /\ Placed /\ Handles /\ Claimed /\ Owned

-----------------------------------------------------------------------------
(* The start, and what the invariant says. *)
LEMMA Pcs ==
    /\ AtVendor \subseteq Working /\ Working \subseteq Holding
    /\ \A pc : pc \in AtVendor <=> pc \in {"resolve", "create", "record", "poll"}
    /\ \A pc : pc \in Working <=>
         pc \in {"resolve", "create", "record", "poll", "publish", "failing"}
    /\ \A pc : pc \in Holding <=> pc \in Working \/ pc \in {"claim", "release"}
BY DEF AtVendor, Working, Holding

LEMMA IdleType == Idle \in RunType /\ NewRow \in RowType
<1>1. 1 \in Media
    BY BoundsAssumption DEF Media
<1> QED BY <1>1 DEF Idle, NewRow, RunType, RowType

LEMMA Initially == Init => IInv
<1> SUFFICES ASSUME Init PROVE IInv
    OBVIOUS
<1>1. 1 \in Media /\ 0 \in 0..MaxEvents
    BY BoundsAssumption DEF Media
<1>2. Typed
    BY <1>1, IdleType DEF Init, Typed, SlotType
<1>3. \A r \in Run : run[r].pc = "idle" /\ run[r].dub = NoDub
    BY DEF Init, Idle
<1>4. \A r \in Run : ~Holds(r) /\ run[r].pc \notin Working
    BY <1>3, Pcs DEF Holds
<1>5. Placed /\ Owned
    BY <1>3, <1>4 DEF Placed, PlacedAt, Owned, Holds
<1>6. \A d \in Dub : row[d].status = "none" /\ row[d].project = 0 /\ bought[d] = <<>>
    BY DEF Init, NewRow
<1>7. Handles
    BY <1>3, <1>6 DEF Handles, RowOK, RunOK
<1>8. Claimed
    BY <1>4, <1>6 DEF Claimed, ClaimedAt, Works
<1> QED BY <1>2, <1>5, <1>7, <1>8 DEF IInv

LEMMA InvariantSaysTypeOK == IInv => TypeOK
<1> SUFFICES ASSUME IInv PROVE TypeOK
    OBVIOUS
<1>1. \A r \in Run : run[r].dub # NoDub =>
            run[r].project \in {0} \cup DOMAIN bought[run[r].dub]
    BY DEF IInv, Placed, PlacedAt, Handles, RunOK
<1>2. \A d \in Dub : /\ row[d].project \in {0} \cup DOMAIN bought[d]
                     /\ row[d].status = "completed" => row[d].project # 0
    BY DEF IInv, Handles, RowOK
<1> QED BY <1>1, <1>2 DEF IInv, Typed, TypeOK, SlotType

LEMMA InvariantSaysOneInvoice == IInv => OneInvoice
BY DEF IInv, Claimed, ClaimedAt, Clean, OneInvoice

LEMMA InvariantSaysSlotsAreExclusive == IInv => SlotsAreExclusive
<1> SUFFICES ASSUME IInv, NEW r \in Run, Holds(r), ~Lapsed(r)
             PROVE  /\ slot[run[r].slot] = [holder |-> run[r].dub, live |-> TRUE]
                    /\ \A q \in Holders(run[r].slot) \ {r} : Lapsed(q)
    BY DEF SlotsAreExclusive, Holds, Lapsed
<1>1. OwnedBy(r)
    BY DEF IInv, Owned
<1>2. slot[run[r].slot] \in SlotType
    BY DEF IInv, Typed, Placed, PlacedAt, Holds
<1>3. slot[run[r].slot] = [holder |-> run[r].dub, live |-> TRUE]
    BY <1>1, <1>2 DEF OwnedBy, SlotType
<1>4. \A q \in Holders(run[r].slot) \ {r} : Lapsed(q)
    BY <1>1 DEF OwnedBy, Holders, Holds
<1> QED BY <1>3, <1>4

-----------------------------------------------------------------------------
(* What every step leaves as it is: nothing that was bought is given back,   *)
(* no trouble is forgotten, no row comes back, and none but a deleted one    *)
(* loses its handle.                                                         *)
Grows(d) ==
    /\ trouble[d] \subseteq trouble'[d]
    /\ DOMAIN bought[d] \subseteq DOMAIN bought'[d]
    /\ row[d].status # "none" => row'[d].status # "none"
    /\ row[d].status = "gone" => row'[d].status = "gone"
    /\ row[d].project # 0 => row'[d].project # 0 \/ row'[d].status = "gone"

AllGrow == \A d \in Dub : Grows(d)

(* A run that is not moved, as far as its handle goes. *)
LEMMA RunOKKept ==
    ASSUME IInv, AllGrow, NEW r \in Run, UNCHANGED run[r]
    PROVE  RunOK(r)'
<1>1. CASE run[r].pc = "idle"
    BY <1>1 DEF RunOK
<1>2. CASE run[r].pc # "idle"
    <2>1. run[r].dub \in Dub /\ Grows(run[r].dub) /\ RunOK(r)
        BY <1>2 DEF IInv, Placed, PlacedAt, Handles, AllGrow
    <2> QED BY <1>2, <2>1 DEF RunOK, Grows
<1> QED BY <1>1, <1>2

(* No run comes to work on d, and none that does loses its claim. *)
LEMMA ClaimKept ==
    ASSUME IInv, NEW d \in Dub, Grows(d), UNCHANGED bought[d],
           \A q \in Run : Works(q, d)' => Works(q, d),
           \A q \in Run : Works(q, d)' /\ run'[q].pc = "create" => run[q].pc = "create",
           Clean(d)' /\ (\E q \in Run : Works(q, d)') /\ Taken(d) => Taken(d)'
    PROVE  Clean(d)' => ClaimedAt(d)'
<1> SUFFICES ASSUME Clean(d)' PROVE ClaimedAt(d)'
    OBVIOUS
<1>1. ClaimedAt(d)
    BY DEF IInv, Claimed, Clean, Grows
<1>2. ASSUME NEW r \in Run, Works(r, d)'
      PROVE  /\ Taken(d)' /\ \A q \in Run : Works(q, d)' => q = r
             /\ run'[r].pc = "create" => bought'[d] = <<>>
    <2>1. Works(r, d) /\ Taken(d) /\ \A q \in Run : Works(q, d) => q = r
        BY <1>1, <1>2 DEF ClaimedAt
    <2>2. Taken(d)'
        BY <1>2, <2>1
    <2>3. run'[r].pc = "create" => bought[d] = <<>>
        BY <1>1, <1>2, <2>1 DEF ClaimedAt
    <2> QED BY <2>1, <2>2, <2>3
<1>3. Len(bought'[d]) <= 1
    BY <1>1 DEF ClaimedAt
<1> QED BY <1>2, <1>3 DEF ClaimedAt

(* Nobody takes a slot, and none that is held by a run of a dub that never   *)
(* lapsed is touched.                                                        *)
LEMMA SlotsKept ==
    ASSUME IInv, AllGrow,
           \A q \in Run : Holds(q)' => Holds(q) /\ UNCHANGED <<run[q].slot, run[q].dub>>,
           \A q \in Run : Holds(q)' /\ ~Lapsed(q)' =>
               \/ UNCHANGED slot[run[q].slot]
               \/ slot'[run[q].slot].holder = run[q].dub /\ slot'[run[q].slot].live
    PROVE  Owned'
<1>1. \A q \in Run : Holds(q) => run[q].dub \in Dub /\ Grows(run[q].dub)
    BY Pcs DEF IInv, Placed, PlacedAt, AllGrow, Holds
<1>2. \A q \in Run : Holds(q)' /\ Lapsed(q) => Lapsed(q)'
    BY <1>1 DEF Lapsed, Grows
<1>3. ASSUME NEW r \in Run, Holds(r)', ~Lapsed(r)' PROVE OwnedBy(r)'
    <2>1. Holds(r) /\ OwnedBy(r) /\ UNCHANGED <<run[r].slot, run[r].dub>>
        BY <1>2, <1>3 DEF IInv, Owned
    <2>2. slot'[run'[r].slot].holder = run'[r].dub /\ slot'[run'[r].slot].live
        BY <1>3, <2>1 DEF OwnedBy
    <2>3. \A q \in Run \ {r} : Holds(q)' /\ run'[q].slot = run'[r].slot => Lapsed(q)'
        BY <1>2, <2>1 DEF OwnedBy
    <2> QED BY <2>2, <2>3 DEF OwnedBy
<1> QED BY <1>3 DEF Owned

-----------------------------------------------------------------------------
(* The steps that move no run. *)
RowIs(d, rec) ==
    /\ row' \in [Dub -> RowType] /\ row'[d] = rec
    /\ \A e \in Dub \ {d} : row'[e] = row[e]

LEMMA Standing ==
    ASSUME IInv, Typed', UNCHANGED <<run, bought>>, AllGrow,
           \A d \in Dub : RowOK(d)',
           \A d \in Dub : Clean(d)' /\ Worked(d) /\ Taken(d) => Taken(d)',
           \A q \in Run : Holds(q) /\ ~Lapsed(q)' =>
               \/ UNCHANGED slot[run[q].slot]
               \/ slot'[run[q].slot].holder = run[q].dub /\ slot'[run[q].slot].live
    PROVE  IInv'
<1>1. Placed'
    BY DEF IInv, Placed, PlacedAt
<1>2. \A r \in Run : RunOK(r)'
    BY RunOKKept
<1>3. Handles'
    BY <1>2 DEF Handles
<1>4. ASSUME NEW d \in Dub PROVE Clean(d)' => ClaimedAt(d)'
    <2>1. Grows(d)
        BY DEF AllGrow
    <2>2. (\E q \in Run : Works(q, d)') => Worked(d)
        BY DEF Works, Worked
    <2>3. \A q \in Run : Works(q, d)' => Works(q, d)
        BY DEF Works
    <2> QED BY <2>1, <2>2, <2>3, ClaimKept
<1>5. Claimed'
    BY <1>4 DEF Claimed
<1>6. Owned'
    <2>1. \A q \in Run : Holds(q)' => Holds(q) /\ UNCHANGED <<run[q].slot, run[q].dub>>
        BY DEF Holds
    <2> QED BY <2>1, SlotsKept
<1> QED BY <1>1, <1>3, <1>5, <1>6 DEF IInv

LEMMA RowParts ==
    ASSUME Typed, NEW d \in Dub
    PROVE  /\ row[d] \in RowType
           /\ row[d].status \in {"none", "queued", "processing", "completed", "failed", "gone"}
           /\ row[d].quiet \in BOOLEAN /\ row[d].stale \in BOOLEAN /\ row[d].hash \in Media
           /\ row[d].project \in Nat /\ row[d].of \in Media
BY DEF Typed, RowType

LEMMA RunParts ==
    ASSUME Typed, NEW r \in Run
    PROVE  /\ run[r] \in RunType /\ run[r].pc \in Holding \cup {"idle", "slot"}
           /\ run[r].dub \in Dub \cup {NoDub} /\ run[r].force \in BOOLEAN
           /\ run[r].media \in Media /\ run[r].project \in Nat
           /\ run[r].slot \in Slot \cup {NoSlot} /\ run[r].again \in BOOLEAN
BY DEF Typed, RunType

LEMMA SetRow ==
    ASSUME Typed, NEW d \in Dub, NEW rec \in RowType, row' = [row EXCEPT ![d] = rec]
    PROVE  RowIs(d, rec)
BY DEF Typed, RowIs

LEMMA WriteRow ==
    ASSUME Typed, NEW d \in Dub, NEW rec \in RowType, Write(d, rec)
    PROVE  RowIs(d, IF Exists(d) THEN rec ELSE row[d])
<1> DEFINE new == IF Exists(d) THEN rec ELSE row[d]
<1>1. new \in RowType /\ row' = [row EXCEPT ![d] = new]
    BY RowParts DEF Write, Typed
<1> HIDE DEF new
<1>2. RowIs(d, new)
    BY <1>1, SetRow
<1> QED BY <1>2 DEF new

LEMMA MarkGrows ==
    ASSUME Typed, NEW d, NEW k \in Trouble, Mark(d, k) \/ UNCHANGED trouble
    PROVE  /\ trouble' \in [Dub -> SUBSET Trouble]
           /\ \A e \in Dub : trouble[e] \subseteq trouble'[e]
           /\ Mark(d, k) /\ d \in Dub => k \in trouble'[d]
BY DEF Typed, Mark

LEMMA EventTyped == ASSUME Typed, Event \/ UNCHANGED events PROVE events' \in 0..MaxEvents
BY BoundsAssumption DEF Typed, Event

LEMMA TroubleNames ==
    ASSUME NEW d \in Dub, trouble[d] \cap {"blind", "late", "force", "refuse"} # {}
    PROVE  ~Clean(d)
BY DEF Clean

(* A row that gets a new value, with what was bought as it was. *)
Follows(rec, d) ==
    /\ rec \in RowType
    /\ row[d].status # "none" => rec.status # "none"
    /\ row[d].status = "gone" => rec.status = "gone"
    /\ rec.project = row[d].project \/ (rec.status = "gone" /\ rec.project = 0)
    /\ rec.status = "completed" => row[d].status = "completed" \/ row[d].project # 0

LEMMA RowFollows ==
    ASSUME IInv, NEW d \in Dub, NEW rec, Follows(rec, d), RowIs(d, rec), UNCHANGED bought,
           \A e \in Dub : trouble[e] \subseteq trouble'[e]
    PROVE  AllGrow /\ \A e \in Dub : RowOK(e)'
<1>1. \A e \in Dub : RowOK(e)
    BY DEF IInv, Handles
<1>2. Grows(d) /\ RowOK(d)'
    BY <1>1 DEF Follows, RowIs, Grows, RowOK
<1>3. \A e \in Dub \ {d} : Grows(e) /\ RowOK(e)'
    BY <1>1 DEF RowIs, Grows, RowOK
<1> QED BY <1>2, <1>3 DEF AllGrow

LEMMA NothingWritten ==
    ASSUME IInv, UNCHANGED <<row, bought>>, \A e \in Dub : trouble[e] \subseteq trouble'[e]
    PROVE  AllGrow /\ \A e \in Dub : RowOK(e)'
<1>1. \A e \in Dub : RowOK(e)
    BY DEF IInv, Handles
<1> QED BY <1>1 DEF AllGrow, Grows, RowOK

(* The steps of the creator and of the queue. *)
LEMMA SendTyped ==
    ASSUME Typed, NEW d \in Dub, NEW k \in {"plain", "force"}, Send(d, k)
    PROVE  waiting' \in [Dub -> SUBSET {"plain", "force"}] /\ events' \in 0..MaxEvents
<1> DEFINE w == IF waiting[d] = {} THEN {k} ELSE waiting[d]
<1>1. w \in SUBSET {"plain", "force"}
    BY DEF Typed
<1>2. waiting' = [waiting EXCEPT ![d] = w] \/ UNCHANGED waiting
    BY DEF Send
<1> HIDE DEF w
<1>3. waiting' \in [Dub -> SUBSET {"plain", "force"}]
    BY <1>1, <1>2 DEF Typed
<1> QED BY <1>3, EventTyped DEF Send

LEMMA RequestKeeps == ASSUME IInv, NEW d \in Dub, Request(d) PROVE IInv'
<1>1. Typed /\ UNCHANGED <<media, run, slot, bought, trouble>>
    BY DEF IInv, Request
<1> DEFINE rec == [[row[d] EXCEPT !.status = "queued"] EXCEPT !.hash = media[d]]
<1>2. row' = [row EXCEPT ![d] = rec]
    BY <1>1 DEF Request, Typed
<1>3. /\ rec \in RowType /\ rec.status = "queued" /\ rec.project = row[d].project
      /\ row[d].status = "none"
    BY <1>1, RowParts DEF Request, Typed, RowType
<1> HIDE DEF rec
<1>4. RowIs(d, rec) /\ Follows(rec, d)
    BY <1>1, <1>2, <1>3, SetRow DEF Follows
<1>5. AllGrow /\ \A e \in Dub : RowOK(e)'
    BY <1>1, <1>4, RowFollows
<1>6. Typed'
    BY <1>1, <1>4, SendTyped DEF Request, Typed, RowIs
<1>7. \A e \in Dub : Taken(e) => Taken(e)'
    BY <1>3, <1>4 DEF RowIs, Taken
<1> QED BY <1>1, <1>5, <1>6, <1>7, Standing

LEMMA QueueKeeps ==
    ASSUME IInv, NEW d \in Dub,
           \/ AskAgain(d) \/ Replace(d) \/ \E k \in {"plain", "force"} : Regenerate(d, k)
           \/ \E r \in Run : Redeliver(r)
    PROVE  IInv'
<1>1. Typed /\ UNCHANGED <<row, run, slot, bought, trouble>>
    BY DEF IInv, AskAgain, Replace, Regenerate, Redeliver
<1>2. media' \in [Dub -> Media]
    <2>1. CASE Replace(d)
        <3>1. media[d] + 1 \in Media
            BY <1>1, <2>1, BoundsAssumption DEF Replace, Typed, Media
        <3> QED BY <1>1, <2>1, <3>1 DEF Replace, Typed
    <2>2. CASE ~Replace(d)
        BY <1>1, <2>2 DEF AskAgain, Regenerate, Redeliver, Typed
    <2> QED BY <2>1, <2>2
<1>3. events' \in 0..MaxEvents
    BY <1>1, EventTyped, SendTyped DEF AskAgain, Replace, Regenerate, Redeliver
<1>4. waiting' \in [Dub -> SUBSET {"plain", "force"}]
    <2>1. CASE AskAgain(d)
        BY <1>1, <2>1, SendTyped DEF AskAgain
    <2>2. CASE Replace(d)
        BY <1>1, <2>2 DEF Replace, Typed
    <2>3. CASE \E k \in {"plain", "force"} : Regenerate(d, k)
        BY <1>1, <2>3 DEF Regenerate, Typed
    <2>4. CASE \E r \in Run : Redeliver(r)
        <3>1. PICK r \in Run :
                  waiting' = [waiting EXCEPT ![run[r].dub] = @ \cup {"plain"}]
            BY <2>4 DEF Redeliver
        <3>2. waiting \in [Dub -> SUBSET {"plain", "force"}]
            BY <1>1 DEF Typed
        <3> QED BY <3>1, <3>2
    <2> QED BY <2>1, <2>2, <2>3, <2>4
<1>5. Typed'
    BY <1>1, <1>2, <1>3, <1>4 DEF Typed
<1>6. AllGrow /\ \A e \in Dub : RowOK(e)'
    BY <1>1, NothingWritten
<1>7. \A e \in Dub : Taken(e) => Taken(e)'
    BY <1>1 DEF Taken
<1> QED BY <1>1, <1>5, <1>6, <1>7, Standing

LEMMA DeleteKeeps == ASSUME IInv, NEW d \in Dub, Delete(d) PROVE IInv'
<1>1. Typed /\ UNCHANGED <<media, waiting, run, slot, bought, trouble>> /\ Event
    BY DEF IInv, Delete
<1> DEFINE rec == [NewRow EXCEPT !.status = "gone"]
<1>2. /\ row' = [row EXCEPT ![d] = rec] /\ rec \in RowType
      /\ rec.status = "gone" /\ rec.project = 0
    BY IdleType DEF Delete, NewRow, RowType
<1> HIDE DEF rec
<1>3. RowIs(d, rec) /\ Follows(rec, d)
    BY <1>1, <1>2, SetRow DEF Follows
<1>4. AllGrow /\ \A e \in Dub : RowOK(e)'
    BY <1>1, <1>3, RowFollows
<1>5. Typed'
    BY <1>1, <1>3, EventTyped DEF Typed, RowIs
<1>6. \A e \in Dub : Taken(e) => Taken(e)'
    BY <1>2, <1>3 DEF RowIs, Taken
<1> QED BY <1>1, <1>4, <1>5, <1>6, Standing

LEMMA RefuseKeeps == ASSUME IInv, NEW d \in Dub, Refuse(d) PROVE IInv'
<1>1. Typed /\ UNCHANGED <<media, run, slot, bought>> /\ Event /\ Exists(d)
    BY DEF IInv, Refuse
<1> DEFINE rec == [[row[d] EXCEPT !.status = "failed"] EXCEPT !.quiet = FALSE]
<1>2. /\ Write(d, rec) /\ rec \in RowType
      /\ rec.status = "failed" /\ rec.project = row[d].project
      /\ row[d].status # "gone"
    BY <1>1, RowParts DEF Refuse, RowType, Exists
<1> HIDE DEF rec
<1>3. RowIs(d, rec) /\ Follows(rec, d)
    BY <1>1, <1>2, WriteRow DEF Follows
<1>4. /\ trouble' \in [Dub -> SUBSET Trouble]
      /\ \A e \in Dub : trouble[e] \subseteq trouble'[e]
      /\ Worked(d) => ~Clean(d)'
    <2>1. "refuse" \in Trouble
        BY DEF Trouble
    <2>2. Mark(d, "refuse") \/ (UNCHANGED trouble /\ ~Worked(d))
        BY DEF Refuse
    <2> QED BY <1>1, <2>1, <2>2, MarkGrows DEF Clean
<1>5. AllGrow /\ \A e \in Dub : RowOK(e)'
    BY <1>1, <1>3, <1>4, RowFollows
<1>6. waiting' \in [Dub -> SUBSET {"plain", "force"}]
    BY <1>1 DEF Refuse, Typed
<1>7. Typed'
    BY <1>1, <1>3, <1>4, <1>6, EventTyped DEF Typed, RowIs
<1>8. \A e \in Dub : Clean(e)' /\ Worked(e) /\ Taken(e) => Taken(e)'
    BY <1>3, <1>4 DEF RowIs, Taken
<1> QED BY <1>1, <1>5, <1>7, <1>8, Standing

LEMMA TimeKeeps == ASSUME IInv, NEW d \in Dub, GoQuiet(d) \/ GoStale(d) PROVE IInv'
<1>1. Typed /\ UNCHANGED <<media, waiting, run, slot, bought>> /\ (Event \/ UNCHANGED events)
    BY DEF IInv, GoQuiet, GoStale
<1>2. PICK rec : /\ row' = [row EXCEPT ![d] = rec] /\ rec \in RowType
                 /\ rec.status = row[d].status /\ rec.project = row[d].project
    <2>1. CASE GoQuiet(d)
        <3> DEFINE new == [[row[d] EXCEPT !.quiet = TRUE]
                              EXCEPT !.stale = @ \/ row[d].status = "processing"]
        <3>1. row' = [row EXCEPT ![d] = new]
            BY <1>1, <2>1 DEF GoQuiet, Typed
        <3>2. new \in RowType /\ new.status = row[d].status /\ new.project = row[d].project
            BY <1>1, RowParts DEF RowType
        <3> HIDE DEF new
        <3> QED BY <3>1, <3>2
    <2>2. CASE GoStale(d)
        <3> DEFINE new == [row[d] EXCEPT !.stale = TRUE]
        <3>1. row' = [row EXCEPT ![d] = new]
            BY <1>1, <2>2 DEF GoStale, Typed
        <3>2. new \in RowType /\ new.status = row[d].status /\ new.project = row[d].project
            BY <1>1, RowParts DEF RowType
        <3> HIDE DEF new
        <3> QED BY <3>1, <3>2
    <2> QED BY <2>1, <2>2
<1>3. RowIs(d, rec) /\ Follows(rec, d)
    BY <1>1, <1>2, SetRow DEF Follows
<1>4. /\ trouble' \in [Dub -> SUBSET Trouble]
      /\ \A e \in Dub : trouble[e] \subseteq trouble'[e]
      /\ Worked(d) /\ row[d].status = "processing" => ~Clean(d)'
    <2>1. "late" \in Trouble
        BY DEF Trouble
    <2>2. Mark(d, "late") \/ (UNCHANGED trouble /\ ~(Worked(d) /\ row[d].status = "processing"))
        BY DEF GoQuiet, GoStale
    <2> QED BY <1>1, <2>1, <2>2, MarkGrows DEF Clean
<1>5. AllGrow /\ \A e \in Dub : RowOK(e)'
    BY <1>1, <1>3, <1>4, RowFollows
<1>6. Typed'
    BY <1>1, <1>3, <1>4, EventTyped DEF Typed, RowIs
<1>7. \A e \in Dub : Clean(e)' /\ Worked(e) /\ Taken(e) => Taken(e)'
    BY <1>2, <1>3, <1>4 DEF RowIs, Taken
<1> QED BY <1>1, <1>5, <1>6, <1>7, Standing

LEMMA StageKeeps == ASSUME IInv, NEW r \in Run, Stage(r) PROVE IInv'
<1>1. Typed /\ UNCHANGED <<media, waiting, run, slot, bought, trouble, events>>
    BY DEF IInv, Stage
<1> DEFINE d == run[r].dub
<1>2. d \in Dub /\ row' = [row EXCEPT ![d].quiet = FALSE]
    BY DEF Stage, IInv, Placed, PlacedAt
<1> HIDE DEF d
<1> DEFINE rec == [row[d] EXCEPT !.quiet = FALSE]
<1>3. /\ row' = [row EXCEPT ![d] = rec] /\ rec \in RowType
      /\ rec.status = row[d].status /\ rec.stale = row[d].stale /\ rec.project = row[d].project
    BY <1>1, <1>2, RowParts DEF RowType, Typed
<1> HIDE DEF rec
<1>4. RowIs(d, rec) /\ Follows(rec, d)
    BY <1>1, <1>2, <1>3, SetRow DEF Follows
<1>5. AllGrow /\ \A e \in Dub : RowOK(e)'
    BY <1>1, <1>2, <1>4, RowFollows
<1>6. Typed'
    BY <1>1, <1>4 DEF Typed, RowIs
<1>7. \A e \in Dub : Taken(e) => Taken(e)'
    BY <1>3, <1>4 DEF RowIs, Taken
<1> QED BY <1>1, <1>5, <1>6, <1>7, Standing

(* A slot that is renewed keeps its name; one that lapses under a run of the *)
(* dub it bears is written down.                                             *)
LEMMA SetSlot ==
    ASSUME Typed, NEW s \in Slot, NEW new \in SlotType, slot' = [slot EXCEPT ![s] = new]
    PROVE  /\ slot' \in [Slot -> SlotType] /\ slot'[s] = new
           /\ \A t \in Slot \ {s} : slot'[t] = slot[t]
BY DEF Typed

LEMMA HeartbeatKeeps == ASSUME IInv, NEW r \in Run, Heartbeat(r) PROVE IInv'
<1>1. Typed /\ UNCHANGED <<row, media, waiting, run, bought, trouble, events>>
    BY DEF IInv, Heartbeat
<1> DEFINE s == run[r].slot
<1>2. s \in Slot /\ slot' = [slot EXCEPT ![s].live = TRUE]
    BY Pcs DEF Heartbeat, IInv, Placed, PlacedAt
<1> HIDE DEF s
<1> DEFINE new == [slot[s] EXCEPT !.live = TRUE]
<1>3. /\ slot' = [slot EXCEPT ![s] = new] /\ new \in SlotType
      /\ new.holder = slot[s].holder /\ new.live
    BY <1>1, <1>2 DEF SlotType, Typed
<1> HIDE DEF new
<1>4. /\ slot' \in [Slot -> SlotType] /\ slot'[s] = new
      /\ \A t \in Slot \ {s} : slot'[t] = slot[t]
    BY <1>1, <1>2, <1>3, SetSlot
<1>5. AllGrow /\ \A e \in Dub : RowOK(e)'
    BY <1>1, NothingWritten
<1>6. Typed'
    BY <1>1, <1>4 DEF Typed
<1>7. \A e \in Dub : Taken(e) => Taken(e)'
    BY <1>1 DEF Taken
<1>8. ASSUME NEW q \in Run, Holds(q), ~Lapsed(q)'
      PROVE  \/ UNCHANGED slot[run[q].slot]
             \/ slot'[run[q].slot].holder = run[q].dub /\ slot'[run[q].slot].live
    <2>1. OwnedBy(q) /\ run[q].slot \in Slot
        BY <1>1, <1>8 DEF IInv, Owned, Lapsed, Placed, PlacedAt, Holds
    <2> QED BY <1>3, <1>4, <2>1 DEF OwnedBy
<1> QED BY <1>1, <1>5, <1>6, <1>7, <1>8, Standing

LEMMA ExpireKeeps == ASSUME IInv, NEW s \in Slot, Expire(s) PROVE IInv'
<1>1. Typed /\ UNCHANGED <<row, media, waiting, run, bought>> /\ (Event \/ UNCHANGED events)
    BY DEF IInv, Expire
<1> DEFINE new == [slot[s] EXCEPT !.live = FALSE]
<1>2. slot' = [slot EXCEPT ![s] = new] /\ new \in SlotType
    BY <1>1 DEF Expire, SlotType, Typed
<1> HIDE DEF new
<1>3. /\ slot' \in [Slot -> SlotType] /\ \A t \in Slot \ {s} : slot'[t] = slot[t]
    BY <1>1, <1>2, SetSlot
<1>4. /\ trouble' \in [Dub -> SUBSET Trouble]
      /\ \A e \in Dub : trouble[e] \subseteq trouble'[e]
    <2>1. "lapse" \in Trouble
        BY DEF Trouble
    <2>2. Mark(slot[s].holder, "lapse") \/ UNCHANGED trouble
        BY DEF Expire
    <2> QED BY <1>1, <2>1, <2>2, MarkGrows
<1>5. AllGrow /\ \A e \in Dub : RowOK(e)'
    BY <1>1, <1>4, NothingWritten
<1>6. Typed'
    BY <1>1, <1>3, <1>4, EventTyped DEF Typed
<1>7. \A e \in Dub : Taken(e) => Taken(e)'
    BY <1>1 DEF Taken
<1>8. ASSUME NEW q \in Run, Holds(q), ~Lapsed(q)' PROVE UNCHANGED slot[run[q].slot]
    <2>1. run[q].slot \in Slot /\ run[q].dub \in Dub
        BY <1>8, Pcs DEF IInv, Placed, PlacedAt, Holds
    <2>2. OwnedBy(q)
        BY <1>1, <1>4, <1>8, <2>1 DEF IInv, Owned, Lapsed
    <2>3. ASSUME run[q].slot = s PROVE FALSE
        <3>1. run[q].dub = slot[s].holder /\ q \in Holders(s)
            BY <1>8, <2>2, <2>3 DEF OwnedBy, Holders, Holds
        <3>2. Mark(run[q].dub, "lapse")
            BY <3>1 DEF Expire
        <3>3. "lapse" \in trouble'[run[q].dub]
            BY <1>1, <2>1, <3>2, MarkGrows DEF Trouble
        <3> QED BY <1>1, <1>8, <3>3 DEF Lapsed
    <2> QED BY <1>1, <1>3, <2>1, <2>3
<1> QED BY <1>1, <1>5, <1>6, <1>7, <1>8, Standing

-----------------------------------------------------------------------------
(* The steps that move a run. *)
RunIs(r, rec) ==
    /\ run' \in [Run -> RunType] /\ run'[r] = rec
    /\ \A q \in Run \ {r} : run'[q] = run[q]

LEMMA SetRun ==
    ASSUME Typed, NEW r \in Run, NEW rec \in RunType, run' = [run EXCEPT ![r] = rec]
    PROVE  RunIs(r, rec)
BY DEF Typed, RunIs

(* A run that goes on with the same dub and slot. *)
OnAs(r, rec, pc) ==
    /\ RunIs(r, rec) /\ rec.pc = pc
    /\ rec.dub = run[r].dub /\ rec.slot = run[r].slot

LEMMA GoToMoves ==
    ASSUME Typed, NEW r \in Run, NEW pc \in Holding, GoTo(r, pc)
    PROVE  \E rec : OnAs(r, rec, pc) /\ rec.project = run[r].project
<1> DEFINE rec == [run[r] EXCEPT !.pc = pc]
<1>1. run' = [run EXCEPT ![r] = rec]
    BY DEF GoTo, Typed
<1>2. /\ rec \in RunType /\ rec.pc = pc /\ rec.dub = run[r].dub /\ rec.slot = run[r].slot
      /\ rec.project = run[r].project
    BY RunParts DEF RunType
<1> HIDE DEF rec
<1> QED BY <1>1, <1>2, SetRun DEF OnAs

LEMMA PlacedMoved ==
    ASSUME IInv, NEW r \in Run, NEW rec, RunIs(r, rec),
           rec.pc # "idle" => rec.dub \in Dub, rec.pc = "idle" => rec.dub = NoDub,
           rec.pc \in Holding => rec.slot \in Slot
    PROVE  Placed'
<1>1. PlacedAt(r)'
    BY DEF RunIs, PlacedAt
<1>2. \A q \in Run \ {r} : PlacedAt(q)'
    BY DEF RunIs, IInv, Placed, PlacedAt
<1> QED BY <1>1, <1>2 DEF Placed

LEMMA HandlesMoved ==
    ASSUME IInv, AllGrow, \A e \in Dub : RowOK(e)',
           NEW r \in Run, NEW rec, RunIs(r, rec), RunOK(r)'
    PROVE  Handles'
<1>1. \A q \in Run \ {r} : RunOK(q)'
    BY RunOKKept DEF RunIs
<1> QED BY <1>1 DEF Handles

(* What is bought and who works is as it was, or a run works no more. *)
LEMMA ClaimedMoved ==
    ASSUME IInv, AllGrow, UNCHANGED bought, NEW r \in Run, NEW rec, RunIs(r, rec),
           rec.pc \in Working => run[r].pc \in Working /\ rec.dub = run[r].dub,
           rec.pc = "create" => run[r].pc = "create",
           \A e \in Dub : Clean(e)' /\ (\E q \in Run : Works(q, e)') /\ Taken(e) => Taken(e)'
    PROVE  Claimed'
<1>1. ASSUME NEW e \in Dub PROVE Clean(e)' => ClaimedAt(e)'
    <2>1. \A q \in Run : Works(q, e)' => Works(q, e)
        BY DEF RunIs, Works
    <2>2. \A q \in Run : run'[q].pc = "create" => run[q].pc = "create"
        BY DEF RunIs
    <2>3. Grows(e) /\ UNCHANGED bought[e]
        BY DEF AllGrow
    <2> QED BY <2>1, <2>2, <2>3, ClaimKept
<1> QED BY <1>1 DEF Claimed

LEMMA OwnedMoved ==
    ASSUME IInv, AllGrow, UNCHANGED slot, NEW r \in Run, NEW rec, RunIs(r, rec),
           rec.pc \in Holding => Holds(r) /\ rec.dub = run[r].dub /\ rec.slot = run[r].slot
    PROVE  Owned'
<1>1. \A q \in Run : Holds(q)' => Holds(q) /\ UNCHANGED <<run[q].slot, run[q].dub>>
    BY DEF RunIs, Holds
<1> QED BY <1>1, SlotsKept

(* The handle of a run that goes on with the one it has. *)
LEMMA RunOKMoved ==
    ASSUME IInv, AllGrow, NEW r \in Run, NEW rec, RunIs(r, rec), run[r].pc # "idle",
           rec.dub = run[r].dub, rec.project = run[r].project,
           rec.pc \in {"record", "poll", "publish"} => run[r].project # 0,
           rec.pc \in {"slot", "claim", "resolve", "poll", "publish"} =>
             run[r].pc \in {"slot", "claim", "resolve", "poll", "publish"}
    PROVE  RunOK(r)'
<1>1. run[r].dub \in Dub /\ Grows(run[r].dub) /\ RunOK(r)
    BY DEF IInv, Placed, PlacedAt, Handles, AllGrow
<1> QED BY <1>1 DEF RunOK, Grows, RunIs

(* A step of a run that holds its slot before and after. *)
LEMMA Onward ==
    ASSUME IInv, Typed', NEW r \in Run, NEW rec, NEW pc \in Holding, Holds(r), OnAs(r, rec, pc),
           UNCHANGED <<slot, bought>>, AllGrow, \A e \in Dub : RowOK(e)', RunOK(r)',
           pc \in Working => run[r].pc \in Working, pc = "create" => run[r].pc = "create",
           \A e \in Dub : Clean(e)' /\ (\E q \in Run : Works(q, e)') /\ Taken(e) => Taken(e)'
    PROVE  IInv'
<1>1. RunIs(r, rec) /\ rec.pc = pc /\ rec.dub = run[r].dub /\ rec.slot = run[r].slot
    BY DEF OnAs
<1>2. run[r].dub \in Dub /\ run[r].slot \in Slot /\ pc # "idle"
    BY Pcs DEF IInv, Placed, PlacedAt, Holds
<1>3. Placed'
    BY <1>1, <1>2, PlacedMoved
<1>4. Handles'
    BY <1>1, HandlesMoved
<1>5. Claimed'
    BY <1>1, ClaimedMoved
<1>6. Owned'
    BY <1>1, OwnedMoved
<1> QED BY <1>3, <1>4, <1>5, <1>6 DEF IInv

LEMMA Alone ==
    ASSUME IInv, NEW d \in Dub, Clean(d), NEW r \in Run, Works(r, d)
    PROVE  /\ Taken(d) /\ \A q \in Run : Works(q, d) => q = r
           /\ run[r].pc = "create" => bought[d] = <<>>
BY DEF IInv, Claimed, ClaimedAt

LEMMA HasPlace ==
    ASSUME IInv, NEW r \in Run, run[r].pc # "idle"
    PROVE  /\ run[r].dub \in Dub /\ RunOK(r)
           /\ Holds(r) => run[r].slot \in Slot
BY DEF IInv, Placed, PlacedAt, Handles, Holds

LEMMA StartKeeps == ASSUME IInv, NEW r \in Run, NEW d \in Dub, Start(r, d) PROVE IInv'
<1>1. Typed /\ UNCHANGED <<row, media, slot, bought, trouble, events>>
    BY DEF IInv, Start
<1>2. PICK k \in waiting[d] :
        /\ waiting' = [waiting EXCEPT ![d] = @ \ {k}]
        /\ run' = IF ~Exists(d) \/ Skip(d, k = "force") THEN run
                  ELSE [run EXCEPT ![r] = [pc |-> "slot", dub |-> d, force |-> k = "force",
                          media |-> media[d], project |-> row[d].project,
                          slot |-> NoSlot, again |-> FALSE]]
    BY DEF Start
<1>3. waiting' \in [Dub -> SUBSET {"plain", "force"}]
    BY <1>1, <1>2 DEF Typed
<1>4. AllGrow /\ \A e \in Dub : RowOK(e)'
    BY <1>1, NothingWritten
<1>5. \A e \in Dub : Taken(e) => Taken(e)'
    BY <1>1 DEF Taken
<1>6. CASE UNCHANGED run
    <2>1. Typed'
        BY <1>1, <1>3, <1>6 DEF Typed
    <2> QED BY <1>1, <1>4, <1>5, <1>6, <2>1, Standing
<1>7. CASE run' # run
    <2> DEFINE rec == [pc |-> "slot", dub |-> d, force |-> k = "force", media |-> media[d],
                       project |-> row[d].project, slot |-> NoSlot, again |-> FALSE]
    <2>1. run' = [run EXCEPT ![r] = rec] /\ Exists(d)
        BY <1>2, <1>7
    <2>2. rec.pc = "slot" /\ rec.dub = d /\ rec.project = row[d].project
        OBVIOUS
    <2>3. rec \in RunType
        BY <1>1, RowParts DEF RunType, Typed
    <2> HIDE DEF rec
    <2>4. RunIs(r, rec)
        BY <1>1, <2>1, <2>3, SetRun
    <2>5. rec.pc = "slot" /\ rec.pc \notin Holding /\ rec.pc \notin Working
        BY <2>2, Pcs
    <2>6. Typed'
        BY <1>1, <1>3, <2>4 DEF Typed, RunIs
    <2>7. Placed'
        BY <2>2, <2>4, <2>5, PlacedMoved
    <2>8. RunOK(r)'
        BY <1>1, <2>1, <2>2, <2>4 DEF RunIs, RunOK, Exists, IInv, Handles, RowOK
    <2>9. Handles' /\ Claimed' /\ Owned'
        BY <1>1, <1>4, <1>5, <2>4, <2>5, <2>8, HandlesMoved, ClaimedMoved, OwnedMoved
    <2> QED BY <2>6, <2>7, <2>9 DEF IInv
<1> QED BY <1>6, <1>7

(* A run that is over. *)
LEMMA Over ==
    ASSUME IInv, Typed', NEW r \in Run, RunIs(r, Idle), UNCHANGED <<row, bought, trouble>>,
           \A q \in Run \ {r} : Holds(q) /\ ~Lapsed(q) => UNCHANGED slot[run[q].slot]
    PROVE  IInv'
<1>1. Idle.pc = "idle" /\ Idle.dub = NoDub /\ "idle" \notin Holding /\ "idle" \notin Working
    BY Pcs DEF Idle
<1>2. AllGrow /\ \A e \in Dub : RowOK(e)'
    BY NothingWritten
<1>3. \A e \in Dub : Taken(e) => Taken(e)'
    BY DEF Taken
<1>4. Placed'
    BY <1>1, PlacedMoved
<1>5. RunOK(r)'
    BY <1>1 DEF RunIs, RunOK
<1>6. Handles' /\ Claimed'
    BY <1>1, <1>2, <1>3, <1>5, HandlesMoved, ClaimedMoved
<1>7. Owned'
    <2>1. \A q \in Run : Holds(q)' => q # r /\ Holds(q) /\ UNCHANGED run[q]
        BY <1>1 DEF RunIs, Holds
    <2>2. \A q \in Run : Holds(q)' /\ ~Lapsed(q)' => UNCHANGED slot[run[q].slot]
        BY <2>1 DEF Lapsed
    <2> QED BY <1>2, <2>1, <2>2, SlotsKept
<1> QED BY <1>4, <1>6, <1>7 DEF IInv

LEMMA RetryTyped ==
    ASSUME IInv, NEW r \in Run, run[r].pc # "idle", Retry(r) \/ UNCHANGED waiting
    PROVE  waiting' \in [Dub -> SUBSET {"plain", "force"}]
<1>1. Payload(r) \in {"plain", "force"} /\ run[r].dub \in Dub
    BY HasPlace DEF Payload
<1> DEFINE w == waiting[run[r].dub] \cup {Payload(r)}
<1>2. w \in SUBSET {"plain", "force"}
    BY <1>1 DEF IInv, Typed
<1>3. waiting' = [waiting EXCEPT ![run[r].dub] = w] \/ UNCHANGED waiting
    BY DEF Retry
<1> HIDE DEF w
<1> QED BY <1>2, <1>3 DEF IInv, Typed

LEMMA DieKeeps == ASSUME IInv, NEW r \in Run, Die(r) PROVE IInv'
<1>1. Typed /\ UNCHANGED <<row, media, slot, bought, trouble>> /\ run[r].pc # "idle"
    BY DEF IInv, Die
<1>2. RunIs(r, Idle)
    BY <1>1, IdleType, SetRun DEF Die
<1>3. Typed'
    BY <1>1, <1>2, RetryTyped, EventTyped DEF Die, Typed, RunIs
<1>4. \A q \in Run \ {r} : UNCHANGED slot[run[q].slot]
    BY <1>1, <1>2 DEF RunIs
<1> QED BY <1>1, <1>2, <1>3, <1>4, Over

(* A run that gives back what another run of the dub has leaves that run's   *)
(* dub lapsed already.                                                       *)
LEMMA ReleaseKeeps == ASSUME IInv, NEW r \in Run, Release(r) PROVE IInv'
<1>1. /\ Typed /\ UNCHANGED <<row, media, bought, trouble>>
      /\ run[r].pc # "idle" /\ Holds(r)
    BY Pcs DEF IInv, Release, Holds
<1>2. RunIs(r, Idle)
    BY <1>1, IdleType, SetRun DEF Release
<1> DEFINE s == run[r].slot
           free == [holder |-> NoDub, live |-> FALSE]
<1>3. s \in Slot /\ free \in SlotType
    BY <1>1, HasPlace DEF SlotType
<1>4. UNCHANGED slot \/ (slot' = [slot EXCEPT ![s] = free] /\ HeldBySelf(r))
    BY DEF Release
<1> HIDE DEF free
<1>5. /\ slot' \in [Slot -> SlotType] /\ \A t \in Slot \ {s} : slot'[t] = slot[t]
      /\ slot'[s] = slot[s] \/ HeldBySelf(r)
    BY <1>1, <1>3, <1>4, SetSlot DEF Typed
<1>6. events' \in 0..MaxEvents
    BY <1>1, EventTyped DEF Release
<1>7. waiting' \in [Dub -> SUBSET {"plain", "force"}]
    BY <1>1, RetryTyped DEF Release
<1>8. Typed'
    BY <1>1, <1>2, <1>5, <1>6, <1>7 DEF Typed, RunIs
<1>9. ASSUME NEW q \in Run \ {r}, Holds(q), ~Lapsed(q) PROVE UNCHANGED slot[run[q].slot]
    <2>1. OwnedBy(q) /\ run[q].slot \in Slot /\ UNCHANGED run[q]
        BY <1>2, <1>9, HasPlace, Pcs DEF IInv, Owned, Holds, RunIs
    <2>2. ASSUME run[q].slot = s, HeldBySelf(r) PROVE FALSE
        <3>1. run[q].dub = run[r].dub
            BY <2>1, <2>2 DEF OwnedBy, HeldBySelf
        <3>2. Lapsed(r)
            BY <1>1, <1>9, <2>1, <2>2 DEF OwnedBy
        <3> QED BY <1>9, <3>1, <3>2 DEF Lapsed
    <2> QED BY <1>5, <2>1, <2>2
<1> QED BY <1>1, <1>2, <1>8, <1>9, Over

(* A free slot has no run on it whose dub never lapsed. *)
LEMMA AcquireKeeps == ASSUME IInv, NEW r \in Run, Acquire(r) PROVE IInv'
<1>1. /\ Typed /\ UNCHANGED <<row, media, bought, trouble>>
      /\ run[r].pc = "slot" /\ run[r].dub \in Dub /\ RunOK(r) /\ ~Holds(r)
    BY HasPlace, Pcs DEF IInv, Acquire, Holds
<1>2. AllGrow /\ \A e \in Dub : RowOK(e)'
    BY <1>1, NothingWritten
<1>3. waiting' \in [Dub -> SUBSET {"plain", "force"}] /\ events' \in 0..MaxEvents
    BY <1>1, RetryTyped, EventTyped DEF Acquire
<1>4. CASE UNCHANGED slot /\ run' = [run EXCEPT ![r] = Idle]
    <2>1. RunIs(r, Idle)
        BY <1>1, <1>4, IdleType, SetRun
    <2>2. Typed'
        BY <1>1, <1>3, <1>4, <2>1 DEF Typed, RunIs
    <2>3. \A q \in Run \ {r} : UNCHANGED slot[run[q].slot]
        BY <1>4, <2>1 DEF RunIs
    <2> QED BY <1>1, <2>1, <2>2, <2>3, Over
<1>5. ASSUME NEW s \in Slot, Free(s),
             slot' = [slot EXCEPT ![s] = [holder |-> run[r].dub, live |-> TRUE]],
             run' = [run EXCEPT ![r].pc = "claim", ![r].slot = s]
      PROVE  IInv'
    <2> DEFINE new == [holder |-> run[r].dub, live |-> TRUE]
               rec == [[run[r] EXCEPT !.pc = "claim"] EXCEPT !.slot = s]
    <2>1. new \in SlotType /\ new.holder = run[r].dub /\ new.live
        BY <1>1 DEF SlotType
    <2>2. run' = [run EXCEPT ![r] = rec]
        BY <1>1, <1>5 DEF Typed
    <2>3. /\ rec \in RunType /\ rec.pc = "claim" /\ rec.slot = s
          /\ rec.dub = run[r].dub /\ rec.project = run[r].project
        BY <1>1, Pcs, RunParts DEF RunType
    <2>4. slot' = [slot EXCEPT ![s] = new]
        BY <1>5
    <2> HIDE DEF new, rec
    <2>5. /\ slot' \in [Slot -> SlotType] /\ slot'[s] = new
          /\ \A t \in Slot \ {s} : slot'[t] = slot[t]
        BY <1>1, <2>1, <2>4, SetSlot
    <2>6. RunIs(r, rec) /\ rec.pc \in Holding /\ rec.pc \notin Working
        BY <1>1, <2>2, <2>3, SetRun, Pcs
    <2>7. Typed'
        BY <1>1, <1>3, <2>5, <2>6 DEF Typed, RunIs
    <2>8. Placed'
        BY <1>1, <2>3, <2>6, PlacedMoved
    <2>9. RunOK(r)'
        BY <1>1, <1>2, <2>3, <2>6, RunOKMoved
    <2>10. Handles' /\ Claimed'
        <3>1. \A e \in Dub : Taken(e) => Taken(e)'
            BY <1>1 DEF Taken
        <3> QED BY <1>1, <1>2, <2>3, <2>6, <2>9, <3>1, HandlesMoved, ClaimedMoved
    <2>11. \A q \in Run \ {r} : /\ run'[q] = run[q] /\ (Holds(q)' <=> Holds(q))
                                 /\ (Lapsed(q)' <=> Lapsed(q))
        BY <1>1, <2>6 DEF RunIs, Holds, Lapsed
    <2>12. ASSUME NEW q \in Run \ {r}, Holds(q), ~Lapsed(q)
           PROVE  OwnedBy(q) /\ run[q].slot \in Slot \ {s}
        <3>1. OwnedBy(q) /\ run[q].slot \in Slot /\ run[q].dub \in Dub
            BY <2>12, HasPlace, Pcs DEF IInv, Owned, Holds
        <3>2. slot[run[q].slot].live /\ slot[run[q].slot].holder # NoDub
            BY <3>1, NamesAssumption DEF OwnedBy
        <3> QED BY <1>5, <3>1, <3>2 DEF Free
    <2>13. Owned'
        <3>1. ASSUME NEW q \in Run \ {r}, Holds(q)', ~Lapsed(q)' PROVE OwnedBy(q)'
            <4>1. OwnedBy(q) /\ run[q].slot \in Slot \ {s} /\ run'[q] = run[q]
                BY <2>11, <2>12, <3>1
            <4>2. slot'[run'[q].slot].holder = run'[q].dub /\ slot'[run'[q].slot].live
                BY <2>5, <4>1 DEF OwnedBy
            <4>3. run'[r].slot # run'[q].slot
                BY <2>3, <2>6, <4>1 DEF RunIs
            <4>4. \A p \in Run \ {q} : Holds(p)' /\ run'[p].slot = run'[q].slot => Lapsed(p)'
                BY <2>11, <4>1, <4>3 DEF OwnedBy
            <4> QED BY <4>2, <4>4 DEF OwnedBy
        <3>2. OwnedBy(r)'
            <4>1. slot'[run'[r].slot].holder = run'[r].dub /\ slot'[run'[r].slot].live
                BY <2>1, <2>3, <2>5, <2>6 DEF RunIs
            <4>2. \A q \in Run \ {r} : Holds(q)' /\ run'[q].slot = s => Lapsed(q)'
                BY <2>11, <2>12
            <4> QED BY <2>3, <2>6, <4>1, <4>2 DEF OwnedBy, RunIs
        <3> QED BY <3>1, <3>2 DEF Owned
    <2> QED BY <2>7, <2>8, <2>10, <2>13 DEF IInv
<1> QED BY <1>4, <1>5 DEF Acquire

-----------------------------------------------------------------------------
(* The steps of a run that holds its slot. *)

(* Working runs that are left have the dub to themselves, so a step that     *)
(* ends the work of one may write what it likes.                             *)
LEMMA LastWorks ==
    ASSUME IInv, UNCHANGED trouble, NEW r \in Run, NEW rec, RunIs(r, rec), rec.pc \notin Working,
           NEW d \in Dub, Works(r, d), NEW new, RowIs(d, new) \/ UNCHANGED row
    PROVE  \A e \in Dub : Clean(e)' /\ (\E q \in Run : Works(q, e)') /\ Taken(e) => Taken(e)'
<1>1. ASSUME Clean(d), NEW q \in Run, Works(q, d)' PROVE FALSE
    <2>1. q # r /\ Works(q, d)
        BY <1>1 DEF RunIs, Works
    <2> QED BY <1>1, <2>1, Alone
<1>2. \A e \in Dub \ {d} : Taken(e) => Taken(e)'
    BY DEF RowIs, Taken
<1> QED BY <1>1, <1>2 DEF Clean, Taken

LEMMA AgainMoves ==
    ASSUME Typed, NEW r \in Run, NEW again \in BOOLEAN,
           run' = [run EXCEPT ![r].pc = "release", ![r].again = again]
    PROVE  \E rec : OnAs(r, rec, "release") /\ rec.project = run[r].project
<1> DEFINE rec == [[run[r] EXCEPT !.pc = "release"] EXCEPT !.again = again]
<1>1. run' = [run EXCEPT ![r] = rec]
    BY DEF Typed
<1>2. /\ rec \in RunType /\ rec.pc = "release" /\ rec.dub = run[r].dub
      /\ rec.slot = run[r].slot /\ rec.project = run[r].project
    BY RunParts, Pcs DEF RunType
<1> HIDE DEF rec
<1> QED BY <1>1, <1>2, SetRun DEF OnAs

(* A run that only moves on, and nothing it finds changes. *)
LEMMA StepKeeps ==
    ASSUME IInv, NEW r \in Run, PollDone(r) \/ Throw(r)
    PROVE  IInv'
<1>1. /\ Typed /\ UNCHANGED <<row, media, waiting, slot, bought, trouble, events>>
      /\ Holds(r) /\ run[r].pc \in Working /\ run[r].pc # "idle"
    BY Pcs DEF IInv, PollDone, Throw, Holds
<1>2. PICK pc \in {"publish", "failing"} : GoTo(r, pc) /\ (pc = "publish" => run[r].pc = "poll")
    BY DEF PollDone, Throw
<1>3. pc \in Holding /\ pc \in Working
    BY Pcs
<1>4. PICK rec : OnAs(r, rec, pc) /\ rec.project = run[r].project
    BY <1>1, <1>2, <1>3, GoToMoves
<1>5. Typed'
    BY <1>1, <1>4 DEF Typed, OnAs, RunIs
<1>6. AllGrow /\ \A e \in Dub : RowOK(e)'
    BY <1>1, NothingWritten
<1>7. \A e \in Dub : Taken(e) => Taken(e)'
    BY <1>1 DEF Taken
<1>8. RunOK(r)'
    <2>1. run[r].pc = "poll" => run[r].project # 0
        BY <1>1, HasPlace DEF RunOK
    <2> QED BY <1>1, <1>2, <1>4, <1>6, <2>1, RunOKMoved DEF OnAs
<1> QED BY <1>1, <1>2, <1>3, <1>4, <1>5, <1>6, <1>7, <1>8, Onward

LEMMA HandBackKeeps == ASSUME IInv, NEW r \in Run, HandBack(r) PROVE IInv'
<1> DEFINE d == run[r].dub
<1>1. /\ Typed /\ UNCHANGED <<media, waiting, slot, bought, trouble>>
      /\ Holds(r) /\ run[r].pc \in Working /\ run[r].pc # "idle" /\ d \in Dub
    BY HasPlace, Pcs DEF IInv, HandBack, Holds
<1> DEFINE queued == [row[d] EXCEPT !.status = "queued", !.quiet = FALSE, !.stale = FALSE]
<1>2. PICK again \in BOOLEAN :
         /\ run' = [run EXCEPT ![r].pc = "release", ![r].again = again]
         /\ Write(d, queued) \/ UNCHANGED row
         /\ Event \/ UNCHANGED events
    BY DEF HandBack
<1>3. PICK rec : OnAs(r, rec, "release") /\ rec.project = run[r].project
    BY <1>1, <1>2, AgainMoves
<1>4. queued \in RowType /\ queued.status = "queued" /\ queued.project = row[d].project
    <2> HIDE DEF d
    <2> QED BY <1>1, RowParts DEF RowType
<1> HIDE DEF d, queued
<1>5. PICK new : (RowIs(d, new) \/ UNCHANGED row) /\ (RowIs(d, new) => Follows(new, d))
    <2> DEFINE new == IF Exists(d) THEN queued ELSE row[d]
    <2>1. RowIs(d, new) \/ UNCHANGED row
        BY <1>1, <1>2, <1>4, WriteRow
    <2>2. Follows(new, d)
        BY <1>1, <1>4, RowParts DEF Follows, Exists, IInv, Handles, RowOK
    <2> HIDE DEF new
    <2> QED BY <2>1, <2>2
<1>6. AllGrow /\ \A e \in Dub : RowOK(e)'
    BY <1>1, <1>5, RowFollows, NothingWritten
<1>7. Typed'
    BY <1>1, <1>2, <1>3, <1>5, EventTyped DEF Typed, OnAs, RunIs, RowIs
<1>8. RunOK(r)'
    BY <1>1, <1>3, <1>6, RunOKMoved DEF OnAs
<1>9. "release" \in Holding /\ "release" \notin Working
    BY Pcs
<1>10. \A e \in Dub : Clean(e)' /\ (\E q \in Run : Works(q, e)') /\ Taken(e) => Taken(e)'
    BY <1>1, <1>3, <1>5, <1>9, LastWorks DEF OnAs, Works, d
<1> QED BY <1>1, <1>3, <1>6, <1>7, <1>8, <1>9, <1>10, Onward

LEMMA FailKeeps == ASSUME IInv, NEW r \in Run, Fail(r) PROVE IInv'
<1> DEFINE d == run[r].dub
<1>1. /\ Typed /\ UNCHANGED <<media, waiting, slot, bought, trouble>>
      /\ Holds(r) /\ run[r].pc \in Working /\ run[r].pc # "idle" /\ d \in Dub
    BY HasPlace, Pcs DEF IInv, Fail, Holds
<1> DEFINE failed == [row[d] EXCEPT !.status = "failed", !.quiet = FALSE]
<1>2. /\ \/ GoTo(r, "release")
         \/ run' = [run EXCEPT ![r].pc = "release", ![r].again = TRUE]
      /\ Write(d, failed) \/ UNCHANGED row
      /\ Event \/ UNCHANGED events
    BY DEF Fail
<1>3. PICK rec : OnAs(r, rec, "release") /\ rec.project = run[r].project
    BY <1>1, <1>2, AgainMoves, GoToMoves, Pcs
<1>4. failed \in RowType /\ failed.status = "failed" /\ failed.project = row[d].project
    <2> HIDE DEF d
    <2> QED BY <1>1, RowParts DEF RowType
<1> HIDE DEF d, failed
<1>5. PICK new : (RowIs(d, new) \/ UNCHANGED row) /\ (RowIs(d, new) => Follows(new, d))
    <2> DEFINE new == IF Exists(d) THEN failed ELSE row[d]
    <2>1. RowIs(d, new) \/ UNCHANGED row
        BY <1>1, <1>2, <1>4, WriteRow
    <2>2. Follows(new, d)
        BY <1>1, <1>4, RowParts DEF Follows, Exists, IInv, Handles, RowOK
    <2> HIDE DEF new
    <2> QED BY <2>1, <2>2
<1>6. AllGrow /\ \A e \in Dub : RowOK(e)'
    BY <1>1, <1>5, RowFollows, NothingWritten
<1>7. Typed'
    BY <1>1, <1>2, <1>3, <1>5, EventTyped DEF Typed, OnAs, RunIs, RowIs
<1>8. RunOK(r)'
    BY <1>1, <1>3, <1>6, RunOKMoved DEF OnAs
<1>9. "release" \in Holding /\ "release" \notin Working
    BY Pcs
<1>10. \A e \in Dub : Clean(e)' /\ (\E q \in Run : Works(q, e)') /\ Taken(e) => Taken(e)'
    BY <1>1, <1>3, <1>5, <1>9, LastWorks DEF OnAs, Works, d
<1> QED BY <1>1, <1>3, <1>6, <1>7, <1>8, <1>9, <1>10, Onward

LEMMA PublishKeeps == ASSUME IInv, NEW r \in Run, Publish(r) PROVE IInv'
<1> DEFINE d == run[r].dub
<1>1. /\ Typed /\ UNCHANGED <<media, waiting, slot, bought, trouble, events>>
      /\ Holds(r) /\ run[r].pc = "publish" /\ run[r].pc \in Working /\ d \in Dub /\ RunOK(r)
    BY HasPlace, Pcs DEF IInv, Publish, Holds
<1> DEFINE done == [row[d] EXCEPT !.status = "completed", !.quiet = FALSE, !.hash = run[r].media,
                                  !.of = bought[d][run[r].project]]
<1>2. GoTo(r, "release") /\ Write(d, done)
    BY DEF Publish
<1>3. PICK rec : OnAs(r, rec, "release") /\ rec.project = run[r].project
    BY <1>1, <1>2, GoToMoves, Pcs
<1>4. /\ bought[d][run[r].project] \in Media /\ run[r].media \in Media
      /\ row[d].status = "gone" \/ row[d].project # 0
    <2>1. /\ run[r].project \in DOMAIN bought[d] /\ bought[d] \in Seq(Media)
          /\ row[d].status = "gone" \/ row[d].project # 0
        BY <1>1 DEF RunOK, Typed
    <2> QED BY <1>1, <2>1, RunParts
<1>5. done \in RowType /\ done.status = "completed" /\ done.project = row[d].project
    <2> DEFINE of == bought[d][run[r].project]
    <2> HIDE DEF d, of
    <2> QED BY <1>1, <1>4, RowParts DEF RowType, of
<1> HIDE DEF d, done
<1> DEFINE new == IF Exists(d) THEN done ELSE row[d]
<1>6. RowIs(d, new) /\ Follows(new, d)
    <2>1. RowIs(d, new)
        BY <1>1, <1>2, <1>5, WriteRow
    <2> QED BY <1>1, <1>4, <1>5, <2>1, RowParts DEF Follows, Exists
<1> HIDE DEF new
<1>7. AllGrow /\ \A e \in Dub : RowOK(e)'
    BY <1>1, <1>6, RowFollows
<1>8. Typed'
    BY <1>1, <1>3, <1>6 DEF Typed, OnAs, RunIs, RowIs
<1>9. RunOK(r)'
    BY <1>1, <1>3, <1>7, RunOKMoved DEF OnAs
<1>10. "release" \in Holding /\ "release" \notin Working
    BY Pcs
<1>11. \A e \in Dub : Clean(e)' /\ (\E q \in Run : Works(q, e)') /\ Taken(e) => Taken(e)'
    BY <1>1, <1>3, <1>6, <1>10, LastWorks DEF OnAs, Works, d
<1> QED BY <1>1, <1>3, <1>7, <1>8, <1>9, <1>10, <1>11, Onward

(* The row learns the handle, and the run goes on to what the row now has.   *)
LEMMA RecordKeeps == ASSUME IInv, NEW r \in Run, Record(r) PROVE IInv'
<1>0. PICK d \in Dub, p \in Nat : run[r].dub = d /\ run[r].project = p
    BY HasPlace, RunParts DEF IInv, Record
<1>1. /\ Typed /\ UNCHANGED <<media, waiting, slot, bought, trouble, events>>
      /\ Holds(r) /\ run[r].pc = "record" /\ run[r].pc \in Working
    BY Pcs DEF IInv, Record, Holds
<1>2. p \in DOMAIN bought[d] /\ p # 0 /\ row[d].status # "none"
    BY <1>0, <1>1, HasPlace DEF RunOK
<1> DEFINE known == [row[d] EXCEPT !.project = p, !.quiet = FALSE]
<1>3. GoTo(r, "poll") /\ Write(d, known)
    BY <1>0 DEF Record
<1>4. PICK rec : OnAs(r, rec, "poll") /\ rec.project = p
    BY <1>0, <1>1, <1>3, GoToMoves, Pcs
<1>5. /\ known \in RowType /\ known.status = row[d].status /\ known.project = p
      /\ known.stale = row[d].stale
    BY <1>1, <1>2, RowParts DEF RowType
<1> HIDE DEF known
<1> DEFINE new == IF Exists(d) THEN known ELSE row[d]
<1>6. RowIs(d, new) /\ new.status = row[d].status /\ new.stale = row[d].stale
    BY <1>1, <1>3, <1>5, WriteRow
<1>7. new.project = p \/ (row[d].status = "gone" /\ new.project = row[d].project)
    BY <1>2, <1>5 DEF Exists
<1> HIDE DEF new
<1>8. AllGrow /\ \A e \in Dub : RowOK(e)'
    <2>1. \A e \in Dub : RowOK(e)
        BY DEF IInv, Handles
    <2>2. Grows(d)
        BY <1>1, <1>2, <1>6, <1>7 DEF RowIs, Grows
    <2>3. \A e \in Dub \ {d} : Grows(e) /\ RowOK(e)'
        BY <1>1, <1>6, <2>1 DEF RowIs, Grows, RowOK
    <2>4. RowOK(d)'
        BY <1>1, <1>2, <1>6, <1>7, <2>1 DEF RowIs, RowOK
    <2> QED BY <2>2, <2>3, <2>4 DEF AllGrow
<1>9. Typed'
    BY <1>1, <1>4, <1>6 DEF Typed, OnAs, RunIs, RowIs
<1>10. RunOK(r)'
    <2>1. run'[r].dub = d /\ run'[r].project = p
        BY <1>0, <1>4 DEF OnAs, RunIs
    <2>2. (row'[d] = new /\ new.project # 0) \/ row'[d].status = "gone"
        BY <1>1, <1>2, <1>6, <1>7 DEF RowIs
    <2>3. row'[d].status # "none"
        BY <1>1, <1>2, <1>6 DEF RowIs
    <2> QED BY <1>1, <1>2, <2>1, <2>2, <2>3 DEF RunOK
<1>11. "poll" \in Holding
    BY Pcs
<1>12. \A e \in Dub : Taken(e) => Taken(e)'
    BY <1>6 DEF RowIs, Taken
<1> QED BY <1>1, <1>4, <1>8, <1>9, <1>10, <1>11, <1>12, Onward

(* Who claims a row that is clean comes to nobody's work. *)
LEMMA ClaimKeeps == ASSUME IInv, NEW r \in Run, Claim(r) PROVE IInv'
<1>0. PICK d \in Dub : run[r].dub = d
    BY HasPlace DEF Claim
<1>1. /\ Typed /\ UNCHANGED <<media, waiting, slot, bought, events>>
      /\ Holds(r) /\ run[r].pc = "claim" /\ run[r].pc \notin Working
      /\ run[r].slot \in Slot
    BY HasPlace, Pcs DEF IInv, Claim, Holds
<1>2. CASE ~(Exists(d) /\ Claimable(r))
    <2>1. GoTo(r, "release") /\ UNCHANGED <<row, trouble>>
        BY <1>0, <1>2 DEF Claim
    <2>2. PICK rec : OnAs(r, rec, "release") /\ rec.project = run[r].project
        BY <1>1, <2>1, GoToMoves, Pcs
    <2>3. Typed'
        BY <1>1, <2>1, <2>2 DEF Typed, OnAs, RunIs
    <2>4. AllGrow /\ \A e \in Dub : RowOK(e)'
        BY <1>1, <2>1, NothingWritten
    <2>5. RunOK(r)'
        BY <1>1, <2>2, <2>4, RunOKMoved DEF OnAs
    <2>6. \A e \in Dub : Taken(e) => Taken(e)'
        BY <2>1 DEF Taken
    <2>7. "release" \in Holding /\ "release" \notin Working
        BY Pcs
    <2> QED BY <1>1, <2>2, <2>3, <2>4, <2>5, <2>6, <2>7, Onward
<1>3. CASE Exists(d) /\ Claimable(r)
    <2> DEFINE new == [row[d] EXCEPT !.status = "processing", !.quiet = FALSE,
                                     !.stale = FALSE, !.hash = run[r].media]
    <2>1. /\ row' = [row EXCEPT ![d] = new] /\ GoTo(r, "resolve")
          /\ IF run[r].force /\ Worked(d) THEN Mark(d, "force") ELSE UNCHANGED trouble
        <3>1. row' = [row EXCEPT ![d].status = "processing", ![d].quiet = FALSE,
                                 ![d].stale = FALSE, ![d].hash = run[r].media]
            BY <1>0, <1>3 DEF Claim
        <3>2. row' = [row EXCEPT ![d] = new]
            BY <1>1, <3>1 DEF Typed
        <3> QED BY <1>0, <1>3, <3>2 DEF Claim
    <2>2. /\ new \in RowType /\ new.status = "processing" /\ ~new.stale
          /\ new.project = row[d].project
        <3>1. run[r].media \in Media
            BY <1>1, RunParts
        <3> QED BY <1>1, <3>1, RowParts DEF RowType
    <2> HIDE DEF new
    <2>3. RowIs(d, new) /\ Follows(new, d)
        BY <1>1, <1>3, <2>1, <2>2, SetRow DEF Follows, Exists
    <2>4. PICK rec : OnAs(r, rec, "resolve") /\ rec.project = run[r].project
        BY <1>1, <2>1, GoToMoves, Pcs
    <2>5. /\ trouble' \in [Dub -> SUBSET Trouble]
          /\ \A e \in Dub : trouble[e] \subseteq trouble'[e]
          /\ run[r].force /\ Worked(d) => ~Clean(d)'
        <3>1. "force" \in Trouble
            BY DEF Trouble
        <3>2. Mark(d, "force") \/ (UNCHANGED trouble /\ ~(run[r].force /\ Worked(d)))
            BY <2>1
        <3>3. run[r].force /\ Worked(d) => "force" \in trouble'[d]
            BY <1>1, <3>1, <3>2, MarkGrows
        <3>4. trouble' \in [Dub -> SUBSET Trouble] /\ \A e \in Dub : trouble[e] \subseteq trouble'[e]
            BY <1>1, <3>1, <3>2, MarkGrows
        <3>5. "force" \in trouble'[d] => trouble'[d] \cap {"blind", "late", "force", "refuse"} # {}
            OBVIOUS
        <3> QED BY <3>3, <3>4, <3>5 DEF Clean
    <2>6. AllGrow /\ \A e \in Dub : RowOK(e)'
        BY <1>1, <2>3, <2>5, RowFollows
    <2>7. Typed'
        BY <1>1, <2>3, <2>4, <2>5 DEF Typed, OnAs, RunIs, RowIs
    <2>8. /\ RunIs(r, rec) /\ rec.pc = "resolve" /\ rec.dub = d /\ rec.slot = run[r].slot
          /\ rec.project = run[r].project
        BY <1>0, <2>4 DEF OnAs
    <2>9. RunOK(r)'
        BY <1>0, <1>1, <2>6, <2>8, RunOKMoved
    <2>10. Placed' /\ Handles' /\ Owned'
        BY <1>0, <1>1, <2>6, <2>8, <2>9, PlacedMoved, HandlesMoved, OwnedMoved
    <2>12. ASSUME NEW e \in Dub, e # d PROVE Clean(e)' => ClaimedAt(e)'
        <3>1. \A q \in Run : Works(q, e)' => Works(q, e) /\ UNCHANGED run[q].pc
            BY <2>8, <2>12 DEF RunIs, Works
        <3>2. Grows(e) /\ UNCHANGED bought[e] /\ (Taken(e) => Taken(e)')
            BY <1>1, <2>3, <2>6, <2>12 DEF AllGrow, RowIs, Taken
        <3>3. \A q \in Run : Works(q, e)' /\ run'[q].pc = "create" => run[q].pc = "create"
            BY <3>1
        <3> QED BY <3>1, <3>2, <3>3, ClaimKept
    <2>13. ASSUME Clean(d)' PROVE ClaimedAt(d)'
        <3>1. Clean(d) /\ ClaimedAt(d)
            BY <2>6, <2>13 DEF AllGrow, Grows, Clean, IInv, Claimed
        <3>2. ~(run[r].force /\ Worked(d))
            BY <2>5, <2>13
        <3>3. ASSUME NEW q \in Run, Works(q, d) PROVE FALSE
            <4>1. Worked(d) /\ Taken(d)
                BY <3>1, <3>3 DEF Works, Worked, ClaimedAt
            <4>2. row[d].status # "gone" /\ ~(row[d].status = "processing" /\ ~row[d].stale)
                BY <1>0, <1>3, <3>2, <4>1 DEF Exists, Claimable
            <4> QED BY <4>1, <4>2 DEF Taken
        <3>4. \A q \in Run : Works(q, d)' => q = r /\ run'[q].pc = "resolve"
            BY <2>8, <3>3 DEF RunIs, Works
        <3>5. Taken(d)'
            BY <2>2, <2>3 DEF RowIs, Taken
        <3>6. Len(bought'[d]) <= 1
            BY <1>1, <3>1 DEF ClaimedAt
        <3> QED BY <3>4, <3>5, <3>6 DEF ClaimedAt
    <2>14. Claimed'
        BY <2>12, <2>13 DEF Claimed
    <2> QED BY <2>7, <2>10, <2>14 DEF IInv
<1> QED BY <1>2, <1>3

(* A run that comes to buy where nothing was bought, or whose dub is marked. *)
LEMMA ToCreate ==
    ASSUME IInv, NEW r \in Run, run[r].pc = "resolve", GoTo(r, "create"),
           UNCHANGED <<row, media, waiting, slot, bought>>, events' \in 0..MaxEvents,
           NEW d \in Dub, run[r].dub = d,
           \/ bought[d] = <<>> /\ UNCHANGED trouble
           \/ Mark(d, "blind")
    PROVE  IInv'
<1>1. /\ Typed /\ Holds(r) /\ run[r].pc \in Working /\ run[r].slot \in Slot
      /\ Works(r, d)
    BY HasPlace, Pcs DEF IInv, Holds, Works
<1>2. PICK rec : OnAs(r, rec, "create") /\ rec.project = run[r].project
    BY <1>1, GoToMoves, Pcs
<1>3. /\ RunIs(r, rec) /\ rec.pc = "create" /\ rec.dub = d /\ rec.slot = run[r].slot
      /\ rec.project = run[r].project
    BY <1>2 DEF OnAs
<1>4. "blind" \in Trouble
    BY DEF Trouble
<1>5. /\ trouble' \in [Dub -> SUBSET Trouble]
      /\ \A e \in Dub : trouble[e] \subseteq trouble'[e]
      /\ Mark(d, "blind") => "blind" \in trouble'[d]
    BY <1>1, <1>4, MarkGrows
<1>6. AllGrow /\ \A e \in Dub : RowOK(e)'
    BY <1>5, NothingWritten
<1>7. Typed'
    BY <1>1, <1>3, <1>5 DEF Typed, RunIs
<1>8. RunOK(r)'
    BY <1>3, <1>6, RunOKMoved
<1>9. Placed' /\ Handles' /\ Owned'
    BY <1>1, <1>3, <1>6, <1>8, PlacedMoved, HandlesMoved, OwnedMoved
<1>10. \A q \in Run, e \in Dub : Works(q, e)' => Works(q, e)
    BY <1>1, <1>3 DEF RunIs, Works
<1>11. ASSUME NEW e \in Dub, e # d PROVE Clean(e)' => ClaimedAt(e)'
    <2>1. \A q \in Run : Works(q, e)' /\ run'[q].pc = "create" => run[q].pc = "create"
        BY <1>3, <1>11 DEF RunIs, Works
    <2>2. Grows(e) /\ UNCHANGED bought[e] /\ (Taken(e) => Taken(e)')
        BY <1>6 DEF AllGrow, Taken
    <2> QED BY <1>10, <2>1, <2>2, ClaimKept
<1>12. ASSUME Clean(d)' PROVE ClaimedAt(d)'
    <2>1. Clean(d) /\ ClaimedAt(d)
        BY <1>6, <1>12 DEF AllGrow, Grows, Clean, IInv, Claimed
    <2>2. ~Mark(d, "blind")
        <3>1. "blind" \in trouble'[d] => trouble'[d] \cap {"blind", "late", "force", "refuse"} # {}
            OBVIOUS
        <3> QED BY <1>5, <1>12, <3>1 DEF Clean
    <2>3. bought'[d] = <<>> /\ Taken(d)'
        BY <1>1, <2>1, <2>2 DEF ClaimedAt, Taken
    <2>4. \A q \in Run : Works(q, d)' => q = r
        BY <1>1, <1>10, <2>1 DEF ClaimedAt
    <2>5. Len(bought'[d]) <= 1
        BY <2>3
    <2> QED BY <2>3, <2>4, <2>5 DEF ClaimedAt
<1>13. Claimed'
    BY <1>11, <1>12 DEF Claimed
<1> QED BY <1>7, <1>9, <1>13 DEF IInv

LEMMA ResolveKeeps == ASSUME IInv, NEW r \in Run, Resolve(r) PROVE IInv'
<1>0. PICK d \in Dub : run[r].dub = d
    BY HasPlace DEF Resolve
<1>1. /\ Typed /\ UNCHANGED <<row, media, waiting, slot, bought>>
      /\ Holds(r) /\ run[r].pc = "resolve" /\ run[r].pc \in Working
    BY Pcs DEF IInv, Resolve, Holds
<1>2. CASE run[r].project # 0 /\ GoTo(r, "poll") /\ UNCHANGED <<trouble, events>>
    <2>1. PICK rec : OnAs(r, rec, "poll") /\ rec.project = run[r].project
        BY <1>1, <1>2, GoToMoves, Pcs
    <2>2. Typed'
        BY <1>1, <1>2, <2>1 DEF Typed, OnAs, RunIs
    <2>3. AllGrow /\ \A e \in Dub : RowOK(e)'
        BY <1>1, <1>2, NothingWritten
    <2>4. RunOK(r)'
        BY <1>1, <1>2, <2>1, <2>3, RunOKMoved DEF OnAs
    <2>5. \A e \in Dub : Taken(e) => Taken(e)'
        BY <1>1 DEF Taken
    <2>6. "poll" \in Holding
        BY Pcs
    <2> QED BY <1>1, <2>1, <2>2, <2>3, <2>4, <2>5, <2>6, Onward
<1>3. ASSUME NEW p \in DOMAIN bought[d], UNCHANGED <<trouble, events>>,
             run' = [run EXCEPT ![r].pc = "record", ![r].project = p]
      PROVE  IInv'
    <2> DEFINE rec == [[run[r] EXCEPT !.pc = "record"] EXCEPT !.project = p]
    <2>1. run' = [run EXCEPT ![r] = rec]
        BY <1>1, <1>3 DEF Typed
    <2>2. bought[d] \in Seq(Media)
        BY <1>1 DEF Typed
    <2>3. p \in Nat /\ p # 0
        BY <2>2
    <2>4. /\ rec \in RunType /\ rec.pc = "record" /\ rec.project = p
          /\ rec.dub = run[r].dub /\ rec.slot = run[r].slot
        <3>1. run[r] \in RunType /\ "record" \in Holding
            BY <1>1, Pcs, RunParts
        <3>2. rec \in RunType
            BY <2>3, <3>1 DEF RunType
        <3> QED BY <3>1, <3>2 DEF RunType
    <2> HIDE DEF rec
    <2>5. OnAs(r, rec, "record")
        BY <1>1, <2>1, <2>4, SetRun DEF OnAs
    <2>6. Typed'
        BY <1>1, <1>3, <2>5 DEF Typed, OnAs, RunIs
    <2>7. AllGrow /\ \A e \in Dub : RowOK(e)'
        BY <1>1, <1>3, NothingWritten
    <2>8. RunOK(r)'
        <3>1. run'[r].dub = d /\ run'[r].project = p /\ run'[r].pc = "record"
            BY <1>0, <2>4, <2>5 DEF OnAs, RunIs
        <3>2. row[d].status # "none"
            BY <1>0, <1>1, HasPlace DEF RunOK
        <3> QED BY <1>1, <1>3, <2>3, <3>1, <3>2 DEF RunOK
    <2>9. \A e \in Dub : Taken(e) => Taken(e)'
        BY <1>1 DEF Taken
    <2>10. "record" \in Holding
        BY Pcs
    <2> QED BY <1>1, <2>5, <2>6, <2>7, <2>8, <2>9, <2>10, Onward
<1>4. CASE bought[d] = <<>> /\ GoTo(r, "create") /\ UNCHANGED <<trouble, events>>
    <2>1. events' \in 0..MaxEvents
        BY <1>1, <1>4 DEF Typed
    <2> QED BY <1>0, <1>1, <1>4, <2>1, ToCreate
<1>5. CASE GoTo(r, "create") /\ Mark(d, "blind") /\ Event
    <2>1. events' \in 0..MaxEvents
        BY <1>1, <1>5, EventTyped
    <2> QED BY <1>0, <1>1, <1>5, <2>1, ToCreate
<1> QED BY <1>0, <1>2, <1>3, <1>4, <1>5 DEF Resolve

(* Whoever buys was sent here when nothing was bought, and is still alone.   *)
LEMMA CreateKeeps == ASSUME IInv, NEW r \in Run, Create(r) PROVE IInv'
<1>0. PICK d \in Dub, m \in Media : run[r].dub = d /\ run[r].media = m
    BY HasPlace, RunParts DEF IInv, Create
<1>1. /\ Typed /\ UNCHANGED <<row, media, waiting, slot, trouble>> /\ Works(r, d)
      /\ Holds(r) /\ run[r].pc = "create" /\ run[r].pc \in Working /\ run[r].slot \in Slot
    BY <1>0, HasPlace, Pcs DEF IInv, Create, Holds, Works
<1> DEFINE more == Append(bought[d], m)
<1>2. /\ bought[d] \in Seq(Media) /\ more \in Seq(Media) /\ Len(more) = Len(bought[d]) + 1
      /\ DOMAIN bought[d] \subseteq DOMAIN more /\ Len(bought[d]) + 1 \in DOMAIN more
      /\ bought[d] = <<>> => Len(more) <= 1 /\ Len(bought[d]) \in Nat
    <2>1. bought[d] \in Seq(Media)
        BY <1>1 DEF Typed
    <2> QED BY <2>1
<1>3. bought' = [bought EXCEPT ![d] = more]
    BY <1>0 DEF Create
<1> HIDE DEF more
<1>4. /\ bought' \in [Dub -> Seq(Media)] /\ bought'[d] = more
      /\ \A e \in Dub \ {d} : bought'[e] = bought[e]
    BY <1>1, <1>2, <1>3 DEF Typed
<1>5. AllGrow /\ \A e \in Dub : RowOK(e)'
    <2>1. \A e \in Dub : DOMAIN bought[e] \subseteq DOMAIN bought'[e]
        BY <1>2, <1>4
    <2>2. \A e \in Dub : RowOK(e)
        BY DEF IInv, Handles
    <2> QED BY <1>1, <2>1, <2>2 DEF AllGrow, Grows, RowOK
<1>6. events' \in 0..MaxEvents
    BY <1>1, EventTyped DEF Create
<1>7. PICK rec : /\ RunIs(r, rec) /\ rec.dub = d /\ rec.slot = run[r].slot
                 /\ \/ rec.pc = "record" /\ rec.project = Len(bought[d]) + 1
                    \/ rec.pc = "failing" /\ rec.project = run[r].project
    <2>1. CASE GoTo(r, "failing")
        BY <1>0, <1>1, <2>1, GoToMoves, Pcs DEF OnAs
    <2>2. CASE run' = [run EXCEPT ![r].pc = "record", ![r].project = Len(bought[d]) + 1]
        <3>0. PICK p \in Nat : p = Len(bought[d]) + 1
            BY <1>2
        <3> DEFINE new == [[run[r] EXCEPT !.pc = "record"] EXCEPT !.project = p]
        <3>1. run' = [run EXCEPT ![r] = new]
            BY <1>1, <2>2, <3>0 DEF Typed
        <3>2. /\ new \in RunType /\ new.pc = "record" /\ new.project = p
              /\ new.dub = run[r].dub /\ new.slot = run[r].slot
            BY <1>1, Pcs, RunParts DEF RunType
        <3> HIDE DEF new
        <3> QED BY <1>0, <1>1, <3>0, <3>1, <3>2, SetRun
    <2> QED BY <1>0, <2>1, <2>2 DEF Create
<1>8. Typed'
    BY <1>1, <1>4, <1>6, <1>7 DEF Typed, RunIs
<1>9. RunOK(r)'
    <2>1. /\ row'[d].status # "none" /\ run[r].project \in {0} \cup DOMAIN bought'[d]
        BY <1>0, <1>1, <1>2, <1>4, HasPlace DEF RunOK
    <2>2. /\ run'[r] = rec /\ run'[r].dub = d
          /\ Len(bought[d]) + 1 \in DOMAIN bought'[d] /\ Len(bought[d]) + 1 # 0
        BY <1>2, <1>4, <1>7 DEF RunIs
    <2> QED BY <1>7, <2>1, <2>2 DEF RunOK
<1>10. rec.pc \in Holding /\ rec.pc # "idle" /\ rec.pc # "create"
    BY <1>7, Pcs
<1>11. Placed' /\ Handles' /\ Owned'
    BY <1>0, <1>1, <1>5, <1>7, <1>9, <1>10, PlacedMoved, HandlesMoved, OwnedMoved
<1>12. \A q \in Run, e \in Dub : Works(q, e)' => Works(q, e)
    BY <1>1, <1>7 DEF RunIs, Works
<1>13. \A q \in Run : run'[q].pc = "create" => q # r /\ run[q].pc = "create"
    BY <1>7, <1>10 DEF RunIs
<1>14. ASSUME NEW e \in Dub, e # d PROVE Clean(e)' => ClaimedAt(e)'
    <2>1. Grows(e) /\ UNCHANGED bought[e] /\ (Taken(e) => Taken(e)')
        BY <1>1, <1>4, <1>5, <1>14 DEF AllGrow, Taken
    <2> QED BY <1>12, <1>13, <2>1, ClaimKept
<1>15. ASSUME Clean(d)' PROVE ClaimedAt(d)'
    <2>1. Clean(d)
        BY <1>5, <1>15 DEF AllGrow, Grows, Clean
    <2>2. /\ bought[d] = <<>> /\ Taken(d)'
          /\ \A q \in Run : Works(q, d) => q = r
        BY <1>1, <2>1, Alone DEF Taken
    <2>3. Len(bought'[d]) <= 1
        BY <1>2, <1>4, <2>2
    <2> QED BY <1>12, <1>13, <2>2, <2>3 DEF ClaimedAt
<1>16. Claimed'
    BY <1>14, <1>15 DEF Claimed
<1> QED BY <1>8, <1>11, <1>16 DEF IInv

-----------------------------------------------------------------------------
LEMMA StepKeepsIInv == ASSUME IInv, [Next]_vars PROVE IInv'
<1>1. CASE UNCHANGED vars
    <2>1. UNCHANGED row /\ UNCHANGED media /\ UNCHANGED waiting /\ UNCHANGED run
          /\ UNCHANGED slot /\ UNCHANGED bought /\ UNCHANGED trouble /\ UNCHANGED events
        BY <1>1 DEF vars
    <2>2. Typed' /\ AllGrow /\ (\A e \in Dub : RowOK(e)') /\ \A e \in Dub : Taken(e) => Taken(e)'
        BY <2>1, NothingWritten DEF IInv, Typed, Taken
    <2> QED BY <2>1, <2>2, Standing
<1>2. ASSUME NEW d \in Dub,
             \/ Request(d) \/ AskAgain(d) \/ Regenerate(d, "plain") \/ Regenerate(d, "force")
             \/ Replace(d) \/ Delete(d) \/ Refuse(d) \/ GoQuiet(d) \/ GoStale(d)
      PROVE  IInv'
    BY <1>2, RequestKeeps, QueueKeeps, DeleteKeeps, RefuseKeeps, TimeKeeps
<1>3. ASSUME NEW r \in Run, RunStep(r)
      PROVE  IInv'
    BY <1>3, AcquireKeeps, ClaimKeeps, ResolveKeeps, CreateKeeps, RecordKeeps, StepKeeps,
       HandBackKeeps, PublishKeeps, FailKeeps, ReleaseKeeps DEF RunStep
<1>4. ASSUME NEW r \in Run,
             \/ Heartbeat(r) \/ Stage(r) \/ Throw(r) \/ Die(r) \/ Redeliver(r)
             \/ \E d \in Dub : Start(r, d)
      PROVE  IInv'
    <2>1. CASE Redeliver(r)
        <3>1. PICK d \in Dub : run[r].dub = d
            BY <2>1, HasPlace, Pcs DEF Redeliver
        <3> QED BY <2>1, <3>1, QueueKeeps
    <2> QED BY <1>4, <2>1, HeartbeatKeeps, StageKeeps, StepKeeps, DieKeeps, StartKeeps
<1>5. ASSUME NEW s \in Slot, Expire(s) PROVE IInv'
    BY <1>5, ExpireKeeps
<1> QED BY <1>1, <1>2, <1>3, <1>4, <1>5 DEF Next

(* What the invariant says holds in every state: the claim and the slots are *)
(* kept by the runs, the handles by the rows.                                *)
THEOREM Invariant == Spec => []IInv
<1>1. IInv /\ [Next]_vars => IInv'
    BY StepKeepsIInv
<1> QED BY <1>1, Initially, PTL DEF Spec

(* Types, and what a row and a run know of the vendor's projects. *)
THEOREM TypeCorrect == Spec => []TypeOK
BY Invariant, InvariantSaysTypeOK, PTL

(* A dub is bought once, but for the troubles that break its claim. *)
THEOREM InvoicedOnce == Spec => []OneInvoice
BY Invariant, InvariantSaysOneInvoice, PTL

(* A slot is one dub's, but for those that once outlasted a lease. *)
THEOREM SlotsStayExclusive == Spec => []SlotsAreExclusive
BY Invariant, InvariantSaysSlotsAreExclusive, PTL
=============================================================================
