------------------------- MODULE SimRevisionProofs -------------------------
(***************************************************************************)
(* Proofs about SimRevision, for any number of processes, files, revisions *)
(* and activations.  The inductive invariant IInv says what each process   *)
(* may rely on between two of its own steps; the safety theorems and the   *)
(* implementation of PackageRegister follow from it.                       *)
(***************************************************************************)
EXTENDS SimRevision, FiniteSetTheorems, TLAPS

(* No row exists under a number the counter has not reached. *)
Unborn == \A r \in Rev : r > counter => status[r] = "none"

RowsOK ==
    /\ PointerNamesTheActiveRow
    /\ EligibleRevisionsAreWhole
    /\ ShownVerdictIsOfServedBytes
    /\ Unborn

(* What a publication may find its row to be, by where it is in the         *)
(* pipeline: only the collector interferes.                                 *)
Expects(pc) ==
    IF pc = "drafted" THEN {"draft", "none"}
    ELSE IF pc = "uploading" THEN {"uploading", "none"}
    ELSE IF pc \in {"validating", "verified", "manifested"} THEN {"validating", "none"}
    ELSE IF pc \in {"staged", "activating"} THEN {"canary_passed", "none"}
    ELSE Status

(* A publication between two of its steps: its draft was counted; its row   *)
(* is where it left it; what validation saw is still stored; the draft      *)
(* contains what the package it was derived from contained.                 *)
PubOK(p) ==
    LET r == pub[p].rev
        b == pub[p].base
        pc == pub[p].pc
    IN  /\ r <= counter /\ b <= counter
        /\ r = NoRev <=> pc \in {"idle", "pointed", "planned"}
        /\ r # NoRev => status[r] \in Expects(pc)
        /\ pc = "failing" => pub[p].from # "none"
        /\ pc \in {"verified", "manifested"} /\ status[r] = "validating"
             => File \subseteq stored[r]
        /\ r # NoRev /\ b # NoRev => edits[b] \subseteq edits[r]

(* A draft belongs to the one publication that created it. *)
Owned ==
    \A p, q \in Publisher : p # q /\ pub[p].rev # NoRev => pub[p].rev # pub[q].rev

(* A rollback only ever holds a row that has been live. *)
OpOK(o) ==
    /\ op[o].target <= counter
    /\ op[o].target # NoRev => status[op[o].target] \in Retained \cup {"none"}

(* The collector only deletes bytes whose row it has deleted. *)
GcOK(g) ==
    gc[g].pc = "bytes" => /\ gc[g].cur \in Rev
                          /\ gc[g].cur <= counter
                          /\ status[gc[g].cur] = "none"

IInv ==
    /\ TypeOK
    /\ RowsOK
    /\ \A p \in Publisher : PubOK(p)
    /\ Owned
    /\ \A o \in Operator : OpOK(o)
    /\ \A g \in Collector : GcOK(g)

-----------------------------------------------------------------------------
(* Types. *)

LEMMA RevFacts == NoRev \notin Rev /\ \A r \in Rev \cup {NoRev} : r \in Nat
BY BoundAssumption DEF Rev, NoRev

(* One process's record is replaced by another of its type. *)
LEMMA PubUpdate ==
    ASSUME TypeOK, NEW p \in Publisher, NEW rec \in PubType,
           pub' = [pub EXCEPT ![p] = rec]
    PROVE  /\ pub' \in [Publisher -> PubType]
           /\ pub'[p] = rec
           /\ \A q \in Publisher : q # p => pub'[q] = pub[q]
BY DEF TypeOK

LEMMA OpUpdate ==
    ASSUME TypeOK, NEW o \in Operator, NEW rec \in OpType,
           op' = [op EXCEPT ![o] = rec]
    PROVE  /\ op' \in [Operator -> OpType]
           /\ op'[o] = rec
           /\ \A q \in Operator : q # o => op'[q] = op[q]
BY DEF TypeOK

LEMMA GcUpdate ==
    ASSUME TypeOK, NEW g \in Collector, NEW rec \in GcType,
           gc' = [gc EXCEPT ![g] = rec]
    PROVE  /\ gc' \in [Collector -> GcType]
           /\ gc'[g] = rec
           /\ \A q \in Collector : q # g => gc'[q] = gc[q]
BY DEF TypeOK

(* The three ways a publication's record changes most of the time. *)
LEMMA GoToEffect ==
    ASSUME TypeOK, NEW p \in Publisher, NEW x \in PubPc, GoTo(p, x)
    PROVE  /\ pub' \in [Publisher -> PubType]
           /\ \A q \in Publisher : q # p => pub'[q] = pub[q]
           /\ pub'[p].pc = x /\ pub'[p].rev = pub[p].rev /\ pub'[p].base = pub[p].base
           /\ pub'[p].from = pub[p].from
<1> DEFINE rec == [pub[p] EXCEPT !.pc = x]
<1>1. pub[p] \in PubType
    BY DEF TypeOK
<1>2. /\ rec \in PubType /\ rec.pc = x /\ rec.rev = pub[p].rev
      /\ rec.base = pub[p].base /\ rec.from = pub[p].from
    BY <1>1 DEF PubType
<1>3. pub' = [pub EXCEPT ![p] = rec]
    BY DEF GoTo
<1> QED BY <1>2, <1>3, PubUpdate

LEMMA FailEffect ==
    ASSUME TypeOK, NEW p \in Publisher,
           NEW x \in {"uploading", "validating", "canary_passed"}, Fail(p, x)
    PROVE  /\ pub' \in [Publisher -> PubType]
           /\ \A q \in Publisher : q # p => pub'[q] = pub[q]
           /\ pub'[p].pc = "failing" /\ pub'[p].rev = pub[p].rev
           /\ pub'[p].base = pub[p].base /\ pub'[p].from = x
<1> DEFINE rec == [pub[p] EXCEPT !.pc = "failing", !.from = x]
<1>1. pub[p] \in PubType
    BY DEF TypeOK
<1>2. /\ rec \in PubType /\ rec.pc = "failing" /\ rec.rev = pub[p].rev
      /\ rec.base = pub[p].base /\ rec.from = x
    BY <1>1 DEF PubType, PubPc
<1>3. pub' = [pub EXCEPT ![p] = rec]
    BY DEF Fail
<1> QED BY <1>2, <1>3, PubUpdate

LEMMA StopEffect ==
    ASSUME TypeOK, NEW p \in Publisher, Stop(p)
    PROVE  /\ pub' \in [Publisher -> PubType]
           /\ \A q \in Publisher : q # p => pub'[q] = pub[q]
           /\ pub'[p].pc = "idle" /\ pub'[p].rev = NoRev /\ pub'[p].base = NoRev
           /\ pub'[p].from = "none"
<1>1. IdlePub \in PubType /\ IdlePub.pc = "idle" /\ IdlePub.rev = NoRev
      /\ IdlePub.base = NoRev /\ IdlePub.from = "none"
    BY DEF IdlePub, PubType, PubPc
<1> QED BY <1>1, PubUpdate DEF Stop

-----------------------------------------------------------------------------
(* What a step may do to the rows behind the back of the other processes.   *)

History ==
    /\ counter' >= counter
    /\ \A r \in Rev : r <= counter => edits'[r] = edits[r]
    /\ \A r \in Rev : r <= counter /\ status[r] = "none" => status'[r] = "none"
    /\ \A r \in Rev : status[r] \in Retained => status'[r] \in Retained \cup {"none"}

LEMMA OtherPub ==
    ASSUME TypeOK, TypeOK', History, NEW q \in Publisher, PubOK(q), pub'[q] = pub[q],
           pub[q].rev # NoRev => \/ status'[pub[q].rev] \in {status[pub[q].rev], "none"}
                                \/ status[pub[q].rev] \in Retained,
           pub[q].rev # NoRev /\ status'[pub[q].rev] = "validating"
                              => stored[pub[q].rev] \subseteq stored'[pub[q].rev]
    PROVE  PubOK(q)'
<1> DEFINE r == pub[q].rev
           b == pub[q].base
           pc == pub[q].pc
<1>1. /\ r \in Rev \cup {NoRev} /\ b \in Rev \cup {NoRev} /\ pc \in PubPc
      /\ counter \in Nat /\ counter' \in Nat
    BY BoundAssumption DEF TypeOK, PubType
<1>2. pub'[q].rev = r /\ pub'[q].base = b /\ pub'[q].pc = pc /\ pub'[q].from = pub[q].from
    OBVIOUS
<1>3. r <= counter' /\ b <= counter'
    <2>1. r \in Nat /\ b \in Nat
        BY <1>1, RevFacts DEF NoRev
    <2>2. r <= counter /\ b <= counter /\ counter <= counter'
        BY DEF PubOK, History
    <2> QED BY <1>1, <2>1, <2>2
<1>4. r # NoRev => status'[r] \in Expects(pc)
    <2>1. r # NoRev => status[r] \in Expects(pc) /\ status'[r] \in Status
        BY <1>1 DEF PubOK, TypeOK
    <2> QED BY <2>1, <1>1 DEF Expects, Retained, PubPc, Status
<1>5. pc \in {"verified", "manifested"} /\ status'[r] = "validating"
        => File \subseteq stored'[r]
    <2> SUFFICES ASSUME pc \in {"verified", "manifested"}, status'[r] = "validating"
                 PROVE  File \subseteq stored'[r]
        OBVIOUS
    <2>1. r # NoRev
        BY DEF PubOK
    <2>2. status[r] \in {"validating", "none"}
        BY <2>1 DEF PubOK, Expects
    <2>3. status[r] = "validating"
        BY <2>1, <2>2 DEF Retained
    <2> QED BY <2>1, <2>3 DEF PubOK
<1>6. r # NoRev /\ b # NoRev => edits'[b] \subseteq edits'[r]
    BY <1>1 DEF PubOK, History
<1>7. (r = NoRev <=> pc \in {"idle", "pointed", "planned"}) /\ (pc = "failing" => pub[q].from # "none")
    BY DEF PubOK
<1> QED BY <1>2, <1>3, <1>4, <1>5, <1>6, <1>7 DEF PubOK

LEMMA OtherOp ==
    ASSUME TypeOK, TypeOK', History, NEW o \in Operator, OpOK(o), op'[o] = op[o]
    PROVE  OpOK(o)'
<1>1. op[o].target \in Rev \cup {NoRev} /\ counter \in Nat /\ counter' \in Nat
    BY BoundAssumption DEF TypeOK, OpType
<1>2. op[o].target \in Nat
    BY <1>1, RevFacts DEF NoRev
<1>3. op[o].target <= counter'
    BY <1>1, <1>2 DEF OpOK, History
<1>4. ASSUME op[o].target # NoRev PROVE status'[op[o].target] \in Retained \cup {"none"}
    BY <1>1, <1>4 DEF OpOK, History
<1> QED BY <1>3, <1>4 DEF OpOK

LEMMA OtherGc ==
    ASSUME TypeOK, TypeOK', History, NEW g \in Collector, GcOK(g), gc'[g] = gc[g]
    PROVE  GcOK(g)'
<1>1. counter \in Nat /\ counter' \in Nat
    BY BoundAssumption DEF TypeOK
<1> SUFFICES ASSUME gc[g].pc = "bytes"
             PROVE  /\ gc[g].cur \in Rev
                    /\ gc[g].cur <= counter'
                    /\ status'[gc[g].cur] = "none"
    BY DEF GcOK
<1>2. /\ gc[g].cur \in Rev /\ gc[g].cur <= counter
      /\ status[gc[g].cur] = "none"
    BY DEF GcOK
<1>3. gc[g].cur \in Nat /\ counter <= counter'
    BY <1>2, RevFacts DEF History
<1> QED BY <1>1, <1>2, <1>3 DEF History

(* A publication's step that keeps to its own row, and to live rows,        *)
(* preserves the invariant if it does so for itself.                        *)
LEMMA PubFrame ==
    ASSUME IInv, TypeOK', RowsOK', History, UNCHANGED <<op, gc>>,
           NEW p \in Publisher, PubOK(p)',
           \A q \in Publisher : q # p => pub'[q] = pub[q],
           pub'[p].rev \in {NoRev, pub[p].rev, counter + 1},
           \A r \in Rev : r # pub[p].rev /\ r <= counter
                            => /\ status'[r] = status[r] \/ status[r] \in Retained
                               /\ stored'[r] = stored[r]
    PROVE  IInv' /\ History
<1>0. TypeOK /\ counter \in Nat
    BY BoundAssumption DEF IInv, TypeOK
<1>1. ASSUME NEW q \in Publisher, q # p PROVE PubOK(q)'
    <2>1. pub[q].rev \in Rev \cup {NoRev} /\ pub[q].rev <= counter
        BY <1>0 DEF IInv, PubOK, TypeOK, PubType
    <2>2. pub[q].rev # NoRev => pub[q].rev # pub[p].rev
        BY <1>1 DEF IInv, Owned
    <2> QED BY <1>0, <1>1, <2>1, <2>2, OtherPub DEF IInv
<1>2. \A q \in Publisher : PubOK(q)'
    BY <1>1
<1>3. Owned'
    <2>1. \A q \in Publisher : pub[q].rev <= counter /\ pub[q].rev \in Rev \cup {NoRev}
        BY <1>0 DEF IInv, PubOK, TypeOK, PubType
    <2>2. \A q \in Publisher : pub[q].rev # counter + 1
        BY <2>1, <1>0, RevFacts DEF NoRev
    <2> QED BY <2>2 DEF IInv, Owned
<1>4. \A o \in Operator : OpOK(o)'
    BY <1>0, OtherOp DEF IInv
<1>5. \A g \in Collector : GcOK(g)'
    BY <1>0, OtherGc DEF IInv
<1> QED BY <1>2, <1>3, <1>4, <1>5 DEF IInv

(* The same for a step that touches neither rows nor bytes. *)
LEMMA PubQuiet ==
    ASSUME IInv, NEW p \in Publisher,
           UNCHANGED <<rows, sim, stored, ripe, op, gc, held>>, stamp' \in Nat,
           pub' \in [Publisher -> PubType],
           \A q \in Publisher : q # p => pub'[q] = pub[q],
           pub'[p].rev \in {NoRev, pub[p].rev},
           PubOK(p)'
    PROVE  IInv' /\ History
<1>1. TypeOK'
    BY DEF IInv, TypeOK, rows, sim
<1>2. RowsOK'
    BY DEF IInv, RowsOK, PointerNamesTheActiveRow, EligibleRevisionsAreWhole,
           ShownVerdictIsOfServedBytes, Unborn, rows, sim
<1>3. History
    BY BoundAssumption DEF IInv, TypeOK, History, rows, sim
<1> QED BY <1>1, <1>2, <1>3, PubFrame DEF rows, sim

(* A row moves on before it has ever been live. *)
LEMMA RowMoves ==
    ASSUME IInv, NEW r \in Rev, status[r] \notin Retained \cup {"none"},
           NEW to \in {"uploading", "validating", "canary_passed", "failed"},
           status' = [status EXCEPT ![r] = to],
           to = "canary_passed" => hashed'[r] /\ File \subseteq stored[r],
           \A s \in Rev : s # r => hashed'[s] = hashed[s],
           UNCHANGED <<verdict, edits, sim, stored>>
    PROVE  RowsOK' /\ History
<1> USE DEF IInv, TypeOK, sim
<1>1. \A s \in Rev : status'[s] = IF s = r THEN to ELSE status[s]
    OBVIOUS
<1>2. r <= counter /\ r # active
    BY BoundAssumption, RevFacts DEF RowsOK, Unborn, PointerNamesTheActiveRow, Retained
<1>3. PointerNamesTheActiveRow'
    BY <1>1, <1>2 DEF RowsOK, PointerNamesTheActiveRow
<1>4. EligibleRevisionsAreWhole'
    BY <1>1 DEF RowsOK, EligibleRevisionsAreWhole, ActivatableFrom
<1>5. ShownVerdictIsOfServedBytes'
    BY DEF RowsOK, ShownVerdictIsOfServedBytes
<1>6. Unborn'
    BY <1>1, <1>2 DEF RowsOK, Unborn
<1>7. History
    BY <1>1, BoundAssumption DEF History, Retained
<1> QED BY <1>3, <1>4, <1>5, <1>6, <1>7 DEF RowsOK

(* The activation transaction, whoever runs it. *)
LEMMA ActivateEffect ==
    ASSUME IInv, NEW r \in Rev \cup {NoRev}, NEW expected \in Rev \cup {NoRev},
           NEW supersede \in {"retired", "rolled_back"}, NEW at \in Nat,
           Activate(r, expected, supersede, at), UNCHANGED stored
    PROVE  /\ RowsOK' /\ History
           /\ r \in Rev /\ active' = r /\ status[r] \in ActivatableFrom
           /\ status' \in [Rev -> Status] /\ activatedAt' \in [Rev -> Nat]
           /\ active' \in Rev /\ shown' \in Class \cup {NoClass}
           /\ \A s \in Rev : s # r => status'[s] = status[s] \/ status[s] \in Retained
           /\ expected = active
           /\ status' = [s \in Rev |-> IF s = r THEN "active"
                                       ELSE IF s = expected THEN supersede ELSE status[s]]
<1> USE DEF IInv, TypeOK
<1>0. /\ r \in Rev /\ status[r] \in ActivatableFrom /\ hashed[r]
      /\ expected = active
      /\ expected \notin {NoRev, r} => status[expected] = "active"
    BY DEF Activate, ActivationHolds, CanPromote, CanDemote, PointerUnmoved
<1>1. /\ active' = r /\ shown' = verdict[r]
      /\ UNCHANGED <<hashed, verdict, edits, counter>>
      /\ activatedAt' = [activatedAt EXCEPT ![r] = at]
      /\ status' = [s \in Rev |-> IF s = r THEN "active"
                                  ELSE IF s = expected THEN supersede ELSE status[s]]
    BY DEF Activate
<1>2. \A s \in Rev : status'[s] = IF s = r THEN "active"
                                  ELSE IF s = expected THEN supersede ELSE status[s]
    BY <1>1
<1>3. PointerNamesTheActiveRow'
    BY <1>0, <1>1, <1>2 DEF RowsOK, PointerNamesTheActiveRow
<1>4. EligibleRevisionsAreWhole'
    <2> SUFFICES ASSUME NEW s \in Rev, status'[s] \in ActivatableFrom \cup {"active"}
                 PROVE  hashed[s] /\ File \subseteq stored[s]
        BY <1>1 DEF EligibleRevisionsAreWhole
    <2>1. status[s] \in ActivatableFrom \cup {"active"}
        BY <1>0, <1>2, RevFacts
    <2> QED BY <2>1 DEF RowsOK, EligibleRevisionsAreWhole
<1>5. ShownVerdictIsOfServedBytes'
    BY <1>0, <1>1 DEF ShownVerdictIsOfServedBytes
<1>6. Unborn'
    BY <1>0, <1>1, <1>2, RevFacts DEF RowsOK, Unborn, ActivatableFrom
<1>7. History
    BY <1>0, <1>1, <1>2, RevFacts, BoundAssumption DEF History, Retained, ActivatableFrom
<1>8. \A s \in Rev : s # r => status'[s] = status[s] \/ status[s] \in Retained
    BY <1>0, <1>2, RevFacts DEF Retained
<1>9. status' \in [Rev -> Status] /\ activatedAt' \in [Rev -> Nat]
    BY <1>0, <1>1 DEF Status
<1> QED BY <1>0, <1>1, <1>3, <1>4, <1>5, <1>6, <1>7, <1>8, <1>9 DEF RowsOK

-----------------------------------------------------------------------------
(* Every step preserves the invariant. *)

(* The initial states satisfy it. *)
LEMMA InvInit == Init => IInv
<1> SUFFICES ASSUME Init PROVE IInv
    OBVIOUS
<1> USE DEF Init
<1>1. TypeOK
    <2>1. /\ IdlePub \in PubType /\ IdleOp \in OpType /\ IdleGc \in GcType
        BY DEF IdlePub, IdleOp, IdleGc, PubType, OpType, GcType, PubPc
    <2> QED BY <2>1, BoundAssumption DEF TypeOK, Status
<1>2. RowsOK
    BY RevFacts DEF RowsOK, PointerNamesTheActiveRow, EligibleRevisionsAreWhole,
                    ActivatableFrom, ShownVerdictIsOfServedBytes, Unborn
<1>3. \A p \in Publisher : PubOK(p)
    BY DEF PubOK, IdlePub, NoRev
<1>4. Owned /\ (\A o \in Operator : OpOK(o)) /\ (\A g \in Collector : GcOK(g))
    BY DEF Owned, OpOK, GcOK, IdlePub, IdleOp, IdleGc, NoRev
<1> QED BY <1>1, <1>2, <1>3, <1>4 DEF IInv

(* Steps of a publication that change nothing but its own record. *)
LEMMA QuietStep ==
    ASSUME IInv, NEW p \in Publisher,
           \/ ReadPointer(p) \/ ReadBase(p) \/ UploadFails(p) \/ ReadBack(p)
           \/ AbortBeforeActivation(p) \/ StartActivation(p) \/ ActivationRollsBack(p) \/ Abandon(p)
    PROVE  IInv' /\ History
<1>0. TypeOK /\ PubOK(p) /\ pub[p] \in PubType /\ counter \in Nat /\ stamp \in Nat
    BY BoundAssumption DEF IInv, TypeOK
<1>1. CASE ReadPointer(p)
    <2> DEFINE rec == [pub[p] EXCEPT !.pc = "pointed", !.base = active]
    <2>1. active \in Rev \cup {NoRev}
        BY <1>0 DEF TypeOK
    <2>2. /\ rec \in PubType /\ rec.pc = "pointed" /\ rec.base = active
          /\ rec.rev = pub[p].rev
        BY <1>0, <2>1 DEF PubType, PubPc
    <2>3. /\ pub' \in [Publisher -> PubType] /\ pub'[p] = rec
          /\ \A q \in Publisher : q # p => pub'[q] = pub[q]
        BY <1>0, <1>1, <2>2, PubUpdate DEF ReadPointer
    <2>4. active <= counter
        <3>1. active # NoRev => status[active] = "active"
            BY <2>1 DEF IInv, RowsOK, PointerNamesTheActiveRow
        <3>2. active \in Nat
            BY <2>1, RevFacts
        <3> QED BY <1>0, <2>1, <3>1, <3>2 DEF IInv, RowsOK, Unborn, NoRev
    <2>5. pub[p].rev = NoRev
        BY <1>0, <1>1 DEF PubOK, ReadPointer
    <2>6. PubOK(p)'
        BY <1>0, <1>1, <2>2, <2>3, <2>4, <2>5 DEF PubOK, ReadPointer, sim, NoRev
    <2> QED BY <1>0, <1>1, <2>2, <2>3, <2>6, PubQuiet DEF ReadPointer
<1>2. CASE UploadFails(p)
    <2>1. PubOK(p)'
        BY <1>0, <1>2, FailEffect DEF UploadFails, PubOK, Expects, rows, sim, IInv, TypeOK, PubType
    <2> QED BY <1>0, <1>2, <2>1, FailEffect, PubQuiet DEF UploadFails
<1>3. CASE ReadBack(p)
    <2>1. CASE GoTo(p, "verified") /\ File \subseteq stored[pub[p].rev]
        <3>1. "verified" \in PubPc
            BY DEF PubPc
        <3>2. PubOK(p)'
            BY <1>0, <1>3, <2>1, <3>1, GoToEffect DEF ReadBack, PubOK, Expects, rows, sim
        <3> QED BY <1>0, <1>3, <2>1, <3>1, <3>2, GoToEffect, PubQuiet DEF ReadBack
    <2>2. CASE Fail(p, "validating")
        <3>1. PubOK(p)'
            BY <1>0, <1>3, <2>2, FailEffect
               DEF ReadBack, PubOK, Expects, rows, sim, IInv, TypeOK, PubType
        <3> QED BY <1>0, <1>3, <2>2, <3>1, FailEffect, PubQuiet DEF ReadBack
    <2> QED BY <1>3, <2>1, <2>2 DEF ReadBack
<1>4. CASE AbortBeforeActivation(p) \/ ActivationRollsBack(p)
    <2>1. PubOK(p)'
        BY <1>0, <1>4, FailEffect
           DEF AbortBeforeActivation, ActivationRollsBack, PubOK, Expects, rows, sim,
               IInv, TypeOK, PubType
    <2> QED BY <1>0, <1>4, <2>1, FailEffect, PubQuiet
               DEF AbortBeforeActivation, ActivationRollsBack
<1>5. CASE StartActivation(p)
    <2> DEFINE rec == [pub[p] EXCEPT !.pc = "activating", !.at = stamp']
    <2>1. stamp' \in Nat
        BY <1>0, <1>5 DEF StartActivation, ReadClock
    <2>2. /\ rec \in PubType /\ rec.pc = "activating" /\ rec.rev = pub[p].rev
          /\ rec.base = pub[p].base
        BY <1>0, <2>1 DEF PubType, PubPc
    <2>3. /\ pub' \in [Publisher -> PubType] /\ pub'[p] = rec
          /\ \A q \in Publisher : q # p => pub'[q] = pub[q]
        BY <1>0, <1>5, <2>2, PubUpdate DEF StartActivation
    <2>4. PubOK(p)'
        BY <1>0, <1>5, <2>2, <2>3 DEF StartActivation, PubOK, Expects, rows, sim
    <2> QED BY <1>0, <1>5, <2>1, <2>2, <2>3, <2>4, PubQuiet DEF StartActivation
<1>6. CASE Abandon(p)
    <2>1. PubOK(p)'
        BY <1>0, <1>6, StopEffect DEF Abandon, PubOK, rows, sim, NoRev
    <2> QED BY <1>0, <1>6, <2>1, StopEffect, PubQuiet DEF Abandon
<1>7. CASE ReadBase(p)
    <2>1. CASE GoTo(p, "planned")
        <3>1. "planned" \in PubPc
            BY DEF PubPc
        <3>2. PubOK(p)'
            BY <1>0, <1>7, <2>1, <3>1, GoToEffect DEF ReadBase, PubOK, Expects, rows, sim
        <3> QED BY <1>0, <1>7, <2>1, <3>1, <3>2, GoToEffect, PubQuiet DEF ReadBase
    <2>2. CASE Stop(p)
        <3>1. PubOK(p)'
            BY <1>0, <1>7, <2>2, StopEffect DEF ReadBase, PubOK, rows, sim, NoRev
        <3> QED BY <1>0, <1>7, <2>2, <3>1, StopEffect, PubQuiet DEF ReadBase
    <2> QED BY <1>7, <2>1, <2>2 DEF ReadBase
<1> QED BY <1>1, <1>2, <1>3, <1>4, <1>5, <1>6, <1>7

(* The draft gets a number nothing has used. *)
LEMMA CreateStep ==
    ASSUME IInv, NEW p \in Publisher, CreateDraft(p)
    PROVE  IInv' /\ History
<1> DEFINE r == counter + 1
           b == pub[p].base
           rec == [pub[p] EXCEPT !.pc = "drafted", !.rev = r]
<1>0. /\ TypeOK /\ PubOK(p) /\ pub[p] \in PubType /\ counter \in Nat
      /\ pub[p].rev = NoRev
    BY BoundAssumption DEF IInv, TypeOK, PubOK, CreateDraft
<1>1. r \in Rev /\ r \in 0..MaxRevisions /\ counter < r
    BY <1>0, BoundAssumption DEF CreateDraft, Rev
<1>2. /\ rec \in PubType /\ rec.pc = "drafted" /\ rec.rev = r /\ rec.base = b
    BY <1>0, <1>1 DEF PubType, PubPc
<1>3. /\ pub' \in [Publisher -> PubType] /\ pub'[p] = rec
      /\ \A q \in Publisher : q # p => pub'[q] = pub[q]
    BY <1>0, <1>2, PubUpdate DEF CreateDraft
<1>4. /\ counter' = r
      /\ status' = [status EXCEPT ![r] = "draft"]
      /\ edits' = [edits EXCEPT ![r] = {r} \cup IF b = NoRev THEN {} ELSE edits[b]]
      /\ UNCHANGED <<hashed, activatedAt, verdict, active, shown, stored, ripe, stamp,
                     op, gc, held>>
    BY DEF CreateDraft
<1>5. b \in Rev \cup {NoRev} /\ b <= counter
    BY <1>0 DEF PubType, PubOK
<1>6. status[r] = "none" /\ r # active
    BY <1>0, <1>1 DEF IInv, RowsOK, Unborn, PointerNamesTheActiveRow
<1>7. TypeOK'
    <2>1. edits' \in [Rev -> SUBSET Rev]
        BY <1>0, <1>1, <1>4, <1>5 DEF TypeOK
    <2>2. status' \in [Rev -> Status]
        BY <1>0, <1>1, <1>4 DEF TypeOK, Status
    <2>3. ripe' \in 0..counter'
        BY <1>0, <1>1, <1>4 DEF TypeOK
    <2> QED BY <1>0, <1>1, <1>3, <1>4, <2>1, <2>2, <2>3 DEF TypeOK
<1>8. RowsOK'
    BY <1>0, <1>1, <1>4, <1>6, RevFacts
       DEF IInv, TypeOK, RowsOK, PointerNamesTheActiveRow, EligibleRevisionsAreWhole,
           ShownVerdictIsOfServedBytes, Unborn, ActivatableFrom
<1>9. History
    BY <1>0, <1>1, <1>4, <1>6, RevFacts DEF TypeOK, History, Retained
<1>10. b # NoRev => edits'[b] \subseteq edits'[r]
    BY <1>0, <1>1, <1>4, <1>5 DEF TypeOK
<1>11. PubOK(p)'
    <2>1. b <= counter'
        BY <1>0, <1>1, <1>4, <1>5, RevFacts
    <2>2. status'[r] = "draft"
        BY <1>0, <1>1, <1>4 DEF TypeOK
    <2>3. r # NoRev
        BY <1>1, RevFacts
    <2> QED BY <1>1, <1>2, <1>3, <1>4, <1>10, <2>1, <2>2, <2>3 DEF PubOK, Expects
<1>12. \A s \in Rev : s <= counter => status'[s] = status[s]
    BY <1>0, <1>1, <1>4, RevFacts DEF TypeOK
<1> QED BY <1>1, <1>2, <1>3, <1>4, <1>7, <1>8, <1>9, <1>11, <1>12, PubFrame

(* The compare-and-sets of the pipeline. *)
LEMMA MoveStep ==
    ASSUME IInv, NEW p \in Publisher,
           BeginUpload(p) \/ FinishUpload(p) \/ PassValidation(p)
    PROVE  IInv' /\ History
<1> DEFINE r == pub[p].rev
<1>0. /\ TypeOK /\ PubOK(p) /\ pub[p] \in PubType /\ counter \in Nat
    BY BoundAssumption DEF IInv, TypeOK
<1>1. r \in Rev /\ r # NoRev
    BY <1>0 DEF PubOK, PubType, BeginUpload, FinishUpload, PassValidation
<1>2. PICK from \in {"draft", "uploading", "validating"},
           to \in {"uploading", "validating", "canary_passed"},
           pc \in {"uploading", "validating", "staged"} :
        /\ Move(p, from, to, pc)
        /\ to = "canary_passed" => pub[p].pc = "manifested" /\ from = "validating"
        /\ to \in Expects(pc)
        /\ hashed' = IF StatusIs(r, from) /\ to = "canary_passed"
                     THEN [hashed EXCEPT ![r] = TRUE] ELSE hashed
    <2>1. CASE BeginUpload(p)
        BY <2>1 DEF BeginUpload, Expects
    <2>2. CASE FinishUpload(p)
        BY <2>2 DEF FinishUpload, Expects
    <2>3. CASE PassValidation(p)
        BY <2>3 DEF PassValidation, Expects
    <2> QED BY <2>1, <2>2, <2>3
<1>3. pc \in PubPc
    BY DEF PubPc
<1>4. UNCHANGED <<activatedAt, verdict, edits, sim, stored, ripe, stamp, op, gc, held>>
    BY <1>2 DEF Move
<1>5. CASE StatusIs(r, from)
    <2>1. status[r] = from /\ status' = [status EXCEPT ![r] = to] /\ GoTo(p, pc)
        BY <1>2, <1>5 DEF Move, StatusIs
    <2>2. to = "canary_passed" => hashed'[r] /\ File \subseteq stored[r]
        <3> SUFFICES ASSUME to = "canary_passed" PROVE hashed'[r] /\ File \subseteq stored[r]
            OBVIOUS
        <3>1. hashed'[r]
            BY <1>0, <1>1, <1>2, <1>5 DEF TypeOK
        <3>2. File \subseteq stored[r]
            BY <1>0, <1>2, <2>1 DEF PubOK
        <3> QED BY <3>1, <3>2
    <2>3. \A s \in Rev : s # r => hashed'[s] = hashed[s]
        BY <1>0, <1>2 DEF TypeOK
    <2>4. RowsOK' /\ History
        <3>1. status[r] \notin Retained \cup {"none"}
            BY <2>1 DEF Retained
        <3> QED BY <1>1, <1>4, <2>1, <2>2, <2>3, <3>1, RowMoves
    <2>5. /\ pub' \in [Publisher -> PubType]
          /\ \A q \in Publisher : q # p => pub'[q] = pub[q]
          /\ pub'[p].pc = pc /\ pub'[p].rev = r /\ pub'[p].base = pub[p].base
          /\ pub'[p].from = pub[p].from
        BY <1>0, <1>3, <2>1, GoToEffect
    <2>6. TypeOK'
        <3>1. status' \in [Rev -> Status]
            BY <1>0, <1>1, <2>1 DEF TypeOK, Status
        <3>2. hashed' \in [Rev -> BOOLEAN]
            BY <1>0, <1>1, <1>2 DEF TypeOK
        <3> QED BY <1>0, <1>4, <2>5, <3>1, <3>2 DEF TypeOK, sim
    <2>7. PubOK(p)'
        <3>1. status'[r] = to
            BY <1>0, <1>1, <2>1 DEF TypeOK
        <3> QED BY <1>0, <1>1, <1>2, <1>4, <2>5, <3>1 DEF PubOK, sim
    <2>8. \A s \in Rev : s # r => status'[s] = status[s]
        BY <1>0, <2>1 DEF TypeOK
    <2> QED BY <1>4, <2>4, <2>5, <2>6, <2>7, <2>8, PubFrame
<1>6. CASE ~StatusIs(r, from)
    <2>1. UNCHANGED <<status, hashed>> /\ Stop(p)
        BY <1>2, <1>6 DEF Move
    <2>2. PubOK(p)'
        BY <1>0, <1>4, <2>1, StopEffect DEF PubOK, sim, NoRev
    <2> QED BY <1>0, <1>4, <2>1, <2>2, StopEffect, PubQuiet DEF rows, TypeOK
<1> QED BY <1>5, <1>6

(* Uploads, to a revision that is not live and never was. *)
LEMMA UploadStep ==
    ASSUME IInv, NEW p \in Publisher, WriteFile(p) \/ WriteManifest(p)
    PROVE  IInv' /\ History
<1> DEFINE r == pub[p].rev
<1>0. /\ TypeOK /\ PubOK(p) /\ pub[p] \in PubType /\ counter \in Nat
    BY BoundAssumption DEF IInv, TypeOK
<1>1. r \in Rev /\ r # NoRev /\ status[r] \in {"uploading", "validating", "none"}
    BY <1>0 DEF PubOK, PubType, WriteFile, WriteManifest, Expects
<1>2. UNCHANGED <<rows, sim, ripe, stamp, op, gc, held>>
    BY DEF WriteFile, WriteManifest
<1>3. \E X \in SUBSET Object : stored' = [stored EXCEPT ![r] = @ \cup X]
    <2>1. PICK f \in Object, landed \in BOOLEAN :
            stored' = IF landed THEN [stored EXCEPT ![r] = @ \cup {f}] ELSE stored
        BY DEF WriteFile, WriteManifest, Object
    <2>2. CASE landed
        BY <2>1, <2>2
    <2>3. CASE ~landed
        <3>1. stored' = [stored EXCEPT ![r] = @ \cup {}]
            BY <1>0, <1>1, <2>1, <2>3 DEF TypeOK
        <3> QED BY <3>1
    <2> QED BY <2>2, <2>3
<1>4. /\ stored' \in [Rev -> SUBSET Object]
      /\ stored[r] \subseteq stored'[r]
      /\ \A s \in Rev : s # r => stored'[s] = stored[s]
    BY <1>0, <1>1, <1>3 DEF TypeOK
<1>5. /\ pub' \in [Publisher -> PubType]
      /\ \A q \in Publisher : q # p => pub'[q] = pub[q]
      /\ pub'[p].rev = r
      /\ PubOK(p)'
    <2>1. CASE WriteFile(p)
        <3>1. PICK f \in File : pub' = [pub EXCEPT ![p].sent = @ \cup {f}]
            BY <2>1 DEF WriteFile
        <3> DEFINE rec == [pub[p] EXCEPT !.sent = @ \cup {f}]
        <3>2. /\ rec \in PubType /\ rec.pc = pub[p].pc /\ rec.rev = r
              /\ rec.base = pub[p].base
            BY <1>0 DEF PubType
        <3>3. /\ pub' \in [Publisher -> PubType] /\ pub'[p] = rec
              /\ \A q \in Publisher : q # p => pub'[q] = pub[q]
            BY <1>0, <3>1, <3>2, PubUpdate
        <3>4. PubOK(p)'
            BY <1>0, <1>1, <1>2, <2>1, <3>2, <3>3 DEF PubOK, WriteFile, rows, sim
        <3> QED BY <3>2, <3>3, <3>4
    <2>2. CASE WriteManifest(p)
        <3>1. GoTo(p, "manifested") /\ "manifested" \in PubPc
            BY <2>2 DEF WriteManifest, PubPc
        <3>2. /\ pub' \in [Publisher -> PubType] /\ pub'[p].rev = r
              /\ pub'[p].pc = "manifested" /\ pub'[p].base = pub[p].base
              /\ \A q \in Publisher : q # p => pub'[q] = pub[q]
            BY <1>0, <3>1, GoToEffect
        <3>3. PubOK(p)'
            BY <1>0, <1>1, <1>2, <1>4, <2>2, <3>2
               DEF PubOK, WriteManifest, Expects, rows, sim
        <3> QED BY <3>2, <3>3
    <2> QED BY <2>1, <2>2
<1>6. TypeOK'
    BY <1>0, <1>2, <1>4, <1>5 DEF TypeOK, rows, sim
<1>7. RowsOK'
    <2>1. status[r] \notin ActivatableFrom \cup {"active"}
        BY <1>1 DEF ActivatableFrom
    <2> QED BY <1>2, <1>4, <2>1
               DEF IInv, RowsOK, PointerNamesTheActiveRow, EligibleRevisionsAreWhole,
                   ShownVerdictIsOfServedBytes, Unborn, rows, sim
<1>8. History
    BY <1>0, <1>2 DEF History, rows, sim
<1> QED BY <1>2, <1>4, <1>5, <1>6, <1>7, <1>8, PubFrame DEF rows

LEMMA MarkFailedStep ==
    ASSUME IInv, NEW p \in Publisher, MarkFailed(p)
    PROVE  IInv' /\ History
<1> DEFINE r == pub[p].rev
           from == pub[p].from
<1>0. /\ TypeOK /\ PubOK(p) /\ pub[p] \in PubType /\ counter \in Nat
    BY BoundAssumption DEF IInv, TypeOK
<1>1. /\ r \in Rev /\ r # NoRev
      /\ from \in {"uploading", "validating", "canary_passed"}
    BY <1>0 DEF PubOK, PubType, MarkFailed
<1>2. /\ Stop(p)
      /\ UNCHANGED <<hashed, activatedAt, verdict, edits, sim, stored, ripe, stamp,
                     op, gc, held>>
    BY DEF MarkFailed
<1>3. PubOK(p)'
    BY <1>0, <1>2, StopEffect DEF PubOK, sim, NoRev
<1>4. CASE StatusIs(r, from)
    <2>1. status[r] = from /\ status' = [status EXCEPT ![r] = "failed"]
        BY <1>4 DEF MarkFailed, StatusIs
    <2>2. RowsOK' /\ History
        BY <1>0, <1>1, <1>2, <2>1, RowMoves DEF Retained
    <2>3. TypeOK'
        <3>1. status' \in [Rev -> Status]
            BY <1>0, <1>1, <2>1 DEF TypeOK, Status
        <3> QED BY <1>0, <1>2, <3>1, StopEffect DEF TypeOK, sim
    <2>4. \A s \in Rev : s # r => status'[s] = status[s]
        BY <1>0, <2>1 DEF TypeOK
    <2> QED BY <1>0, <1>2, <1>3, <2>2, <2>3, <2>4, StopEffect, PubFrame
<1>5. CASE ~StatusIs(r, from)
    <2>1. UNCHANGED rows
        BY <1>2, <1>5 DEF MarkFailed, rows
    <2> QED BY <1>0, <1>2, <1>3, <2>1, StopEffect, PubQuiet DEF TypeOK
<1> QED BY <1>4, <1>5

LEMMA CommitStep ==
    ASSUME IInv, NEW p \in Publisher, CommitActivation(p)
    PROVE  IInv' /\ History
<1> DEFINE r == pub[p].rev
           b == pub[p].base
<1>0. /\ TypeOK /\ PubOK(p) /\ pub[p] \in PubType /\ counter \in Nat
      /\ r \in Rev \cup {NoRev} /\ b \in Rev \cup {NoRev} /\ pub[p].at \in Nat
      /\ pub[p].pc = "activating"
    BY BoundAssumption DEF IInv, TypeOK, PubType, CommitActivation
<1>1. /\ Activate(r, b, "retired", pub[p].at)
      /\ Stop(p) \/ Fail(p, "canary_passed")
      /\ UNCHANGED <<stored, ripe, stamp, op, gc, held>>
    BY DEF CommitActivation, ExpectedPointer
<1>2. /\ RowsOK' /\ History /\ r \in Rev
      /\ status' \in [Rev -> Status] /\ activatedAt' \in [Rev -> Nat]
      /\ active' \in Rev /\ shown' \in Class \cup {NoClass}
      /\ \A s \in Rev : s # r => status'[s] = status[s] \/ status[s] \in Retained
    <2>1. "retired" \in {"retired", "rolled_back"}
        OBVIOUS
    <2> HIDE DEF r, b
    <2> QED BY <1>0, <1>1, <2>1, ActivateEffect
<1>3. /\ pub' \in [Publisher -> PubType]
      /\ \A q \in Publisher : q # p => pub'[q] = pub[q]
      /\ \/ /\ pub'[p].pc = "idle" /\ pub'[p].rev = NoRev /\ pub'[p].base = NoRev
         \/ /\ pub'[p].pc = "failing" /\ pub'[p].rev = r /\ pub'[p].base = b
            /\ pub'[p].from = "canary_passed"
    <2>1. CASE Stop(p)
        BY <1>0, <2>1, StopEffect
    <2>2. CASE Fail(p, "canary_passed")
        BY <1>0, <2>2, FailEffect
    <2> QED BY <1>1, <2>1, <2>2
<1>4. UNCHANGED <<hashed, verdict, edits, counter>>
    BY <1>1 DEF Activate
<1>5. TypeOK'
    BY <1>0, <1>1, <1>2, <1>3, <1>4 DEF TypeOK
<1>6. PubOK(p)'
    <2>1. CASE pub'[p].pc = "idle" /\ pub'[p].rev = NoRev /\ pub'[p].base = NoRev
        BY <1>0, <1>4, <2>1 DEF PubOK, NoRev
    <2>2. CASE /\ pub'[p].pc = "failing" /\ pub'[p].rev = r /\ pub'[p].base = b
               /\ pub'[p].from = "canary_passed"
        <3>1. status'[r] \in Status
            BY <1>2
        <3> QED BY <1>0, <1>4, <2>2, <3>1 DEF PubOK, Expects
    <2> QED BY <1>3, <2>1, <2>2
<1> QED BY <1>1, <1>2, <1>3, <1>5, <1>6, PubFrame

(* A step that leaves the publications alone, and the other rollbacks and   *)
(* collectors.                                                              *)
LEMMA OtherFrame ==
    ASSUME IInv, TypeOK', RowsOK', History, UNCHANGED pub,
           \A r \in Rev : status'[r] = status[r] \/ status[r] \in Retained \/ status'[r] = "none",
           \A r \in Rev : status'[r] = "validating" => stored[r] \subseteq stored'[r],
           \A o \in Operator : op'[o] = op[o] \/ OpOK(o)',
           \A g \in Collector : gc'[g] = gc[g] \/ GcOK(g)'
    PROVE  IInv' /\ History
<1>0. TypeOK
    BY DEF IInv
<1>1. ASSUME NEW q \in Publisher PROVE PubOK(q)'
    <2>1. pub[q].rev \in Rev \cup {NoRev}
        BY <1>0 DEF TypeOK, PubType
    <2> QED BY <1>0, <2>1, OtherPub DEF IInv
<1>2. \A o \in Operator : OpOK(o)'
    BY <1>0, OtherOp DEF IInv
<1>3. \A g \in Collector : GcOK(g)'
    BY <1>0, OtherGc DEF IInv
<1> QED BY <1>1, <1>2, <1>3 DEF IInv, Owned

(* The same for a step that touches neither rows nor bytes. *)
LEMMA OtherQuiet ==
    ASSUME IInv, TypeOK', UNCHANGED <<rows, counter, active, stored, pub>>,
           shown' = shown \/ active = NoRev,
           \A o \in Operator : op'[o] = op[o] \/ OpOK(o)',
           \A g \in Collector : gc'[g] = gc[g] \/ GcOK(g)'
    PROVE  IInv' /\ History
<1>1. RowsOK'
    BY DEF IInv, RowsOK, PointerNamesTheActiveRow, EligibleRevisionsAreWhole,
           ShownVerdictIsOfServedBytes, Unborn, rows
<1>2. History
    BY BoundAssumption DEF IInv, TypeOK, History, rows
<1> QED BY <1>1, <1>2, OtherFrame DEF rows

LEMMA RollbackStep ==
    ASSUME IInv, NEW o \in Operator, Rollback(o)
    PROVE  IInv' /\ History
<1>0. /\ TypeOK /\ OpOK(o) /\ op[o] \in OpType /\ counter \in Nat /\ stamp \in Nat
      /\ active \in Rev \cup {NoRev}
    BY BoundAssumption DEF IInv, TypeOK
<1>1. CASE OpReadPointer(o) \/ OpGivesUp(o) \/ OpStartActivation(o) \/ OpChooseTarget(o)
    <2>1. PICK rec \in OpType :
            /\ op' = [op EXCEPT ![o] = rec]
            /\ \/ rec.target \in {NoRev, op[o].target}
               \/ IsRollbackTarget(rec.target, op[o].expected)
        <3>1. CASE OpReadPointer(o)
            <4> DEFINE rec == [op[o] EXCEPT !.pc = "pointed", !.expected = active]
            <4>1. rec \in OpType /\ rec.target = op[o].target
                BY <1>0 DEF OpType
            <4> QED BY <3>1, <4>1 DEF OpReadPointer
        <3>2. CASE OpGivesUp(o)
            <4>1. IdleOp \in OpType /\ IdleOp.target = NoRev
                BY DEF IdleOp, OpType
            <4> QED BY <3>2, <4>1 DEF OpGivesUp
        <3>3. CASE OpStartActivation(o)
            <4> DEFINE rec == [op[o] EXCEPT !.pc = "activating", !.at = stamp']
            <4>1. stamp' \in Nat
                BY <1>0, <3>3 DEF OpStartActivation, ReadClock
            <4>2. rec \in OpType /\ rec.target = op[o].target
                BY <1>0, <4>1 DEF OpType
            <4> QED BY <3>3, <4>2 DEF OpStartActivation
        <3>4. CASE OpChooseTarget(o)
            <4>1. IdleOp \in OpType /\ IdleOp.target = NoRev
                BY DEF IdleOp, OpType
            <4>2. ASSUME NEW r \in Rev, IsRollbackTarget(r, op[o].expected),
                         op' = [op EXCEPT ![o] = [@ EXCEPT !.pc = "chosen", !.target = r]]
                  PROVE  \E rec \in OpType : /\ op' = [op EXCEPT ![o] = rec]
                                             /\ IsRollbackTarget(rec.target, op[o].expected)
                <5> DEFINE rec == [op[o] EXCEPT !.pc = "chosen", !.target = r]
                <5>1. rec \in OpType /\ rec.target = r
                    BY <1>0 DEF OpType
                <5> QED BY <4>2, <5>1
            <4> QED BY <3>4, <4>1, <4>2 DEF OpChooseTarget
        <3> QED BY <1>1, <3>1, <3>2, <3>3, <3>4
    <2>2. /\ op' \in [Operator -> OpType] /\ op'[o] = rec
          /\ \A q \in Operator : q # o => op'[q] = op[q]
        BY <1>0, <2>1, OpUpdate
    <2>3. UNCHANGED <<rows, sim, stored, ripe, pub, gc, held>> /\ stamp' \in Nat
        <3>1. CASE OpStartActivation(o)
            BY <1>0, <3>1 DEF OpStartActivation, ReadClock
        <3>2. CASE OpReadPointer(o) \/ OpGivesUp(o) \/ OpChooseTarget(o)
            BY <1>0, <3>2 DEF OpReadPointer, OpGivesUp, OpChooseTarget
        <3> QED BY <1>1, <3>1, <3>2
    <2>4. TypeOK'
        BY <1>0, <2>2, <2>3 DEF TypeOK, rows, sim
    <2>5. OpOK(o)'
        <3>1. CASE rec.target \in {NoRev, op[o].target}
            BY <1>0, <2>2, <2>3, <3>1 DEF OpOK, rows, sim, NoRev
        <3>2. CASE IsRollbackTarget(rec.target, op[o].expected)
            <4>1. rec.target \in Rev /\ status[rec.target] \in Retained
                BY <3>2 DEF IsRollbackTarget, RollbackCandidates
            <4>2. rec.target <= counter
                BY <1>0, <4>1, RevFacts DEF IInv, RowsOK, Unborn, Retained
            <4> QED BY <2>2, <2>3, <4>1, <4>2 DEF OpOK, rows, sim
        <3> QED BY <2>1, <3>1, <3>2
    <2> QED BY <2>2, <2>3, <2>4, <2>5, OtherQuiet DEF sim
<1>2. CASE OpCommit(o)
    <2> DEFINE t == op[o].target
               e == op[o].expected
    <2>1. /\ Activate(t, e, "rolled_back", op[o].at)
          /\ op' = [op EXCEPT ![o] = IdleOp]
          /\ UNCHANGED <<stored, ripe, stamp, pub, gc, held>>
        BY <1>2 DEF OpCommit
    <2>2. t \in Rev \cup {NoRev} /\ e \in Rev \cup {NoRev} /\ op[o].at \in Nat
        BY <1>0 DEF OpType
    <2>3. /\ RowsOK' /\ History /\ t \in Rev
          /\ status' \in [Rev -> Status] /\ activatedAt' \in [Rev -> Nat]
          /\ active' \in Rev /\ shown' \in Class \cup {NoClass}
          /\ status[t] \in ActivatableFrom
          /\ \A s \in Rev : s # t => status'[s] = status[s] \/ status[s] \in Retained
        <3>1. "rolled_back" \in {"retired", "rolled_back"}
            OBVIOUS
        <3> HIDE DEF t, e
        <3> QED BY <2>1, <2>2, <3>1, ActivateEffect
    <2>4. IdleOp \in OpType /\ IdleOp.target = NoRev
        BY DEF IdleOp, OpType
    <2>5. /\ op' \in [Operator -> OpType] /\ op'[o] = IdleOp
          /\ \A q \in Operator : q # o => op'[q] = op[q]
        BY <1>0, <2>1, <2>4, OpUpdate
    <2>6. UNCHANGED <<hashed, verdict, edits, counter>>
        BY <2>1 DEF Activate
    <2>7. TypeOK'
        BY <1>0, <2>1, <2>3, <2>5, <2>6 DEF TypeOK
    <2>8. OpOK(o)'
        BY <1>0, <2>4, <2>5, <2>6 DEF OpOK, NoRev
    <2>9. status[t] \in Retained
        BY <2>3, RevFacts, <1>0 DEF OpOK, ActivatableFrom
    <2> HIDE DEF t
    <2> QED BY <2>1, <2>3, <2>5, <2>7, <2>8, <2>9, OtherFrame
<1> QED BY <1>1, <1>2 DEF Rollback

LEMMA CollectionStep ==
    ASSUME IInv, NEW g \in Collector, Collection(g)
    PROVE  IInv' /\ History
<1>0. /\ TypeOK /\ GcOK(g) /\ gc[g] \in GcType /\ status \in [Rev -> Status]
      /\ counter \in Nat /\ active \in Rev \cup {NoRev}
    BY BoundAssumption DEF IInv, TypeOK
<1>1. CASE GcReadRows(g) \/ GcSkip(g) \/ GcStops(g)
    <2>1. PICK rec \in GcType : rec.pc # "bytes" /\ gc' = [gc EXCEPT ![g] = rec]
        <3>1. CASE GcReadRows(g)
            <4> DEFINE rec == [gc[g] EXCEPT !.pc = "loop", !.todo = Uncovered]
            <4>1. Uncovered \in SUBSET (Rev \X (Status \ {"none"}))
                BY <1>0 DEF Uncovered
            <4>2. rec \in GcType /\ rec.pc = "loop"
                BY <1>0, <4>1 DEF GcType
            <4> QED BY <3>1, <4>2 DEF GcReadRows
        <3>2. CASE GcSkip(g)
            <4>1. PICK t \in gc[g].todo : gc' = [gc EXCEPT ![g].todo = @ \ {t}]
                BY <3>2 DEF GcSkip
            <4> DEFINE rec == [gc[g] EXCEPT !.todo = @ \ {t}]
            <4>2. rec \in GcType /\ rec.pc = "loop"
                BY <1>0, <3>2 DEF GcType, GcSkip
            <4> QED BY <4>1, <4>2
        <3>3. CASE GcStops(g)
            <4>1. IdleGc \in GcType /\ IdleGc.pc = "idle"
                BY DEF IdleGc, GcType
            <4> QED BY <3>3, <4>1 DEF GcStops
        <3> QED BY <1>1, <3>1, <3>2, <3>3
    <2>2. /\ gc' \in [Collector -> GcType] /\ gc'[g] = rec
          /\ \A q \in Collector : q # g => gc'[q] = gc[q]
        BY <1>0, <2>1, GcUpdate
    <2>3. UNCHANGED <<rows, sim, stored, ripe, stamp, pub, op, held>>
        BY <1>1 DEF GcReadRows, GcSkip, GcStops
    <2>4. TypeOK'
        BY <1>0, <2>2, <2>3 DEF TypeOK, rows, sim
    <2>5. GcOK(g)'
        BY <2>1, <2>2 DEF GcOK
    <2> QED BY <2>2, <2>3, <2>4, <2>5, OtherQuiet DEF sim
<1>2. CASE GcDeleteRow(g)
    <2>1. PICK t \in gc[g].todo :
            /\ status[t[1]] = t[2]
            /\ t[1] # active
            /\ gc' = [gc EXCEPT ![g] = [pc |-> "bytes", todo |-> gc[g].todo \ {t}, cur |-> t[1]]]
            /\ status' = [status EXCEPT ![t[1]] = "none"]
            /\ hashed' = [hashed EXCEPT ![t[1]] = FALSE]
            /\ activatedAt' = [activatedAt EXCEPT ![t[1]] = 0]
            /\ verdict' = [verdict EXCEPT ![t[1]] = NoClass]
        BY <1>2 DEF GcDeleteRow
    <2> DEFINE r == t[1]
               rec == [pc |-> "bytes", todo |-> gc[g].todo \ {t}, cur |-> r]
    <2>2. r \in Rev
        BY <1>0 DEF GcType
    <2>3. /\ rec \in GcType /\ rec.pc = "bytes" /\ rec.cur = r
        BY <1>0, <2>2 DEF GcType
    <2>4. /\ gc' \in [Collector -> GcType] /\ gc'[g] = rec
          /\ \A q \in Collector : q # g => gc'[q] = gc[q]
        <3>1. gc' = [gc EXCEPT ![g] = rec]
            BY <2>1
        <3> HIDE DEF rec
        <3> QED BY <1>0, <2>3, <3>1, GcUpdate
    <2>5. UNCHANGED <<edits, sim, stored, ripe, stamp, pub, op, held>>
        BY <1>2 DEF GcDeleteRow
    <2>6. TypeOK'
        <3>1. /\ status' \in [Rev -> Status] /\ hashed' \in [Rev -> BOOLEAN]
              /\ activatedAt' \in [Rev -> Nat]
              /\ verdict' \in [Rev -> Class \cup {NoClass}]
            BY <1>0, <2>1, <2>2 DEF TypeOK, Status
        <3> QED BY <1>0, <2>4, <2>5, <3>1 DEF TypeOK, sim
    <2>7. /\ status'[r] = "none"
          /\ \A s \in Rev : s # r => /\ status'[s] = status[s] /\ hashed'[s] = hashed[s]
                                    /\ verdict'[s] = verdict[s]
        BY <1>0, <2>1, <2>2 DEF TypeOK
    <2>8. r # active
        BY <2>1
    <2>9. RowsOK'
        <3> HIDE DEF r
        <3>1. PointerNamesTheActiveRow'
            BY <2>2, <2>5, <2>7, <2>8 DEF IInv, RowsOK, PointerNamesTheActiveRow, sim
        <3>2. EligibleRevisionsAreWhole'
            BY <2>2, <2>5, <2>7 DEF IInv, RowsOK, EligibleRevisionsAreWhole, ActivatableFrom
        <3>3. ShownVerdictIsOfServedBytes'
            BY <1>0, <2>5, <2>7, <2>8, RevFacts DEF IInv, RowsOK, ShownVerdictIsOfServedBytes, sim
        <3>4. Unborn'
            BY <2>5, <2>7 DEF IInv, RowsOK, Unborn, sim
        <3> QED BY <3>1, <3>2, <3>3, <3>4 DEF RowsOK
    <2>10. History
        <3> HIDE DEF r
        <3> QED BY <1>0, <2>2, <2>5, <2>7 DEF History, sim
    <2>11. GcOK(g)'
        <3>1. status[r] # "none" => r <= counter
            BY <1>0, <2>2, RevFacts DEF IInv, RowsOK, Unborn
        <3>2. status[r] # "none"
            BY <1>0, <2>1 DEF GcType
        <3> QED BY <2>2, <2>3, <2>4, <2>5, <2>7, <3>1, <3>2 DEF GcOK, sim
    <2>12. /\ \A s \in Rev : status'[s] = status[s] \/ status'[s] = "none"
        BY <2>7
    <2> QED BY <2>4, <2>5, <2>6, <2>9, <2>10, <2>11, <2>12, OtherFrame
<1>3. CASE GcDeleteBytes(g)
    <2> DEFINE r == gc[g].cur
               rec == [gc[g] EXCEPT !.pc = "loop", !.cur = NoRev]
    <2>1. r \in Rev /\ status[r] = "none"
        BY <1>0, <1>3 DEF GcOK, GcDeleteBytes
    <2>2. rec \in GcType /\ rec.pc = "loop"
        BY <1>0 DEF GcType
    <2>3. /\ gc' = [gc EXCEPT ![g] = rec]
          /\ stored' = [stored EXCEPT ![r] = {}]
          /\ UNCHANGED <<rows, sim, ripe, stamp, pub, op, held>>
        BY <1>3 DEF GcDeleteBytes
    <2>4. /\ gc' \in [Collector -> GcType] /\ gc'[g] = rec
          /\ \A q \in Collector : q # g => gc'[q] = gc[q]
        BY <1>0, <2>2, <2>3, GcUpdate
    <2>5. /\ stored' \in [Rev -> SUBSET Object]
          /\ \A s \in Rev : s # r => stored'[s] = stored[s]
        BY <1>0, <2>1, <2>3 DEF TypeOK
    <2>6. TypeOK'
        BY <1>0, <2>3, <2>4, <2>5 DEF TypeOK, rows, sim
    <2>7. RowsOK'
        <3> HIDE DEF r
        <3> QED BY <2>1, <2>3, <2>5
               DEF IInv, RowsOK, PointerNamesTheActiveRow, EligibleRevisionsAreWhole,
                   ShownVerdictIsOfServedBytes, Unborn, ActivatableFrom, rows, sim
    <2>8. History
        BY <1>0, <2>3 DEF History, rows, sim
    <2>9. GcOK(g)'
        BY <2>2, <2>4 DEF GcOK
    <2>10. \A s \in Rev : status'[s] = "validating" => stored[s] \subseteq stored'[s]
        BY <2>1, <2>3, <2>5 DEF rows
    <2>11. UNCHANGED status
        BY <2>3 DEF rows
    <2> QED BY <2>3, <2>4, <2>6, <2>7, <2>8, <2>9, <2>10, <2>11, OtherFrame
<1> QED BY <1>1, <1>2, <1>3 DEF Collection

LEMMA OutsideStep ==
    ASSUME IInv, \/ \E r \in Rev, c \in Class : RecordCanary(r, c)
                 \/ \E c \in Class : CanaryLegacyPackage(c)
                 \/ \E v \in Viewer : Load(v)
                 \/ Ripen
    PROVE  IInv' /\ History
<1>0. TypeOK /\ counter \in Nat
    BY BoundAssumption DEF IInv, TypeOK
<1>1. ASSUME NEW r \in Rev, NEW c \in Class, RecordCanary(r, c) PROVE IInv' /\ History
    <2>1. /\ status[r] \in VerdictOpen
          /\ verdict' = [verdict EXCEPT ![r] = c]
          /\ UNCHANGED <<status, hashed, activatedAt, edits, sim, stored, ripe, stamp,
                         pub, op, gc, held>>
        BY <1>1 DEF RecordCanary, AcceptsVerdict
    <2>2. TypeOK'
        BY <1>0, <2>1 DEF TypeOK, sim
    <2>3. active # r
        BY <2>1 DEF IInv, RowsOK, PointerNamesTheActiveRow, VerdictOpen
    <2>4. RowsOK'
        BY <1>0, <2>1, <2>3
           DEF IInv, RowsOK, TypeOK, PointerNamesTheActiveRow, EligibleRevisionsAreWhole,
               ShownVerdictIsOfServedBytes, Unborn, sim
    <2>5. History
        BY <1>0, <2>1 DEF History, sim
    <2> QED BY <2>1, <2>2, <2>4, <2>5, OtherFrame
<1>2. ASSUME NEW c \in Class, CanaryLegacyPackage(c) PROVE IInv' /\ History
    <2>1. TypeOK'
        BY <1>0, <1>2 DEF TypeOK, CanaryLegacyPackage, rows
    <2> QED BY <1>2, <2>1, OtherQuiet DEF CanaryLegacyPackage, MayWriteShown
<1>3. ASSUME NEW v \in Viewer, Load(v) PROVE IInv' /\ History
    <2>1. TypeOK'
        BY <1>0, <1>3 DEF TypeOK, Load, rows, sim
    <2> QED BY <1>3, <2>1, OtherQuiet DEF Load, sim
<1>4. CASE Ripen
    <2>1. TypeOK'
        BY <1>0, <1>4 DEF TypeOK, Ripen, rows, sim
    <2> QED BY <1>4, <2>1, OtherQuiet DEF Ripen, sim
<1> QED BY <1>1, <1>2, <1>3, <1>4

(* The invariant is inductive. *)
LEMMA InvStep == IInv /\ [Next]_vars => IInv' /\ History
<1> SUFFICES ASSUME IInv, [Next]_vars PROVE IInv' /\ History
    OBVIOUS
<1>1. CASE UNCHANGED vars
    <2>1. TypeOK'
        BY <1>1 DEF IInv, TypeOK, vars, rows, sim
    <2> QED BY <1>1, <2>1, OtherQuiet DEF vars, sim
<1>2. ASSUME NEW p \in Publisher, Publication(p) PROVE IInv' /\ History
    BY <1>2, QuietStep, CreateStep, MoveStep, UploadStep, MarkFailedStep, CommitStep
       DEF Publication
<1> QED BY <1>1, <1>2, RollbackStep, CollectionStep, OutsideStep DEF Next

(* The invariant holds in every reachable state. *)
THEOREM Invariant == Spec => []IInv
BY InvInit, InvStep, PTL DEF Spec

-----------------------------------------------------------------------------
(* What follows from it. *)

(* Every variable keeps its type. *)
THEOREM TypeCorrect == Spec => []TypeOK
<1>1. IInv => TypeOK
    BY DEF IInv
<1> QED BY <1>1, Invariant, PTL

(* The pointer and the status column never disagree, whatever is in flight. *)
THEOREM PointerCorrect == Spec => []PointerNamesTheActiveRow
<1>1. IInv => PointerNamesTheActiveRow
    BY DEF IInv, RowsOK
<1> QED BY <1>1, Invariant, PTL

(* Whatever activation or rollback may choose, and what is live, has in the *)
(* store every file its manifest names: with any number of collectors, and  *)
(* however soon their sweeps find a revision old enough.                    *)
THEOREM WholeCorrect == Spec => []EligibleRevisionsAreWhole
<1>1. IInv => EligibleRevisionsAreWhole
    BY DEF IInv, RowsOK
<1> QED BY <1>1, Invariant, PTL

(* The projected verdict is that of the revision the pointer names. *)
THEOREM VerdictCorrect == Spec => []ShownVerdictIsOfServedBytes
<1>1. IInv => ShownVerdictIsOfServedBytes
    BY DEF IInv, RowsOK
<1> QED BY <1>1, Invariant, PTL

(* No step writes or deletes the bytes of a revision that stays published:  *)
(* uploads go to drafts, deletions to revisions whose row is gone.          *)
THEOREM FrozenCorrect == Spec => PublishedBytesAreFrozen
<1> DEFINE Frozen == \A r \in Rev : status[r] \in Public /\ status'[r] \in Public
                                     => stored'[r] = stored[r]
<1>1. ASSUME IInv, [Next]_vars PROVE Frozen
    <2>0. TypeOK
        BY <1>1 DEF IInv
    <2>1. CASE UNCHANGED stored
        BY <2>1
    <2>2. ASSUME NEW p \in Publisher, WriteFile(p) \/ WriteManifest(p) PROVE Frozen
        <3>1. pub[p].rev \in Rev /\ status[pub[p].rev] \notin Public
            BY <1>1, <2>0, <2>2
               DEF IInv, TypeOK, PubType, PubOK, WriteFile, WriteManifest, Expects, Public
        <3>2. \A r \in Rev : r # pub[p].rev => stored'[r] = stored[r]
            BY <2>0, <2>2, <3>1 DEF TypeOK, WriteFile, WriteManifest
        <3> QED BY <3>1, <3>2
    <2>3. ASSUME NEW g \in Collector, GcDeleteBytes(g) PROVE Frozen
        <3>1. gc[g].cur \in Rev /\ status[gc[g].cur] \notin Public
            BY <1>1, <2>3 DEF IInv, GcOK, GcDeleteBytes, Public
        <3>2. \A r \in Rev : r # gc[g].cur => stored'[r] = stored[r]
            BY <2>0, <2>3, <3>1 DEF TypeOK, GcDeleteBytes
        <3> QED BY <3>1, <3>2
    <2>4. \/ UNCHANGED stored
          \/ \E p \in Publisher : WriteFile(p) \/ WriteManifest(p)
          \/ \E g \in Collector : GcDeleteBytes(g)
        BY <1>1 DEF Next, Publication, Rollback, Collection, vars, ReadPointer, ReadBase, CreateDraft,
           BeginUpload, Move, UploadFails, FinishUpload, ReadBack, PassValidation,
           AbortBeforeActivation, StartActivation, CommitActivation, ActivationRollsBack,
           MarkFailed, Abandon, OpReadPointer, OpChooseTarget, OpStartActivation, OpCommit,
           OpGivesUp, GcReadRows, GcSkip, GcDeleteRow, GcStops, RecordCanary,
           CanaryLegacyPackage, Load, Ripen
    <2> QED BY <2>1, <2>2, <2>3, <2>4
<1>2. IInv /\ [Next]_vars => [Frozen]_vars
    BY <1>1
<1>3. PublishedBytesAreFrozen <=> [][Frozen]_vars
    BY DEF PublishedBytesAreFrozen
<1> QED BY <1>2, <1>3, Invariant, PTL DEF Spec

(* The pointer moves only in an activation, of the owner's whole draft or   *)
(* of a row that has been live.                                             *)
LEMMA PointerMoves ==
    ASSUME IInv, [Next]_vars
    PROVE  \/ UNCHANGED active
           \/ \E p \in Publisher : CommitActivation(p)
           \/ \E o \in Operator : OpCommit(o)
BY DEF Next, Publication, Rollback, Collection, vars, sim, ReadPointer, ReadBase, CreateDraft,
       BeginUpload, Move, WriteFile, UploadFails, FinishUpload, ReadBack, WriteManifest,
       PassValidation, AbortBeforeActivation, StartActivation, ActivationRollsBack,
       MarkFailed, Abandon, OpReadPointer, OpChooseTarget, OpStartActivation,
       OpGivesUp, GcReadRows, GcSkip, GcDeleteRow, GcDeleteBytes, GcStops, RecordCanary,
       CanaryLegacyPackage, Load, Ripen

(* What the two activations do, as seen from outside. *)
LEMMA CommitFacts ==
    ASSUME IInv, NEW p \in Publisher, CommitActivation(p)
    PROVE  /\ pub[p].rev \in Rev /\ active' = pub[p].rev /\ active = pub[p].base
           /\ status[pub[p].rev] = "canary_passed"
           /\ UNCHANGED <<counter, edits, stored>>
           /\ status' = [s \in Rev |-> IF s = pub[p].rev THEN "active"
                                       ELSE IF s = active THEN "retired" ELSE status[s]]
<1> DEFINE r == pub[p].rev
           b == pub[p].base
<1>1. /\ TypeOK /\ PubOK(p) /\ pub[p] \in PubType /\ pub[p].pc = "activating"
      /\ Activate(r, b, "retired", pub[p].at) /\ UNCHANGED stored
    BY DEF IInv, TypeOK, CommitActivation, ExpectedPointer
<1>2. r \in Rev /\ r # NoRev /\ b \in Rev \cup {NoRev} /\ status[r] \in {"canary_passed", "none"}
    BY <1>1 DEF PubType, PubOK, Expects
<1> HIDE DEF r, b
<1>3. status[r] \in ActivatableFrom /\ active = b
    BY <1>1 DEF Activate, ActivationHolds, CanPromote, PointerUnmoved
<1>4. /\ active' = r /\ UNCHANGED <<counter, edits>>
      /\ status' = [s \in Rev |-> IF s = r THEN "active"
                                  ELSE IF s = b THEN "retired" ELSE status[s]]
    BY <1>1 DEF Activate
<1>5. status[r] = "canary_passed"
    BY <1>2, <1>3 DEF ActivatableFrom
<1> QED BY <1>1, <1>2, <1>3, <1>4, <1>5 DEF r, b

LEMMA OpCommitFacts ==
    ASSUME IInv, NEW o \in Operator, OpCommit(o)
    PROVE  /\ op[o].target \in Rev /\ active' = op[o].target
           /\ status[op[o].target] \in Retained
           /\ UNCHANGED <<counter, edits, stored>>
           /\ status' = [s \in Rev |-> IF s = op[o].target THEN "active"
                                       ELSE IF s = active THEN "rolled_back" ELSE status[s]]
<1> DEFINE t == op[o].target
           e == op[o].expected
<1>1. /\ TypeOK /\ OpOK(o) /\ op[o] \in OpType
      /\ Activate(t, e, "rolled_back", op[o].at) /\ UNCHANGED stored
    BY DEF IInv, TypeOK, OpCommit
<1>2. t \in Rev \cup {NoRev} /\ (t # NoRev => status[t] \in Retained \cup {"none"})
    BY <1>1 DEF OpType, OpOK
<1> HIDE DEF t, e
<1>3. t # NoRev /\ status[t] \in ActivatableFrom /\ active = e
    BY <1>1 DEF Activate, ActivationHolds, CanPromote, PointerUnmoved
<1>4. /\ active' = t /\ UNCHANGED <<counter, edits>>
      /\ status' = [s \in Rev |-> IF s = t THEN "active"
                                  ELSE IF s = e THEN "rolled_back" ELSE status[s]]
    BY <1>1 DEF Activate
<1>5. status[t] \in Retained
    BY <1>2, <1>3 DEF ActivatableFrom
<1> QED BY <1>1, <1>2, <1>3, <1>4, <1>5 DEF t, e

(* A package that replaces the live one by publication was derived from it  *)
(* and contains its changes.                                                *)
THEOREM NothingLost == Spec => NoPublicationIsLost
<1> DEFINE Kept == \A r \in Rev : (active' = r /\ active \notin {r, NoRev} /\ status[r] = "canary_passed")
                                   => edits[active] \subseteq edits[r]
<1>1. ASSUME IInv, [Next]_vars PROVE Kept
    <2> SUFFICES ASSUME NEW r \in Rev, active' = r, active \notin {r, NoRev},
                        status[r] = "canary_passed"
                 PROVE  edits[active] \subseteq edits[r]
        OBVIOUS
    <2>1. PICK p \in Publisher : CommitActivation(p)
        BY <1>1, PointerMoves, OpCommitFacts DEF Retained
    <2>2. r = pub[p].rev /\ active = pub[p].base /\ r # NoRev
        BY <1>1, <2>1, CommitFacts, RevFacts
    <2> QED BY <1>1, <2>2 DEF IInv, PubOK
<1>2. IInv /\ [Next]_vars => [Kept]_vars
    BY <1>1
<1>3. NoPublicationIsLost <=> [][Kept]_vars
    BY DEF NoPublicationIsLost
<1> QED BY <1>2, <1>3, Invariant, PTL DEF Spec

(* A URL a player holds names a row that has been live, or none. *)
HeldOK == \A v \in Viewer : held[v] # NoRev => /\ held[v] <= counter
                                              /\ status[held[v]] \in Retained \cup {"none"}

LEMMA HeldStep == IInv /\ HeldOK /\ [Next]_vars => HeldOK'
<1> SUFFICES ASSUME IInv, HeldOK, [Next]_vars PROVE HeldOK'
    OBVIOUS
<1>0. /\ TypeOK /\ TypeOK' /\ History /\ RowsOK /\ counter \in Nat /\ counter' \in Nat
    BY InvStep, BoundAssumption DEF IInv, TypeOK
<1>1. CASE UNCHANGED held
    <2> SUFFICES ASSUME NEW v \in Viewer, held[v] # NoRev
                 PROVE  held[v] <= counter' /\ status'[held[v]] \in Retained \cup {"none"}
        BY <1>1 DEF HeldOK
    <2>1. /\ held[v] \in Rev /\ held[v] \in Nat /\ held[v] <= counter
          /\ status[held[v]] \in Retained \cup {"none"}
        BY <1>0, RevFacts DEF HeldOK, TypeOK
    <2>2. counter <= counter'
        BY <1>0 DEF History
    <2>3. status'[held[v]] \in Retained \cup {"none"}
        BY <1>0, <2>1 DEF History
    <2> QED BY <1>0, <2>1, <2>2, <2>3
<1>2. ASSUME NEW v \in Viewer, Load(v) PROVE HeldOK'
    <2>1. /\ active \in Rev /\ held' = [held EXCEPT ![v] = active]
          /\ UNCHANGED <<status, counter>>
        BY <1>0, <1>2 DEF Load, TypeOK, rows, sim
    <2>2. status[active] = "active" /\ active \in Nat
        BY <1>0, <2>1, RevFacts DEF RowsOK, PointerNamesTheActiveRow
    <2>3. active <= counter
        BY <1>0, <2>1, <2>2 DEF RowsOK, Unborn
    <2> QED BY <1>0, <2>1, <2>2, <2>3 DEF HeldOK, TypeOK, Retained
<1>3. UNCHANGED held \/ \E v \in Viewer : Load(v)
    BY DEF Next, Publication, Rollback, Collection, vars, ReadPointer, ReadBase, CreateDraft,
       BeginUpload, Move, WriteFile, UploadFails, FinishUpload, ReadBack, WriteManifest,
       PassValidation, AbortBeforeActivation, StartActivation, CommitActivation,
       ActivationRollsBack, MarkFailed, Abandon, OpReadPointer, OpChooseTarget,
       OpStartActivation, OpCommit, OpGivesUp, GcReadRows, GcSkip, GcDeleteRow,
       GcDeleteBytes, GcStops, RecordCanary, CanaryLegacyPackage, Ripen
<1> QED BY <1>1, <1>2, <1>3

(* No player is ever refused a package it was handed: a row that has been   *)
(* live never falls back to a status the gate refuses.                      *)
THEOREM HeldUrlsCorrect == Spec => []HeldUrlsPassTheGate
<1>1. Init => HeldOK
    BY DEF Init, HeldOK
<1>2. HeldOK => HeldUrlsPassTheGate
    BY DEF HeldOK, HeldUrlsPassTheGate, PassesGate, Public, Retained
<1> QED BY <1>1, <1>2, HeldStep, Invariant, PTL DEF Spec

-----------------------------------------------------------------------------
(* The implementation of PackageRegister. *)

KeptOf == {r \in Rev : status[r] \in Retained /\ File \subseteq stored[r]}
SpentOf == {r \in 1..counter : status[r] \in {"failed", "none"}}

(* A step that leaves every row where the register sees it. *)
LEMMA RegisterStutter ==
    ASSUME UNCHANGED active, KeptOf' = KeptOf, SpentOf' = SpentOf
    PROVE  UNCHANGED Register!register
BY DEF Register!register, KeptOf, SpentOf

LEMMA KeptAreRetained == IInv => KeptOf = {r \in Rev : status[r] \in Retained}
BY DEF IInv, RowsOK, EligibleRevisionsAreWhole, KeptOf, Retained, ActivatableFrom

(* Which steps touch a status, and how. *)
LEMMA StatusMoves ==
    ASSUME IInv, [Next]_vars, ~UNCHANGED <<status, counter>>
    PROVE  \/ \E p \in Publisher :
                \/ CreateDraft(p) \/ BeginUpload(p) \/ FinishUpload(p) \/ PassValidation(p)
                \/ MarkFailed(p) \/ CommitActivation(p)
           \/ \E o \in Operator : OpCommit(o)
           \/ \E g \in Collector : GcDeleteRow(g)
BY DEF Next, Publication, Rollback, Collection, vars, rows, sim, ReadPointer, ReadBase,
       WriteFile, UploadFails, ReadBack, WriteManifest,
       AbortBeforeActivation, StartActivation, ActivationRollsBack,
       Abandon, OpReadPointer, OpChooseTarget, OpStartActivation,
       OpGivesUp, GcReadRows, GcSkip, GcDeleteBytes, GcStops, RecordCanary,
       CanaryLegacyPackage, Load, Ripen

LEMMA RegisterStep ==
    ASSUME IInv, [Next]_vars
    PROVE  [Register!Next]_Register!register
<1>0. /\ TypeOK /\ IInv' /\ counter \in Nat /\ PointerNamesTheActiveRow
    BY InvStep, BoundAssumption DEF IInv, TypeOK, RowsOK
<1>1. /\ KeptOf = {r \in Rev : status[r] \in Retained}
      /\ KeptOf' = {r \in Rev : status'[r] \in Retained}
    <2>1. KeptOf' = {r \in Rev : status'[r] \in Retained}
        BY <1>0 DEF IInv, RowsOK, EligibleRevisionsAreWhole, KeptOf, Retained, ActivatableFrom
    <2> QED BY <2>1, KeptAreRetained
<1>2. \A r \in Rev : r > counter => status[r] = "none"
    BY DEF IInv, RowsOK, Unborn
<1>3. CASE UNCHANGED <<status, counter>>
    <2>1. UNCHANGED active
        <3>1. ASSUME NEW p \in Publisher, CommitActivation(p) PROVE FALSE
            BY <1>3, <3>1, CommitFacts
        <3>2. ASSUME NEW o \in Operator, OpCommit(o) PROVE UNCHANGED active
            BY <1>0, <1>3, <3>2, OpCommitFacts DEF PointerNamesTheActiveRow
        <3> QED BY <3>1, <3>2, PointerMoves
    <2> QED BY <1>1, <1>3, <2>1, RegisterStutter DEF SpentOf
<1>4. ASSUME NEW p \in Publisher, CreateDraft(p) PROVE UNCHANGED Register!register
    <2>1. /\ counter' = counter + 1 /\ counter + 1 \in Rev /\ UNCHANGED active
          /\ status' = [status EXCEPT ![counter + 1] = "draft"]
        BY <1>0, <1>4, BoundAssumption DEF CreateDraft, Rev
    <2>2. status[counter + 1] = "none"
        BY <1>0, <1>2, <2>1
    <2>3. KeptOf' = KeptOf
        BY <1>0, <1>1, <2>1, <2>2 DEF TypeOK, Retained
    <2>4. SpentOf' = SpentOf
        <3>1. 1..counter \subseteq Rev
            BY <1>0, BoundAssumption DEF TypeOK, Rev
        <3>2. status'[counter + 1] = "draft" /\ \A r \in 1..counter : status'[r] = status[r]
            BY <1>0, <2>1, <3>1 DEF TypeOK
        <3>3. 1..counter' = (1..counter) \cup {counter + 1}
            BY <1>0, <2>1
        <3> QED BY <3>2, <3>3 DEF SpentOf
    <2> QED BY <2>1, <2>3, <2>4, RegisterStutter
<1>5. ASSUME NEW p \in Publisher, BeginUpload(p) \/ FinishUpload(p) \/ PassValidation(p)
      PROVE  UNCHANGED Register!register
    <2>1. PICK from \in {"draft", "uploading", "validating"},
               to \in {"uploading", "validating", "canary_passed"}, pc \in PubPc :
            Move(p, from, to, pc)
        BY <1>5 DEF BeginUpload, FinishUpload, PassValidation, PubPc
    <2>2. UNCHANGED <<active, counter>>
        BY <2>1 DEF Move, sim
    <2>3. \A r \in Rev : status'[r] = status[r] \/ (status[r] = from /\ status'[r] = to)
        BY <1>0, <2>1 DEF Move, StatusIs, TypeOK
    <2>4. 1..counter \subseteq Rev
        BY <1>0, BoundAssumption DEF TypeOK, Rev
    <2> QED BY <1>1, <2>2, <2>3, <2>4, RegisterStutter DEF SpentOf, Retained
<1>6. ASSUME NEW p \in Publisher, MarkFailed(p) PROVE [Register!Next]_Register!register
    <2>1. PICK r \in Rev, from \in {"uploading", "validating", "canary_passed"} :
            r = pub[p].rev /\ from = pub[p].from /\ r <= counter /\ r \in Nat
        BY <1>0, <1>6, RevFacts DEF IInv, PubOK, TypeOK, PubType, MarkFailed
    <2>2. UNCHANGED <<active, counter>>
        BY <1>6 DEF MarkFailed, sim
    <2>3. CASE status[r] = from
        <3>1. status' = [status EXCEPT ![r] = "failed"]
            BY <1>6, <2>1, <2>3, RevFacts DEF MarkFailed, StatusIs
        <3>2. r # active
            BY <1>0, <2>1, <2>3 DEF PointerNamesTheActiveRow
        <3>3. KeptOf' = KeptOf \ {r}
            BY <1>0, <1>1, <2>1, <2>3, <3>1 DEF TypeOK, Retained
        <3>4. SpentOf' = SpentOf \cup {r}
            <4>1. 1..counter \subseteq Rev /\ r \in 1..counter
                BY <1>0, <2>1, BoundAssumption, RevFacts DEF TypeOK, Rev
            <4> QED BY <1>0, <2>1, <2>2, <3>1, <4>1 DEF SpentOf, TypeOK
        <3>5. Register!Discard(r)
            BY <2>2, <3>2, <3>3, <3>4 DEF Register!Discard, KeptOf, SpentOf
        <3>6. Register!Next
            BY <3>5 DEF Register!Next
        <3> QED BY <3>6
    <2>4. CASE status[r] # from
        <3>1. UNCHANGED status
            BY <1>6, <2>1, <2>4 DEF MarkFailed, StatusIs
        <3> QED BY <1>1, <2>2, <3>1, RegisterStutter DEF SpentOf
    <2> QED BY <2>3, <2>4
<1>7. ASSUME NEW p \in Publisher, CommitActivation(p) PROVE Register!Next
    <2>1. PICK r \in Rev :
          /\ active' = r /\ status[r] = "canary_passed" /\ UNCHANGED counter
          /\ status' = [s \in Rev |-> IF s = r THEN "active"
                                      ELSE IF s = active THEN "retired" ELSE status[s]]
        BY <1>7, CommitFacts
    <2>2. active \in Rev => status[active] = "active"
        BY <1>0 DEF PointerNamesTheActiveRow
    <2>3. r \notin KeptOf \cup SpentOf /\ KeptOf' = KeptOf \cup {r}
        BY <1>1, <2>1, <2>2 DEF Retained, SpentOf
    <2>4. SpentOf' = SpentOf
        <3>1. 1..counter \subseteq Rev
            BY <1>0, BoundAssumption DEF TypeOK, Rev
        <3> QED BY <2>1, <2>2, <3>1 DEF SpentOf
    <2>5. Register!Publish(r)
        BY <2>1, <2>3, <2>4 DEF Register!Publish, KeptOf, SpentOf
    <2> QED BY <2>5 DEF Register!Next
<1>8. ASSUME NEW o \in Operator, OpCommit(o) PROVE Register!Next
    <2>1. PICK r \in Rev :
          /\ active' = r /\ status[r] \in Retained /\ UNCHANGED counter
          /\ status' = [s \in Rev |-> IF s = r THEN "active"
                                      ELSE IF s = active THEN "rolled_back" ELSE status[s]]
        BY <1>8, OpCommitFacts
    <2>2. active \in Rev => status[active] = "active"
        BY <1>0 DEF PointerNamesTheActiveRow
    <2>3. r \in KeptOf /\ KeptOf' = KeptOf
        BY <1>1, <2>1, <2>2 DEF Retained
    <2>4. SpentOf' = SpentOf
        <3>1. 1..counter \subseteq Rev
            BY <1>0, BoundAssumption DEF TypeOK, Rev
        <3> QED BY <2>1, <2>2, <3>1 DEF SpentOf, Retained
    <2>5. Register!Restore(r)
        BY <2>1, <2>3, <2>4 DEF Register!Restore, KeptOf, SpentOf
    <2> QED BY <2>5 DEF Register!Next
<1>9. ASSUME NEW g \in Collector, GcDeleteRow(g) PROVE Register!Next
    <2>1. PICK t \in gc[g].todo : /\ status[t[1]] = t[2] /\ t[1] # active
                                 /\ status' = [status EXCEPT ![t[1]] = "none"]
        BY <1>9 DEF GcDeleteRow
    <2> DEFINE r == t[1]
    <2>2. r \in Rev /\ status[r] # "none" /\ r # active
        BY <1>0, <2>1 DEF TypeOK, GcType
    <2>3. UNCHANGED <<active, counter>>
        BY <1>9 DEF GcDeleteRow, sim
    <2>4. status' = [status EXCEPT ![r] = "none"]
        BY <2>1
    <2> HIDE DEF r
    <2>5. KeptOf' = KeptOf \ {r}
        BY <1>0, <1>1, <2>2, <2>4 DEF TypeOK, Retained
    <2>6. SpentOf' = SpentOf \cup {r}
        <3>1. 1..counter \subseteq Rev /\ r \in 1..counter
            BY <1>0, <1>2, <2>2, BoundAssumption, RevFacts DEF TypeOK, Rev
        <3> QED BY <1>0, <2>2, <2>3, <2>4, <3>1 DEF SpentOf, TypeOK
    <2>7. Register!Discard(r)
        BY <2>2, <2>3, <2>5, <2>6 DEF Register!Discard, KeptOf, SpentOf
    <2> QED BY <2>2, <2>7 DEF Register!Next
<1> QED BY <1>3, <1>4, <1>5, <1>6, <1>7, <1>8, <1>9, StatusMoves

(* The revision scheme implements the register: drafts, failures, sweeps    *)
(* and lost acknowledgements are invisible to what is served and kept.      *)
THEOREM RegisterImplemented == Spec => ImplementsRegister
<1>1. Init => Register!Init
    BY BoundAssumption DEF Init, Register!Init, Retained
<1>2. IInv /\ [Next]_vars => [Register!Next]_Register!register
    BY RegisterStep
<1> QED BY <1>1, <1>2, Invariant, PTL DEF Spec, ImplementsRegister, Register!Spec
-----------------------------------------------------------------------------
(* The way back.  gc() selects its rows once and deletes them one by one,   *)
(* while rollbacks and publications go on.  What makes it safe for a single *)
(* collector is not that the rows it kept are still the newest, but that as *)
(* long as it has a retained row to delete, two retained rows are not on    *)
(* its list, and nobody else deletes rows.                                  *)
Spared(g) == {r \in RetainedRevs : \A t \in gc[g].todo : t[1] # r}

SparesTwo(g) == (\E t \in gc[g].todo : t[2] \in Retained) => Cardinality(Spared(g)) >= 2

LEMMA FiniteRevs ==
    ASSUME NEW S \in SUBSET Rev
    PROVE  /\ IsFiniteSet(S) /\ Cardinality(S) \in Nat
           /\ \A T \in SUBSET S : /\ IsFiniteSet(T) /\ Cardinality(T) \in Nat
                                  /\ Cardinality(T) <= Cardinality(S)
                                  /\ Cardinality(T) = Cardinality(S) => T = S
<1>1. IsFiniteSet(Rev)
    BY BoundAssumption, FS_Interval DEF Rev
<1>2. IsFiniteSet(S)
    BY <1>1, FS_Subset
<1> QED BY <1>2, FS_Subset, FS_CardinalityType

Below == {p \in Nat \X Nat : p[1] < p[2]}

(* A set of numbers has a least one. *)
LEMMA LeastNumber ==
    ASSUME NEW T \in SUBSET Nat, T # {}
    PROVE  \E n \in T : \A m \in T : n <= m
<1>1. IsWellFoundedOn(Below, Nat)
    BY NatLessThanWellFounded DEF OpToRel, Below
<1>2. \E n \in T : \A m \in T : ~(<<m, n>> \in Below)
    BY <1>1, WFMin
<1>3. PICK n \in T : \A m \in T : ~(<<m, n>> \in Below)
    BY <1>2
<1>4. ASSUME NEW m \in T PROVE n <= m
    <2>1. m \in Nat /\ n \in Nat
        OBVIOUS
    <2>2. ~(<<m, n>> \in {p \in Nat \X Nat : p[1] < p[2]})
        BY <1>3 DEF Below
    <2> QED BY <2>1, <2>2
<1> QED BY <1>4

(* The revision with the fewest younger ones in S has none. *)
LEMMA NewestOf ==
    ASSUME TypeOK, NEW S \in SUBSET Rev, S # {}
    PROVE  \E m \in S : \A s \in S : ~(activatedAt[s] > activatedAt[m])
<1> DEFINE above(x) == {s \in S : activatedAt[s] > activatedAt[x]}
<1> DEFINE counts == {Cardinality(above(x)) : x \in S}
<1>1. \A x \in S : above(x) \in SUBSET Rev /\ Cardinality(above(x)) \in Nat
    BY FiniteRevs
<1>2. counts \in SUBSET Nat /\ counts # {}
    BY <1>1
<1>3. PICK n \in counts : \A k \in counts : n <= k
    BY <1>2, LeastNumber
<1>4. PICK m \in S : n = Cardinality(above(m))
    BY <1>3
<1>5. ASSUME NEW x \in above(m) PROVE FALSE
    <2>1. \A s \in S : activatedAt[s] \in Nat
        BY DEF TypeOK
    <2>2. above(x) \in SUBSET above(m) /\ x \in above(m) /\ x \notin above(x)
        BY <1>5, <2>1
    <2>3. Cardinality(above(x)) <= Cardinality(above(m)) /\ Cardinality(above(x)) # Cardinality(above(m))
        BY <1>1, <2>2, FiniteRevs
    <2>4. Cardinality(above(m)) <= Cardinality(above(x))
        BY <1>3, <1>4, <1>5
    <2> QED BY <1>1, <1>4, <1>5, <2>3, <2>4
<1> QED BY <1>5

LEMMA TwoOf ==
    ASSUME NEW S \in SUBSET Rev, NEW m \in S, NEW n \in S, m # n
    PROVE  Cardinality(S) >= 2
<1>1. Cardinality({m}) = 1 /\ IsFiniteSet({m})
    BY FS_Singleton
<1>2. Cardinality({m} \cup {n}) = 2
    BY <1>1, FS_AddElement
<1>3. {m} \cup {n} \in SUBSET S
    OBVIOUS
<1>4. Cardinality({m} \cup {n}) <= Cardinality(S) /\ Cardinality(S) \in Nat
    BY <1>3, FiniteRevs
<1> QED BY <1>2, <1>4

(* Whatever activated_at says, keeping the two newest keeps two. *)
LEMMA KeepIsTwo ==
    ASSUME TypeOK, NEW r \in RetainedRevs, r \notin Keep
    PROVE  Cardinality(Keep) >= 2
<1> DEFINE above(x) == {s \in RetainedRevs : activatedAt[s] > activatedAt[x]}
<1>0. RetainedRevs \in SUBSET Rev /\ Keep = {x \in RetainedRevs : Cardinality(above(x)) < 2}
    BY DEF RetainedRevs, Keep, Newest, MinKeep
<1>1. PICK m \in RetainedRevs : \A s \in RetainedRevs : ~(activatedAt[s] > activatedAt[m])
    BY <1>0, NewestOf
<1>2. m \in Keep
    <2>1. above(m) = {}
        BY <1>1
    <2>2. Cardinality(above(m)) = 0
        BY <2>1, FS_EmptySet
    <2> QED BY <1>0, <2>2
<1>3. RetainedRevs \ {m} \in SUBSET Rev /\ RetainedRevs \ {m} # {}
    BY <1>0, <1>2
<1>4. PICK n \in RetainedRevs \ {m} :
          \A s \in RetainedRevs \ {m} : ~(activatedAt[s] > activatedAt[n])
    BY <1>3, NewestOf
<1>5. n \in Keep
    <2>1. above(n) \in SUBSET {m} /\ {m} \in SUBSET Rev
        BY <1>0, <1>4
    <2>2. Cardinality({m}) = 1
        BY FS_Singleton
    <2>3. Cardinality(above(n)) <= 1 /\ Cardinality(above(n)) \in Nat
        BY <2>1, <2>2, FiniteRevs
    <2> QED BY <1>0, <2>3
<1>6. Keep \in SUBSET Rev
    BY <1>0
<1> QED BY <1>2, <1>4, <1>5, <1>6, TwoOf

(* Only a collector takes a row that may be rolled back to. *)
LEMMA RetainedStays ==
    ASSUME IInv, [Next]_vars, ~\E g \in Collector : GcDeleteRow(g)
    PROVE  RetainedRevs \subseteq RetainedRevs'
<1>0. TypeOK /\ History /\ PointerNamesTheActiveRow /\ Unborn /\ counter \in Nat
    BY InvStep, BoundAssumption DEF IInv, TypeOK, RowsOK
<1> SUFFICES ASSUME NEW r \in Rev, status[r] \in Retained PROVE status'[r] # "none"
    BY <1>0 DEF RetainedRevs, History
<1>1. CASE UNCHANGED <<status, counter>>
    BY <1>1 DEF Retained
<1>2. ASSUME NEW p \in Publisher, CreateDraft(p) PROVE status'[r] # "none"
    BY <1>0, <1>2 DEF CreateDraft, TypeOK, Retained
<1>3. ASSUME NEW p \in Publisher, BeginUpload(p) \/ FinishUpload(p) \/ PassValidation(p)
      PROVE  status'[r] # "none"
    <2>1. PICK to \in {"uploading", "validating", "canary_passed"} :
              status' = status \/ status' = [status EXCEPT ![pub[p].rev] = to]
        BY <1>3 DEF BeginUpload, FinishUpload, PassValidation, Move
    <2> QED BY <1>0, <2>1 DEF TypeOK, Retained
<1>4. ASSUME NEW p \in Publisher, MarkFailed(p) PROVE status'[r] # "none"
    BY <1>0, <1>4 DEF MarkFailed, TypeOK, Retained
<1>5. ASSUME NEW p \in Publisher, CommitActivation(p) PROVE status'[r] # "none"
    BY <1>5, CommitFacts DEF Retained
<1>6. ASSUME NEW o \in Operator, OpCommit(o) PROVE status'[r] # "none"
    BY <1>6, OpCommitFacts DEF Retained
<1> QED BY <1>1, <1>2, <1>3, <1>4, <1>5, <1>6, StatusMoves

LEMMA MoreSpared ==
    ASSUME NEW g \in Collector, SparesTwo(g), gc'[g].todo \subseteq gc[g].todo,
           Spared(g) \subseteq RetainedRevs'
    PROVE  SparesTwo(g)'
<1> SUFFICES ASSUME \E t \in gc'[g].todo : t[2] \in Retained
             PROVE  Cardinality(Spared(g)') >= 2
    BY DEF SparesTwo
<1>1. Cardinality(Spared(g)) >= 2
    BY DEF SparesTwo
<1>2. Spared(g) \in SUBSET Spared(g)'
    BY DEF Spared
<1>3. Spared(g)' \in SUBSET Rev
    BY DEF Spared, RetainedRevs
<1>4. /\ Cardinality(Spared(g)) \in Nat /\ Cardinality(Spared(g)') \in Nat
      /\ Cardinality(Spared(g)) <= Cardinality(Spared(g)')
    BY <1>2, <1>3, FiniteRevs
<1> QED BY <1>1, <1>4

(* The list is read with two newer rows off it for every retained row on it.*)
LEMMA ReadSpares ==
    ASSUME IInv, NEW g \in Collector, GcReadRows(g)
    PROVE  SparesTwo(g)'
<1>0. TypeOK /\ UNCHANGED <<status, activatedAt>> /\ gc'[g].todo = Uncovered
    <2>1. /\ gc \in [Collector -> GcType] /\ TypeOK
          /\ gc' = [gc EXCEPT ![g] = [@ EXCEPT !.pc = "loop", !.todo = Uncovered]]
        BY DEF IInv, TypeOK, GcReadRows
    <2>2. UNCHANGED <<status, activatedAt>>
        BY DEF GcReadRows, rows
    <2> QED BY <2>1, <2>2 DEF GcType
<1> SUFFICES ASSUME NEW t \in Uncovered, t[2] \in Retained
             PROVE  Cardinality(Spared(g)') >= 2
    BY <1>0 DEF SparesTwo
<1>1. t[1] \in RetainedRevs /\ t[1] \notin Keep
    BY DEF Uncovered, RetainedRevs
<1>2. Keep \in SUBSET RetainedRevs
    BY DEF Keep, Newest
<1>3. Keep \in SUBSET Spared(g)' /\ Spared(g)' \in SUBSET Rev
    <2>1. \A u \in Uncovered : u[1] \notin Keep
        BY DEF Uncovered
    <2>2. RetainedRevs' = RetainedRevs /\ RetainedRevs \in SUBSET Rev
        BY <1>0 DEF RetainedRevs
    <2> QED BY <1>0, <1>2, <2>1, <2>2 DEF Spared
<1>4. Cardinality(Keep) >= 2
    BY <1>0, <1>1, KeepIsTwo
<1>5. /\ Cardinality(Keep) \in Nat /\ Cardinality(Spared(g)') \in Nat
      /\ Cardinality(Keep) <= Cardinality(Spared(g)')
    BY <1>3, FiniteRevs
<1> QED BY <1>4, <1>5

(* Only a collector writes its list. *)
LEMMA ListOwner ==
    ASSUME [Next]_vars
    PROVE  UNCHANGED gc \/ \E h \in Collector : Collection(h)
BY DEF Next, Publication, Rollback, vars, ReadPointer, ReadBase, CreateDraft,
       BeginUpload, Move, WriteFile, UploadFails, FinishUpload, ReadBack, WriteManifest,
       PassValidation, AbortBeforeActivation, StartActivation, CommitActivation,
       ActivationRollsBack, MarkFailed, Abandon, OpReadPointer, OpChooseTarget,
       OpStartActivation, OpCommit, OpGivesUp, RecordCanary, CanaryLegacyPackage, Load, Ripen

(* A list only gets shorter until it is read anew. *)
LEMMA ListMoves ==
    ASSUME IInv, [Next]_vars, NEW g \in Collector, ~GcReadRows(g)
    PROVE  gc'[g].todo \subseteq gc[g].todo
<1>1. gc \in [Collector -> GcType]
    BY DEF IInv, TypeOK
<1>2. ASSUME NEW h \in Collector, GcSkip(h) PROVE gc'[g].todo \subseteq gc[g].todo
    BY <1>1, <1>2 DEF GcSkip, GcType
<1>3. ASSUME NEW h \in Collector, GcDeleteRow(h) PROVE gc'[g].todo \subseteq gc[g].todo
    BY <1>1, <1>3 DEF GcDeleteRow, GcType
<1>4. ASSUME NEW h \in Collector, GcDeleteBytes(h) PROVE gc'[g].todo \subseteq gc[g].todo
    BY <1>1, <1>4 DEF GcDeleteBytes, GcType
<1>5. ASSUME NEW h \in Collector, GcStops(h) PROVE gc'[g].todo \subseteq gc[g].todo
    BY <1>1, <1>5 DEF GcStops, IdleGc, GcType
<1>6. ASSUME NEW h \in Collector, GcReadRows(h), h # g PROVE gc'[g].todo \subseteq gc[g].todo
    BY <1>1, <1>6 DEF GcReadRows, GcType
<1> QED BY <1>2, <1>3, <1>4, <1>5, <1>6, ListOwner DEF Collection

(* A row that is deleted is on the list, and the two that are off it stay.  *)
LEMMA DeleteSpares ==
    ASSUME IInv, NEW g \in Collector, SparesTwo(g), GcDeleteRow(g)
    PROVE  /\ Spared(g) \subseteq RetainedRevs'
           /\ Cardinality(RetainedRevs) >= 2 => Cardinality(RetainedRevs') >= 2
<1>1. PICK t \in gc[g].todo : /\ status[t[1]] = t[2]
                             /\ status' = [status EXCEPT ![t[1]] = "none"]
    BY DEF GcDeleteRow
<1>2. status \in [Rev -> Status]
    BY DEF IInv, TypeOK
<1>3. \A r \in Rev : r # t[1] => status'[r] = status[r]
    BY <1>1, <1>2
<1>4. Spared(g) \subseteq RetainedRevs'
    BY <1>1, <1>3 DEF Spared, RetainedRevs
<1>5. RetainedRevs \in SUBSET Rev /\ RetainedRevs' \in SUBSET Rev
    BY DEF RetainedRevs
<1>6. CASE t[2] \in Retained
    <2>1. Cardinality(Spared(g)) >= 2
        BY <1>1, <1>6 DEF SparesTwo
    <2>2. /\ Cardinality(Spared(g)) \in Nat /\ Cardinality(RetainedRevs') \in Nat
          /\ Cardinality(Spared(g)) <= Cardinality(RetainedRevs')
        BY <1>4, <1>5, FiniteRevs
    <2> QED BY <1>4, <2>1, <2>2
<1>7. CASE t[2] \notin Retained
    <2>1. RetainedRevs \in SUBSET RetainedRevs'
        BY <1>1, <1>3, <1>7 DEF RetainedRevs
    <2>2. /\ Cardinality(RetainedRevs) \in Nat /\ Cardinality(RetainedRevs') \in Nat
          /\ Cardinality(RetainedRevs) <= Cardinality(RetainedRevs')
        BY <1>5, <2>1, FiniteRevs
    <2> QED BY <1>4, <2>2
<1> QED BY <1>6, <1>7

(* Two sweeps do not overlap. *)
SweepsApart == \A g, h \in Collector : gc[g].pc # "idle" /\ gc[h].pc # "idle" => g = h

(* A sweep that is over has nothing on its list. *)
Rested(g) == gc[g].pc = "idle" => gc[g].todo = {}

LEMMA RestedStep ==
    ASSUME IInv, [Next]_vars, NEW g \in Collector, Rested(g)
    PROVE  Rested(g)'
<1>1. gc \in [Collector -> GcType]
    BY DEF IInv, TypeOK
<1>2. ASSUME NEW h \in Collector, GcReadRows(h) PROVE Rested(g)'
    BY <1>1, <1>2 DEF GcReadRows, GcType, Rested
<1>3. ASSUME NEW h \in Collector, GcSkip(h) PROVE Rested(g)'
    BY <1>1, <1>3 DEF GcSkip, GcType, Rested
<1>4. ASSUME NEW h \in Collector, GcDeleteRow(h) PROVE Rested(g)'
    BY <1>1, <1>4 DEF GcDeleteRow, GcType, Rested
<1>5. ASSUME NEW h \in Collector, GcDeleteBytes(h) PROVE Rested(g)'
    BY <1>1, <1>5 DEF GcDeleteBytes, GcType, Rested
<1>6. ASSUME NEW h \in Collector, GcStops(h) PROVE Rested(g)'
    BY <1>1, <1>6 DEF GcStops, IdleGc, GcType, Rested
<1>7. CASE UNCHANGED gc
    BY <1>7 DEF Rested
<1> QED BY <1>2, <1>3, <1>4, <1>5, <1>6, <1>7, ListOwner DEF Collection

LEMMA WayBackStep ==
    ASSUME IInv, SweepsApart, \A g \in Collector : SparesTwo(g) /\ Rested(g), [Next]_vars
    PROVE  /\ \A g \in Collector : SparesTwo(g)'
           /\ Cardinality(RetainedRevs) >= 2 => Cardinality(RetainedRevs') >= 2
<1>1. ASSUME NEW g \in Collector, GcDeleteRow(g)
      PROVE  /\ \A h \in Collector : SparesTwo(h)'
             /\ Cardinality(RetainedRevs) >= 2 => Cardinality(RetainedRevs') >= 2
    <2>1. gc[g].pc = "loop" /\ gc'[g].pc = "bytes" /\ gc \in [Collector -> GcType]
        BY <1>1 DEF GcDeleteRow, IInv, TypeOK
    <2>2. ASSUME NEW h \in Collector PROVE ~GcReadRows(h)
        BY <2>1, <2>2 DEF GcReadRows, GcType
    <2>3. SparesTwo(g)'
        BY <1>1, <2>2, ListMoves, DeleteSpares, MoreSpared
    <2>4. ASSUME NEW h \in Collector, h # g PROVE SparesTwo(h)'
        <3>1. gc[h].todo = {}
            BY <2>1, <2>4 DEF SweepsApart, Rested
        <3> QED BY <2>2, <3>1, ListMoves DEF SparesTwo
    <2> QED BY <1>1, <2>3, <2>4, DeleteSpares
<1>2. CASE ~\E g \in Collector : GcDeleteRow(g)
    <2>1. RetainedRevs \in SUBSET RetainedRevs' /\ RetainedRevs' \in SUBSET Rev
        BY <1>2, RetainedStays DEF RetainedRevs
    <2>2. ASSUME NEW g \in Collector PROVE SparesTwo(g)'
        <3>1. CASE GcReadRows(g)
            BY <3>1, ReadSpares
        <3>2. CASE ~GcReadRows(g)
            <4>1. Spared(g) \subseteq RetainedRevs'
                BY <2>1 DEF Spared
            <4> QED BY <3>2, <4>1, ListMoves, MoreSpared
        <3> QED BY <3>1, <3>2
    <2>3. /\ Cardinality(RetainedRevs) \in Nat /\ Cardinality(RetainedRevs') \in Nat
          /\ Cardinality(RetainedRevs) <= Cardinality(RetainedRevs')
        BY <2>1, FiniteRevs
    <2> QED BY <2>2, <2>3
<1> QED BY <1>1, <1>2

(* While no two sweeps overlap, a collection never takes the way back,      *)
(* whatever publications and rollbacks do between its deletes and however   *)
(* their timestamps were taken.                                             *)
THEOREM WayBackKept == Spec /\ []SweepsApart => RollbackStaysPossible
<1> DEFINE Spares == \A g \in Collector : SparesTwo(g) /\ Rested(g)
<1>1. Init => Spares
    BY DEF Init, IdleGc, SparesTwo, Rested
<1>2. IInv /\ SweepsApart /\ Spares /\ [Next]_vars => Spares'
    BY WayBackStep, RestedStep
<1>3. IInv /\ SweepsApart /\ Spares /\ [Next]_vars
        => [Cardinality(RetainedRevs) >= 2 => Cardinality(RetainedRevs') >= 2]_vars
    BY WayBackStep
<1> HIDE DEF Spares
<1> QED BY <1>1, <1>2, <1>3, Invariant, PTL DEF Spec, RollbackStaysPossible

(* In particular when a single process sweeps, which is what TLC checks. *)
THEOREM WayBackOfOneCollector ==
    ASSUME \A g, h \in Collector : g = h
    PROVE  Spec => RollbackStaysPossible
<1>1. SweepsApart
    BY DEF SweepsApart
<1> QED BY <1>1, WayBackKept, PTL
=============================================================================
