----------------------------- MODULE SimReveal -----------------------------
(***************************************************************************)
(* One simulation iframe of the player: the parent's SimRuntimeClient with *)
(* its SimTransport, documentMachine and activationMachine, the child      *)
(* runtime of simRuntimeChild.ts inside the iframe, and the private        *)
(* MessagePort between them.                                               *)
(*                                                                         *)
(* A document epoch is one offer of a port; the port is first-in first-out *)
(* and dies with its epoch.  Of the five axes of an identity the package   *)
(* revision never changes here, and the section and its configuration are  *)
(* those of the activation, so an identity is a pair <<epoch, activation>>.*)
(* A document that does not answer is driven by the older v2 protocol,     *)
(* which is left free to show the frame.                                   *)
(***************************************************************************)
EXTENDS Naturals, Sequences

CONSTANTS
    Threshold,    \* SIM_BREAKER_THRESHOLD
    MaxMoves,     \* bound: operations of the owner
    MaxFaults     \* bound: errors of the section, lost contexts, failing sends

ASSUME BoundsAssumption == Threshold \in Nat \ {0} /\ MaxMoves \in Nat /\ MaxFaults \in Nat

VARIABLES
    c,          \* the client
    child,      \* the document in the iframe
    moves,
    faults

vars == <<c, child, moves, faults>>

NoProof == <<0, 0>>
NoActivation == [id |-> 0, state |-> "none", proof |-> NoProof]

(* doc: the epoch whose port the document adopted; cur: the section it has   *)
(* installed, 0 for none; stage: how far that one is.                        *)
Blank == [doc |-> 0, cur |-> 0, stage |-> "none", suspended |-> FALSE, lost |-> FALSE]

Timers == {"handshake", "prepare", "present", "context", "grace", "dispose"}

(* One handle of the client, prepareTimer: the label says which callback it  *)
(* holds, that of the deferral of an entry or that of a PREPARE.             *)
PrepareTimer == {"handshake", "prepare"}

Message(type, id) == [type |-> type, id |-> id]
Plain(type) == Message(type, 0)

Init ==
    /\ c = [mode |-> "offering", epoch |-> 1, doc |-> "MOUNTING", lost |-> FALSE,
            act |-> NoActivation, serial |-> 0, pending |-> FALSE, owes |-> FALSE,
            evict |-> "none", failed |-> FALSE, strikes |-> 0, visible |-> FALSE,
            v2 |-> FALSE, wanted |-> FALSE, tainted |-> FALSE, replaced |-> FALSE,
            reloading |-> FALSE,
            timers |-> {}, down |-> <<>>, up |-> <<>>]
    /\ child = Blank
    /\ moves = 0 /\ faults = 0

-----------------------------------------------------------------------------
(* The two machines: an event without an edge is refused and changes nothing. *)

DocumentEdges ==
    { <<"UNMOUNTED", "MOUNT", "MOUNTING">>,       <<"MOUNTING", "READY", "DOCUMENT_READY">>,
      <<"MOUNTING", "DISPOSE", "DISPOSING">>,     <<"MOUNTING", "EVICT", "EVICTED">>,
      <<"DOCUMENT_READY", "SUSPENDED", "SUSPENDED">>,
      <<"DOCUMENT_READY", "DISPOSE", "DISPOSING">>,
      <<"DOCUMENT_READY", "EVICT", "EVICTED">>,   <<"SUSPENDED", "RESUMED", "DOCUMENT_READY">>,
      <<"SUSPENDED", "DISPOSE", "DISPOSING">>,    <<"SUSPENDED", "EVICT", "EVICTED">>,
      <<"DISPOSING", "DISPOSED", "EVICTED">>,     <<"DISPOSING", "EVICT", "EVICTED">> }

Live == {"IDLE", "PREPARING", "APPLIED", "RENDERING", "PRESENTED", "VISIBLE"}

ActivationEdges ==
    { <<"IDLE", "PREPARE", "PREPARING">>,         <<"PREPARING", "APPLIED", "APPLIED">>,
      <<"APPLIED", "PRESENT", "RENDERING">>,      <<"RENDERING", "PRESENTED", "PRESENTED">>,
      <<"PRESENTED", "ACTIVATE", "VISIBLE">>,     <<"PRESENTED", "CONTEXT_LOST", "RENDERING">>,
      <<"VISIBLE", "CONTEXT_LOST", "RENDERING">> }
    \cup {<<s, "RELEASE", "RELEASED">> : s \in Live \cup {"FAILED"}}
    \cup {<<s, "FAIL", "FAILED">> : s \in Live}

Legal(edges, s, event) == \E e \in edges : e[1] = s /\ e[2] = event

Reduce(edges, s, event) ==
    IF Legal(edges, s, event) THEN (CHOOSE e \in edges : e[1] = s /\ e[2] = event)[3] ELSE s

Document(s, event) == [s EXCEPT !.doc = Reduce(DocumentEdges, @, event)]

(* FAIL and CONTEXT_LOST forget the proof. *)
Activation(s, event) ==
    [s EXCEPT !.act.state = Reduce(ActivationEdges, @, event),
              !.act.proof = IF event \in {"FAIL", "CONTEXT_LOST"}
                               /\ Legal(ActivationEdges, s.act.state, event)
                            THEN NoProof ELSE @]

-----------------------------------------------------------------------------
(* Pieces of SimRuntimeClient and SimTransport. *)

(* What is sent into a port whose other end is gone is lost. *)
Send(s, m) ==
    IF s.mode = "modern" /\ child.doc = s.epoch THEN [s EXCEPT !.down = Append(@, m)] ELSE s

ModernActive(s) == s.mode = "modern" /\ s.doc = "DOCUMENT_READY"

Clear(s, ts) == [s EXCEPT !.timers = @ \ ts]
Arm(s, t) == [s EXCEPT !.timers = @ \cup {t}]

SettleEviction_KeepingActivation(s) ==
    IF s.evict \in {"grace", "disposing"}
    THEN [Document(Clear(s, {"grace", "dispose"}), "EVICT") EXCEPT
            !.evict = "evicted", !.owes = FALSE, !.mode = "closed", !.down = <<>>, !.up = <<>>]
    ELSE s

(* settleEviction: the port goes, and with it whatever was under way. *)
SettleEviction(s) ==
    IF s.evict \in {"grace", "disposing"}
    THEN [Document(Clear(s, {"grace", "dispose"}), "EVICT") EXCEPT
            !.evict = "evicted", !.owes = FALSE, !.mode = "closed", !.act = NoActivation,
            !.down = <<>>, !.up = <<>>]
    ELSE s

BumpGeneration_Stranding(s) == [s EXCEPT !.timers = {}, !.owes = FALSE]

(* The timers of an earlier generation do nothing when they fire. *)
BumpGeneration(s) == [SettleEviction(s) EXCEPT !.timers = {}, !.owes = FALSE]

BreakerOpen(s) == s.strikes >= Threshold

Open(s) ==
    IF BreakerOpen(s) THEN s
    ELSE [s EXCEPT !.mode = "offering", !.epoch = @ + 1, !.doc = "MOUNTING", !.lost = FALSE,
                   !.down = <<>>, !.up = <<>>]

FailModern(s) ==
    [Activation(Clear(s, {"handshake", "prepare", "present"}), "FAIL") EXCEPT
        !.pending = FALSE, !.strikes = IF @ < Threshold THEN @ + 1 ELSE @,
        !.failed = TRUE, !.visible = FALSE]

Suspend(s) ==
    IF ModernActive(s) THEN [Send(s, Plain("SUSPEND")) EXCEPT !.owes = TRUE] ELSE s

PayDebt_OnceConfirmed(s) ==
    IF s.owes /\ s.doc = "SUSPENDED" THEN [Send(s, Plain("RESUME")) EXCEPT !.owes = FALSE] ELSE s

(* sendResumeDocument: what was sent is undone, confirmed or not. *)
PayDebt(s) == IF s.owes THEN [Send(s, Plain("RESUME")) EXCEPT !.owes = FALSE] ELSE s

Release(s) ==
    IF s.act.state \in Live \cup {"FAILED"}
    THEN Activation(Send(s, Message("RELEASE", s.act.id)), "RELEASE") ELSE s

ActivateModern_ShowingOn(s) ==
    LET r == Release(Clear(s, {"handshake", "prepare", "present"}))
        id == r.serial + 1
        new == [r EXCEPT !.serial = id,
                         !.act = [id |-> id, state |-> "PREPARING", proof |-> NoProof]]
    IN  Arm(Send(new, Message("PREPARE", id)), "prepare")

ActivateModern(s) ==
    LET r == Release(Clear(s, {"handshake", "prepare", "present"}))
        id == r.serial + 1
        new == [r EXCEPT !.serial = id, !.visible = FALSE,
                         !.act = [id |-> id, state |-> "PREPARING", proof |-> NoProof]]
    IN  Arm(Send(new, Message("PREPARE", id)), "prepare")

(* mayReveal, under the condition that the document accepts commands. *)
MayReveal(s) ==
    ~s.lost /\ s.act.state \in {"PRESENTED", "VISIBLE"} /\ s.act.proof = <<s.epoch, s.act.id>>

(* Once the port is offered, the gate of the activation is the only one. *)
Reveal(s) ==
    IF ModernActive(s) /\ MayReveal(s)
    THEN [Activation(s, "ACTIVATE") EXCEPT !.visible = TRUE] ELSE s

(* The v2 path hides what it replaces or shows it at once; here it hides. *)
ActivateLegacy(s) == [Clear(s, {"handshake"}) EXCEPT !.v2 = TRUE, !.visible = FALSE]

(* onMode('legacy'): the activation that was deferred runs on v2. *)
FallBack(s) ==
    LET d == [s EXCEPT !.mode = "legacy", !.doc = "UNMOUNTED", !.lost = FALSE,
                       !.down = <<>>, !.up = <<>>, !.pending = FALSE]
    IN  IF s.pending THEN ActivateLegacy([PayDebt(d) EXCEPT !.pending = TRUE]) ELSE d

-----------------------------------------------------------------------------
(* The owner: useProjectPlayer. *)

Move == moves < MaxMoves /\ moves' = moves + 1

(* The section is entered: enableModern, thaw and activate in one turn. *)
Enter ==
    LET o == PayDebt(IF c.mode = "legacy" THEN Open(c) ELSE c)
        s == [o EXCEPT !.pending = TRUE, !.wanted = TRUE, !.failed = FALSE,
                      !.tainted = o.lost, !.replaced = FALSE]
    IN  /\ c.evict = "none"
        /\ c' = IF ModernActive(s) THEN ActivateModern(s)
                ELSE IF s.mode = "legacy" THEN ActivateLegacy(s)
                ELSE Arm(Clear([s EXCEPT !.visible = FALSE], {"prepare"}), "handshake")
        /\ Move /\ UNCHANGED <<child, faults>>

Deactivate(s) ==
    LET h == [Clear(s, {"handshake"}) EXCEPT !.visible = FALSE, !.pending = FALSE,
                                             !.wanted = FALSE, !.v2 = FALSE]
    IN  IF ModernActive(h) THEN Release(Clear(h, {"prepare", "present"})) ELSE h

Leave ==
    /\ c.evict = "none" /\ c.wanted
    /\ c' = Deactivate(c)
    /\ Move /\ UNCHANGED <<child, faults>>

(* A background frame, or the outgoing one, which stays on screen. *)
Freeze ==
    /\ c.evict = "none"
    /\ c' = [Suspend(c) EXCEPT !.wanted = FALSE]
    /\ Move /\ UNCHANGED <<child, faults>>

Thaw ==
    /\ c.evict = "none"
    /\ c' = PayDebt(c)
    /\ Move /\ UNCHANGED <<child, faults>>

(* The epoch ends even where the breaker lets no other begin. *)
HandleFrameLoad(s) ==
    Open([BumpGeneration(s) EXCEPT !.act = NoActivation, !.lost = FALSE, !.v2 = FALSE,
            !.epoch = IF BreakerOpen(s) THEN @ + 1 ELSE @,
            !.doc = IF @ = "EVICTED" THEN @ ELSE "MOUNTING", !.up = <<>>, !.down = <<>>])

(* A frame that was left is reloaded: its document lives until the new one   *)
(* has come, and may adopt the port that is meant for it.                    *)
Reload ==
    /\ ~c.reloading /\ ~c.wanted /\ c.evict \in {"none", "grace"}
    /\ c' = [HandleFrameLoad(c) EXCEPT !.reloading = TRUE]
    /\ Move /\ UNCHANGED <<child, faults>>

Load ==
    /\ c.reloading
    /\ child' = Blank
    /\ c' = [HandleFrameLoad(c) EXCEPT !.reloading = FALSE, !.replaced = TRUE]
    /\ UNCHANGED <<moves, faults>>

Evict ==
    LET h == [Clear(c, {"handshake", "prepare", "present", "context"}) EXCEPT
                !.evict = "grace", !.pending = FALSE, !.visible = FALSE, !.wanted = FALSE,
                !.v2 = FALSE]
    IN  /\ c.evict = "none"
        /\ c' = Arm(Release(Suspend(h)), "grace")
        /\ Move /\ UNCHANGED <<child, faults>>

CancelEviction ==
    /\ c.evict = "grace"
    /\ c' = PayDebt([Clear(c, {"grace"}) EXCEPT !.evict = "none"])
    /\ Move /\ UNCHANGED <<child, faults>>

-----------------------------------------------------------------------------
(* Timers. *)

Fire(t) == t \in c.timers /\ UNCHANGED <<child, moves, faults>>

HandshakeTimeout ==
    /\ Fire("handshake")
    /\ c' = IF ModernActive(c) THEN Clear(c, {"handshake"}) ELSE FailModern(c)

StepTimeout == \E t \in {"prepare", "present"} : Fire(t) /\ c' = FailModern(c)

ContextTimeout ==
    /\ Fire("context")
    /\ LET s == Clear(c, {"context"}) IN c' = IF s.lost THEN FailModern(s) ELSE s

GraceOver ==
    LET s == Document([Clear(c, {"grace"}) EXCEPT !.evict = "disposing"], "DISPOSE")
    IN  /\ Fire("grace")
        /\ c' = IF s.mode = "modern" THEN Arm(Send(s, Plain("DISPOSE")), "dispose")
                ELSE SettleEviction(s)

DisposeTimeout == Fire("dispose") /\ c' = SettleEviction(c)

(* The offer is not answered in time, or the package does not speak v3. *)
OfferExpires ==
    /\ c.mode = "offering"
    /\ c' = FallBack(c)
    /\ UNCHANGED <<child, moves, faults>>

-----------------------------------------------------------------------------
(* Messages of the child, in the order it sent them. *)

Receive(type) == c.up # <<>> /\ Head(c.up).type = type /\ UNCHANGED <<child, moves, faults>>
Rest == [c EXCEPT !.up = Tail(@)]

Redrive(s) == IF s.pending /\ ModernActive(s) THEN ActivateModern(s) ELSE s

OnReady == Receive("READY") /\ c' = Redrive(Document(Rest, "READY"))
OnSuspended == Receive("SUSPENDED") /\ c' = Document(Rest, "SUSPENDED")
OnResumed == Receive("RESUMED") /\ c' = Redrive(Document(Rest, "RESUMED"))
OnDisposed == Receive("DISPOSED") /\ c' = SettleEviction(Document(Rest, "DISPOSED"))

OnContextLost ==
    /\ Receive("CONTEXT_LOST")
    /\ c' = Arm([Activation(Rest, "CONTEXT_LOST") EXCEPT
                    !.lost = c.doc \in {"DOCUMENT_READY", "SUSPENDED"} \/ @,
                    !.visible = FALSE], "context")

OnContextRestored ==
    /\ Receive("CONTEXT_RESTORED")
    /\ c' = [Clear(Rest, {"context"}) EXCEPT
                !.lost = @ /\ c.doc \notin {"DOCUMENT_READY", "SUSPENDED"}, !.tainted = TRUE]

MatchesActivation_ByDocument == c.act.id # 0
MatchesActivation == c.act.id # 0 /\ Head(c.up).id = c.act.id

SendPresent(s) ==
    Arm(Activation(Send(s, Message("PRESENT", s.act.id)), "PRESENT"), "present")

OnApplied_Unchecked ==
    /\ Receive("APPLIED")
    /\ c' = IF MatchesActivation
            THEN SendPresent(Activation(Clear(Rest, PrepareTimer), "APPLIED")) ELSE Rest

(* The handle is cleared before the machine is asked.  A late answer of a    *)
(* section that failed, which the machine refuses, disarms the bound of an   *)
(* entry deferred since, which is tainted by it.                             *)
OnApplied ==
    LET s == Clear(Rest, PrepareTimer)
    IN  /\ Receive("APPLIED")
        /\ c' = IF ~MatchesActivation THEN Rest
                ELSE IF c.act.state = "PREPARING" THEN SendPresent(Activation(s, "APPLIED"))
                ELSE [s EXCEPT !.tainted = @ \/ "handshake" \in c.timers]

OnPresented ==
    LET s == Clear(Rest, {"present"})
    IN  /\ Receive("PRESENTED")
        /\ c' = IF ~MatchesActivation THEN Rest
                ELSE IF c.act.state = "RENDERING"
                     THEN Reveal([Activation(s, "PRESENTED") EXCEPT
                                    !.act.proof = <<c.epoch, Head(c.up).id>>,
                                    !.strikes = 0, !.failed = FALSE])
                ELSE s

OnError ==
    /\ Receive("ERROR")
    /\ c' = IF MatchesActivation THEN FailModern(Rest) ELSE Rest

(* A paint, or the owner's nudge. *)
Painted ==
    /\ c.mode # "legacy" /\ c' = Reveal(c)
    /\ UNCHANGED <<child, moves, faults>>

LegacyReveal ==
    /\ c.mode = "legacy" /\ c.v2 /\ ~c.visible
    /\ c' = [c EXCEPT !.visible = TRUE]
    /\ UNCHANGED <<child, moves, faults>>

-----------------------------------------------------------------------------
(* The child. *)

Post(m) == c' = [c EXCEPT !.up = Append(@, m)]
Answer(m) == c' = [c EXCEPT !.up = Append(@, m), !.down = Tail(@)]
Command(type) ==
    c.down # <<>> /\ Head(c.down).type = type /\ UNCHANGED <<moves, faults>>
Connected == c.mode = "modern" /\ child.doc = c.epoch
Fault == faults < MaxFaults /\ faults' = faults + 1

(* An offer of a new epoch is adopted; the parent answers with INIT_DOCUMENT. *)
Adopt ==
    /\ c.mode = "offering" /\ child.doc # c.epoch
    /\ child' = [child EXCEPT !.doc = c.epoch]
    /\ c' = [c EXCEPT !.mode = "modern", !.down = <<Plain("INIT")>>]
    /\ UNCHANGED <<moves, faults>>

OnInit ==
    /\ Command("INIT") /\ Answer(Plain("READY"))
    /\ child' = [child EXCEPT !.suspended = FALSE]

OnSuspendDocument ==
    /\ Command("SUSPEND") /\ Answer(Plain("SUSPENDED"))
    /\ child' = [child EXCEPT !.suspended = TRUE]

OnResumeDocument ==
    /\ Command("RESUME") /\ Answer(Plain("RESUMED"))
    /\ child' = [child EXCEPT !.suspended = FALSE]

Empty == [child EXCEPT !.cur = 0, !.stage = "none"]

OnPrepare ==
    /\ Command("PREPARE")
    /\ child' = [child EXCEPT !.cur = Head(c.down).id, !.stage = "preparing"]
    /\ c' = [c EXCEPT !.down = Tail(@)]

OnPresent ==
    /\ Command("PRESENT")
    /\ child' = IF Head(c.down).id = child.cur THEN [child EXCEPT !.stage = "presenting"] ELSE child
    /\ c' = [c EXCEPT !.down = Tail(@)]

OnRelease ==
    /\ Command("RELEASE")
    /\ child' = IF Head(c.down).id = child.cur THEN Empty ELSE child
    /\ c' = [c EXCEPT !.down = Tail(@)]

OnDispose ==
    /\ Command("DISPOSE") /\ Answer(Plain("DISPOSED"))
    /\ child' = [Empty EXCEPT !.doc = 0]

(* prepare() and present() of a section may take their time; what belongs to *)
(* a section that was replaced is dropped.                                   *)
Progress(from, to, type) ==
    /\ Connected /\ child.stage = from
    /\ child' = [child EXCEPT !.stage = to]
    /\ Post(Message(type, child.cur))
    /\ UNCHANGED <<moves, faults>>

Applied == Progress("preparing", "applied", "APPLIED")
Presented == Progress("presenting", "drawn", "PRESENTED")

SectionFails ==
    /\ Connected /\ child.cur # 0
    /\ Post(Message("ERROR", child.cur))
    /\ Fault /\ UNCHANGED <<child, moves>>

LoseContext ==
    /\ Connected /\ ~child.lost
    /\ child' = [child EXCEPT !.lost = TRUE]
    /\ Post(Plain("CONTEXT_LOST"))
    /\ Fault /\ UNCHANGED moves

RestoreContext ==
    /\ Connected /\ child.lost
    /\ child' = [child EXCEPT !.lost = FALSE]
    /\ Post(Plain("CONTEXT_RESTORED"))
    /\ UNCHANGED <<moves, faults>>

(* A send throws: the transport closes the port and settles on legacy, and   *)
(* the method that sent goes on to set its state and arm its timer.  Falling *)
(* back reads and writes none of what the rest of such a method writes, so   *)
(* the method and then this step leave what the code leaves.                 *)
SendFails ==
    /\ Connected /\ c.evict = "none"
    /\ c' = FallBack(c)
    /\ Fault /\ UNCHANGED <<child, moves>>

-----------------------------------------------------------------------------
OwnerMoves == Enter \/ Leave \/ Freeze \/ Thaw \/ Reload \/ Evict \/ CancelEviction
TimerFires == HandshakeTimeout \/ StepTimeout \/ ContextTimeout \/ GraceOver \/ DisposeTimeout
                 \/ OfferExpires
ClientReceives == OnReady \/ OnSuspended \/ OnResumed \/ OnDisposed \/ OnContextLost
                     \/ OnContextRestored \/ OnApplied \/ OnPresented \/ OnError
ChildReceives == OnInit \/ OnSuspendDocument \/ OnResumeDocument \/ OnPrepare \/ OnPresent
                    \/ OnRelease \/ OnDispose
ChildActs == Adopt \/ Applied \/ Presented \/ SectionFails \/ LoseContext \/ RestoreContext

Next ==
    \/ OwnerMoves \/ Load \/ TimerFires \/ ClientReceives
    \/ ChildReceives \/ ChildActs \/ Painted \/ LegacyReveal \/ SendFails

Spec == Init /\ [][Next]_vars

(* Timers fire, and what was posted arrives.  Nothing is asked of the child: *)
(* a package may be silent for ever.                                         *)
Fairness ==
    /\ WF_vars(HandshakeTimeout) /\ WF_vars(StepTimeout) /\ WF_vars(ContextTimeout)
    /\ WF_vars(GraceOver) /\ WF_vars(DisposeTimeout) /\ WF_vars(OfferExpires)
    /\ WF_vars(ClientReceives) /\ WF_vars(Load)

FairSpec == Spec /\ Fairness

-----------------------------------------------------------------------------
Modes == {"offering", "modern", "legacy", "closed"}
DocumentStates == {"UNMOUNTED", "MOUNTING", "DOCUMENT_READY", "SUSPENDED", "DISPOSING", "EVICTED"}
ActivationStates == Live \cup {"none", "RELEASED", "FAILED"}

(* Every variable has its type, an evicted document leaves no activation     *)
(* behind to act on, and a terminal bound is armed only behind the step it   *)
(* bounds: an answer that was refused leaves none to fail a section that is  *)
(* over or on screen.                                                        *)
TypeOK ==
    /\ c.mode \in Modes /\ c.doc \in DocumentStates /\ c.epoch \in Nat \ {0}
    /\ c.act.id \in 0..c.serial /\ c.act.state \in ActivationStates
    /\ c.act.proof \in (0..c.epoch) \X (0..c.serial)
    /\ c.evict \in {"none", "grace", "disposing", "evicted"}
    /\ c.evict = "evicted" => c.act = NoActivation
    /\ c.strikes \in 0..Threshold /\ c.timers \subseteq Timers
    /\ "prepare" \in c.timers => c.act.state = "PREPARING"
    /\ "present" \in c.timers => c.act.state = "RENDERING"
    /\ child.doc \in 0..c.epoch /\ child.cur \in 0..c.serial
    /\ moves \in 0..MaxMoves /\ faults \in 0..MaxFaults

(* activationMachine.ts: a frame is uncovered only while the acknowledgement *)
(* held for it matches the live intent on every axis, and the context its    *)
(* picture was drawn with is not lost.  A frame whose document was replaced  *)
(* under it has no activation; the README says what covers it then.          *)
VisibleIsProven ==
    c.visible /\ c.mode \in {"offering", "modern"} /\ c.act.id # 0
        => c.act.state = "VISIBLE" /\ c.act.proof = <<c.epoch, c.act.id>> /\ ~c.lost

(* What the parent uncovers is what the child drew: no late answer of an     *)
(* earlier section or an earlier document stands for the one on screen.      *)
ShownIsDrawn ==
    c.visible /\ c.mode = "modern" /\ c.act.id # 0
        => child.doc = c.epoch /\ child.cur = c.act.id /\ child.stage = "drawn"

(* Whether the child is quiescent once it has read what is on its way. *)
Quiesced(now, q) ==
    LET Wakes(m) == m.type \in {"RESUME", "INIT"}
    IN  \/ now /\ \A k \in DOMAIN q : ~Wakes(q[k])
        \/ \E k \in DOMAIN q : /\ q[k].type = "SUSPEND"
                               /\ \A j \in DOMAIN q : j > k => ~Wakes(q[j])

(* The debt of a suspend: the child is left quiescent exactly while this     *)
(* client still owes it a resume, also before the child has confirmed.       *)
SuspendedIsOwed ==
    Connected /\ c.evict \in {"none", "grace"} => c.owes = Quiesced(child.suspended, c.down)

(* The promise of evict() always settles, whatever loads, timers and answers *)
(* come in between: the owner removes the iframe only when it does.          *)
EvictionSettles ==
    c.evict \in {"grace", "disposing"} ~> c.evict \notin {"grace", "disposing"}

Unanswered == c.wanted /\ ~c.visible /\ ~c.failed /\ c.mode # "legacy"

(* Every entry into a section ends, even before a silent child: it is shown, *)
(* it fails visibly, the owner leaves, or v2 takes over; but for an entry    *)
(* that is tainted, and for a document replaced under the wait.  What taints *)
(* an entry is a context lost before it or restored after it, and a refused  *)
(* late answer that disarmed the bound of its deferral.                      *)
EveryWaitEnds == Unanswered ~> ~Unanswered \/ c.tainted \/ c.replaced

(* SimRuntimeClient.ts, where an entry is deferred: "Every wait in this       *)
(* protocol has a bound that leads somewhere".  Not every one does: the late  *)
(* answer of OnApplied and a restored context each leave a wait without one.  *)
EveryWaitHasABound == Unanswered ~> ~Unanswered \/ c.replaced
=============================================================================
