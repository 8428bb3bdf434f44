--------------------------- MODULE SimRevealProofs ---------------------------
(***************************************************************************)
(* Proofs about SimReveal, for any breaker threshold and any number of     *)
(* moves and faults.                                                       *)
(*                                                                         *)
(* The client is one record, and a callback a composition of operators on  *)
(* it.  The invariant is a predicate on such a record and the child (Core, *)
(* Evicted, Shown), each operator has a lemma, and an action is the        *)
(* composition of the lemmas.                                              *)
(***************************************************************************)
EXTENDS SimReveal, TLAPS

Evictions == {"none", "grace", "disposing", "evicted"}
Types == {"INIT", "SUSPEND", "RESUME", "PREPARE", "PRESENT", "RELEASE", "DISPOSE",
          "READY", "SUSPENDED", "RESUMED", "DISPOSED", "CONTEXT_LOST", "CONTEXT_RESTORED",
          "APPLIED", "PRESENTED", "ERROR"}
Messages == [type : Types, id : Nat]
Stages == {"none", "preparing", "applied", "presenting", "drawn"}

Act == [id : Nat, state : ActivationStates, proof : Nat \X Nat]

Client == [mode : Modes, epoch : Nat \ {0}, doc : DocumentStates, lost : BOOLEAN,
           act : Act, serial : Nat, pending : BOOLEAN, owes : BOOLEAN,
           evict : Evictions, failed : BOOLEAN, strikes : 0..Threshold, visible : BOOLEAN,
           v2 : BOOLEAN, wanted : BOOLEAN, tainted : BOOLEAN, replaced : BOOLEAN,
           reloading : BOOLEAN,
           timers : SUBSET Timers, down : Seq(Messages), up : Seq(Messages)]

Child == [doc : Nat, cur : Nat, stage : Stages, suspended : BOOLEAN, lost : BOOLEAN]

Has(q, type, id) == \E k \in DOMAIN q : q[k].type = type /\ q[k].id = id

(* The activation is none or the youngest, and nothing bears a later number. *)
Sized(s, ch) ==
    /\ s.act.id \in {0, s.serial}
    /\ s.act.id = 0 => s.act = NoActivation
    /\ s.act.proof[1] <= s.epoch /\ s.act.proof[2] <= s.serial
    /\ s.mode = "offering" => s.act.proof[1] < s.epoch
    /\ \A k \in DOMAIN s.down : s.down[k].id <= s.serial
    /\ \A k \in DOMAIN s.up : s.up[k].id <= s.serial
    /\ ch.doc <= s.epoch /\ ch.cur <= s.serial

Timed(s) ==
    /\ "prepare" \in s.timers => s.act.state = "PREPARING"
    /\ "present" \in s.timers => s.act.state = "RENDERING"
    /\ "grace" \in s.timers => s.evict = "grace"

(* An eviction has released the activation and deferred none. *)
Evicted(s) ==
    /\ s.evict # "none" => ~s.pending /\ s.act.state \notin Live
    /\ s.evict = "evicted" => s.act = NoActivation

Shown(s) ==
    s.visible /\ s.mode \in {"offering", "modern"} /\ s.act.id # 0
        => s.act.state = "VISIBLE" /\ s.act.proof = <<s.epoch, s.act.id>> /\ ~s.lost

(* What is on its way to the child: sections in the order of their numbers,  *)
(* one PRESENT at most of the present one, RELEASE of it only once it is.    *)
Queued(s, ch) ==
    /\ \A k \in DOMAIN s.down : s.down[k].type = "PREPARE" =>
          /\ ch.cur < s.down[k].id
          /\ \A j \in DOMAIN s.down :
                j < k /\ s.down[j].type = "PREPARE" => s.down[j].id < s.down[k].id
    /\ Has(s.down, "RELEASE", s.act.id) /\ s.act.id # 0 => s.act.state = "RELEASED"
    /\ \A j, k \in DOMAIN s.down :
          /\ s.down[j] = Message("PRESENT", s.act.id) /\ s.down[k] = Message("PRESENT", s.act.id)
          /\ s.act.id # 0
          => j = k
    /\ \A k \in DOMAIN s.down : s.down[k].type = "DISPOSE" => s.evict = "disposing"
    /\ s.mode # "modern" => s.down = <<>> /\ s.up = <<>>

(* How far the child is with the present section, and that an answer it gave *)
(* of having drawn it still holds.                                           *)
Drawn(s, ch) == ch.doc = s.epoch /\ ch.cur = s.act.id /\ ch.stage = "drawn"

Linked(s, ch) == s.act.id # 0 =>
    /\ Has(s.down, "PRESENT", s.act.id) => s.act.state # "PREPARING"
    /\ s.act.state = "PREPARING" /\ ch.cur = s.act.id => ch.stage \in {"preparing", "applied"}
    /\ Has(s.down, "PRESENT", s.act.id) /\ ch.cur = s.act.id
          => ch.stage \in {"preparing", "applied"}
    /\ Has(s.up, "PRESENTED", s.act.id) /\ s.act.state \in Live => Drawn(s, ch)
    /\ s.mode = "modern" /\ s.act.state \in {"PRESENTED", "VISIBLE"}
          /\ s.act.proof = <<s.epoch, s.act.id>> => Drawn(s, ch)

(* Evicted and Shown stand apart: some operators leave them to be restored by *)
(* the next.                                                                 *)
Core(s, ch) ==
    /\ s \in Client /\ ch \in Child
    /\ Sized(s, ch) /\ Timed(s) /\ Queued(s, ch) /\ Linked(s, ch)

-----------------------------------------------------------------------------
(* The reducers. *)
LEMMA ActivationStep ==
    ASSUME NEW st, NEW event \in {"PREPARE", "APPLIED", "PRESENT", "PRESENTED", "ACTIVATE",
                                  "CONTEXT_LOST", "RELEASE", "FAIL"}
    PROVE  \/ Reduce(ActivationEdges, st, event) = st /\ ~Legal(ActivationEdges, st, event)
           \/ \E e \in ActivationEdges :
                e[1] = st /\ e[2] = event /\ Reduce(ActivationEdges, st, event) = e[3]
BY DEF Reduce, Legal

LEMMA DocumentStep ==
    ASSUME NEW st \in DocumentStates, NEW event
    PROVE  Reduce(DocumentEdges, st, event) \in DocumentStates
<1>1. \A e \in DocumentEdges : e[3] \in DocumentStates
    BY DEF DocumentEdges, DocumentStates
<1> QED BY <1>1 DEF Reduce, Legal

LEMMA EdgesOf ==
    ASSUME NEW e \in ActivationEdges
    PROVE  /\ e[2] = "PREPARE" => e[1] = "IDLE" /\ e[3] = "PREPARING"
           /\ e[2] = "APPLIED" => e[1] = "PREPARING" /\ e[3] = "APPLIED"
           /\ e[2] = "PRESENT" => e[1] = "APPLIED" /\ e[3] = "RENDERING"
           /\ e[2] = "PRESENTED" => e[1] = "RENDERING" /\ e[3] = "PRESENTED"
           /\ e[2] = "ACTIVATE" => e[1] = "PRESENTED" /\ e[3] = "VISIBLE"
           /\ e[2] = "CONTEXT_LOST" => e[1] \in {"PRESENTED", "VISIBLE"} /\ e[3] = "RENDERING"
           /\ e[2] = "RELEASE" => e[1] \in Live \cup {"FAILED"} /\ e[3] = "RELEASED"
           /\ e[2] = "FAIL" => e[1] \in Live /\ e[3] = "FAILED"
BY DEF ActivationEdges

LEMMA Edges ==
    /\ \A st \in Live \cup {"FAILED"} : <<st, "RELEASE", "RELEASED">> \in ActivationEdges
    /\ \A st \in Live : <<st, "FAIL", "FAILED">> \in ActivationEdges
    /\ <<"PREPARING", "APPLIED", "APPLIED">> \in ActivationEdges
    /\ <<"APPLIED", "PRESENT", "RENDERING">> \in ActivationEdges
    /\ <<"RENDERING", "PRESENTED", "PRESENTED">> \in ActivationEdges
    /\ <<"PRESENTED", "ACTIVATE", "VISIBLE">> \in ActivationEdges
    /\ <<"PRESENTED", "CONTEXT_LOST", "RENDERING">> \in ActivationEdges
    /\ <<"VISIBLE", "CONTEXT_LOST", "RENDERING">> \in ActivationEdges
BY DEF ActivationEdges
-----------------------------------------------------------------------------
(* What the operators change. *)
Body(s, t) ==
    /\ t \in Client
    /\ t.mode = s.mode /\ t.epoch = s.epoch /\ t.doc = s.doc /\ t.lost = s.lost
    /\ t.serial = s.serial /\ t.pending = s.pending /\ t.owes = s.owes
    /\ t.evict = s.evict /\ t.visible = s.visible

Ports(s, t) == t.down = s.down /\ t.up = s.up

LEMMA ClearFields ==
    ASSUME NEW s \in Client, NEW ts \in SUBSET Timers
    PROVE  /\ Body(s, Clear(s, ts)) /\ Ports(s, Clear(s, ts)) /\ Clear(s, ts).act = s.act
           /\ Clear(s, ts).timers = s.timers \ ts
BY DEF Client, Clear, Body, Ports

LEMMA ArmFields ==
    ASSUME NEW s \in Client, NEW t \in Timers
    PROVE  /\ Body(s, Arm(s, t)) /\ Ports(s, Arm(s, t)) /\ Arm(s, t).act = s.act
           /\ Arm(s, t).timers = s.timers \cup {t}
BY DEF Client, Arm, Body, Ports

LEMMA DocumentFields ==
    ASSUME NEW s \in Client, NEW event
    PROVE  LET t == Document(s, event) IN
           /\ t \in Client /\ Ports(s, t) /\ t.act = s.act /\ t.timers = s.timers
           /\ t.mode = s.mode /\ t.epoch = s.epoch /\ t.lost = s.lost
           /\ t.serial = s.serial /\ t.pending = s.pending /\ t.owes = s.owes
           /\ t.evict = s.evict /\ t.visible = s.visible
<1>1. s.doc \in DocumentStates
    BY DEF Client
<1>2. Reduce(DocumentEdges, s.doc, event) \in DocumentStates
    BY <1>1, DocumentStep
<1> QED BY <1>2 DEF Client, Document, Ports

LEMMA SendFields ==
    ASSUME NEW s \in Client, NEW m \in Messages
    PROVE  LET t == Send(s, m) IN
           /\ Body(s, t) /\ t.up = s.up /\ t.act = s.act /\ t.timers = s.timers
           /\ t.down \in {s.down, Append(s.down, m)}
<1>1. Append(s.down, m) \in Seq(Messages)
    BY DEF Client
<1>2. LET t == [s EXCEPT !.down = Append(@, m)] IN
      Body(s, t) /\ t.up = s.up /\ t.act = s.act /\ t.timers = s.timers
        /\ t.down = Append(s.down, m)
    BY <1>1 DEF Client, Body
<1>3. Body(s, s)
    BY DEF Body
<1>4. CASE s.mode = "modern" /\ child.doc = s.epoch
    BY <1>2, <1>4 DEF Send
<1>5. CASE ~(s.mode = "modern" /\ child.doc = s.epoch)
    BY <1>3, <1>5 DEF Send
<1> QED BY <1>4, <1>5

Events == {"PREPARE", "APPLIED", "PRESENT", "PRESENTED", "ACTIVATE", "CONTEXT_LOST",
           "RELEASE", "FAIL"}

LEMMA ActivationFields ==
    ASSUME NEW s \in Client, NEW event \in Events
    PROVE  LET t == Activation(s, event) IN
           /\ Body(s, t) /\ Ports(s, t) /\ t.timers = s.timers
           /\ t.act.id = s.act.id
           /\ t.act.state = Reduce(ActivationEdges, s.act.state, event)
           /\ t.act.proof = IF event \in {"FAIL", "CONTEXT_LOST"}
                               /\ Legal(ActivationEdges, s.act.state, event)
                            THEN NoProof ELSE s.act.proof
<1> DEFINE state == Reduce(ActivationEdges, s.act.state, event)
<1> DEFINE proof == IF event \in {"FAIL", "CONTEXT_LOST"}
                      /\ Legal(ActivationEdges, s.act.state, event)
                   THEN NoProof ELSE s.act.proof
<1> DEFINE act == [[s.act EXCEPT !.state = state] EXCEPT !.proof = proof]
<1>1. s.act \in Act
    BY DEF Client
<1>2. state \in ActivationStates
    <2>1. \A e \in ActivationEdges : e[3] \in ActivationStates
        BY DEF ActivationEdges, ActivationStates, Live
    <2> QED BY <1>1, <2>1, ActivationStep DEF Act, Events
<1>3. proof \in Nat \X Nat
    BY <1>1 DEF Act, NoProof
<1>4. act \in Act /\ act.id = s.act.id /\ act.state = state /\ act.proof = proof
    BY <1>1, <1>2, <1>3 DEF Act
<1>5. Activation(s, event) = [s EXCEPT !.act = act]
    BY DEF Client, Act, Activation
<1> HIDE DEF act, state, proof
<1>6. LET t == [s EXCEPT !.act = act] IN
      Body(s, t) /\ Ports(s, t) /\ t.timers = s.timers /\ t.act = act
    BY <1>4 DEF Client, Body, Ports
<1> QED BY <1>4, <1>5, <1>6 DEF state, proof

-----------------------------------------------------------------------------
(* Queues. *)
LEMMA TailFacts ==
    ASSUME NEW q \in Seq(Messages), q # <<>>
    PROVE  /\ Tail(q) \in Seq(Messages) /\ Head(q) \in Messages
           /\ 1 \in DOMAIN q /\ Head(q) = q[1]
           /\ \A k \in DOMAIN Tail(q) : k \in Nat \ {0} /\ k + 1 \in DOMAIN q /\ Tail(q)[k] = q[k + 1]
<1>1. Len(q) \in Nat /\ Len(q) # 0 /\ DOMAIN q = 1..Len(q)
    OBVIOUS
<1>2. Len(Tail(q)) = Len(q) - 1 /\ DOMAIN Tail(q) = 1..Len(Tail(q))
    BY <1>1
<1> QED BY <1>1, <1>2

LEMMA AppendFacts ==
    ASSUME NEW q \in Seq(Messages), NEW m \in Messages
    PROVE  /\ Append(q, m) \in Seq(Messages)
           /\ \A k \in DOMAIN Append(q, m) :
                 \/ k \in DOMAIN q /\ Append(q, m)[k] = q[k]
                 \/ k = Len(q) + 1 /\ Append(q, m)[k] = m
           /\ \A k \in DOMAIN q : k \in Nat /\ k < Len(q) + 1
<1>1. Len(q) \in Nat /\ DOMAIN q = 1..Len(q)
    OBVIOUS
<1>2. Len(Append(q, m)) = Len(q) + 1 /\ DOMAIN Append(q, m) = 1..(Len(q) + 1)
    BY <1>1
<1> QED BY <1>1, <1>2

LEMMA MessageIs ==
    ASSUME NEW m \in Messages, NEW type, NEW id
    PROVE  (m = Message(type, id)) = (m.type = type /\ m.id = id)
BY DEF Messages, Message

-----------------------------------------------------------------------------
(* What leaves the activation alone leaves the core alone. *)
LEMMA Quiet ==
    ASSUME NEW s, NEW ch, Core(s, ch), NEW t \in Client,
           t.epoch = s.epoch, t.act = s.act, t.serial = s.serial, t.evict = s.evict,
           t.timers \cap {"prepare", "present"} \subseteq s.timers,
           "grace" \in t.timers => "grace" \in s.timers \/ t.evict = "grace",
           \/ t.mode = s.mode /\ t.down = s.down /\ t.up = s.up
           \/ t.mode \in {s.mode, "legacy", "closed"} /\ t.down = <<>> /\ t.up = <<>>
    PROVE  Core(t, ch)
<1>1. Sized(t, ch)
    BY DEF Core, Sized, Modes
<1>2. Timed(t)
    BY DEF Core, Timed
<1>3. Queued(t, ch)
    BY DEF Core, Queued, Has
<1>4. Linked(t, ch)
    BY DEF Core, Linked, Has, Drawn
<1> QED BY <1>1, <1>2, <1>3, <1>4 DEF Core

LEMMA QuietEvicted ==
    ASSUME NEW s, NEW t, Evicted(s), t.act = s.act, t.evict = s.evict, t.pending => s.pending
    PROVE  Evicted(t)
BY DEF Evicted

(* A message is read. *)
LEMMA ReadCore ==
    ASSUME NEW s, NEW ch, Core(s, ch), s.up # <<>>, NEW t, t = [s EXCEPT !.up = Tail(@)]
    PROVE  /\ Core(t, ch) /\ Body(s, t) /\ t.act = s.act /\ t.timers = s.timers
           /\ t.down = s.down /\ t.up = Tail(s.up)
           /\ Head(s.up) \in Messages
           /\ Has(s.up, Head(s.up).type, Head(s.up).id)
<1>1. s \in Client /\ s.up \in Seq(Messages)
    BY DEF Core, Client
<1>2. /\ Tail(s.up) \in Seq(Messages) /\ Head(s.up) \in Messages
      /\ 1 \in DOMAIN s.up /\ Head(s.up) = s.up[1]
      /\ \A k \in DOMAIN Tail(s.up) : k + 1 \in DOMAIN s.up /\ Tail(s.up)[k] = s.up[k + 1]
    BY <1>1, TailFacts
<1>3. /\ Body(s, t) /\ t.act = s.act /\ t.timers = s.timers
      /\ t.down = s.down /\ t.up = Tail(s.up)
    BY <1>1, <1>2 DEF Client, Body
<1>4. Sized(t, ch)
    BY <1>2, <1>3 DEF Core, Sized, Body
<1>5. Timed(t)
    BY <1>3 DEF Core, Timed
<1>6. Queued(t, ch)
    BY <1>3 DEF Core, Queued, Body
<1>7. Linked(t, ch)
    <2>1. \A id : Has(t.up, "PRESENTED", id) => Has(s.up, "PRESENTED", id)
        BY <1>2, <1>3 DEF Has
    <2> QED BY <1>3, <2>1 DEF Core, Linked, Drawn, Body
<1> QED BY <1>2, <1>3, <1>4, <1>5, <1>6, <1>7 DEF Core, Body, Has

-----------------------------------------------------------------------------
(* Commands to the document. *)
Same(s, t) ==
    /\ t \in Client
    /\ t.mode = s.mode /\ t.epoch = s.epoch /\ t.doc = s.doc /\ t.lost = s.lost
    /\ t.act = s.act /\ t.serial = s.serial /\ t.pending = s.pending
    /\ t.evict = s.evict /\ t.visible = s.visible /\ t.timers = s.timers /\ t.up = s.up

LEMMA SameKeeps ==
    ASSUME NEW s, NEW t, Same(s, t)
    PROVE  (Evicted(s) => Evicted(t)) /\ (Shown(s) => Shown(t))
BY DEF Same, Evicted, Shown

LEMMA SendCore ==
    ASSUME NEW s, NEW ch, Core(s, ch), NEW m \in Messages,
           m.type \notin {"PREPARE", "PRESENT", "RELEASE"}, m.id = 0,
           m.type = "DISPOSE" => s.evict = "disposing"
    PROVE  Core(Send(s, m), ch) /\ Same(s, Send(s, m))
<1>1. s \in Client /\ s.down \in Seq(Messages)
    BY DEF Core, Client
<1>2. CASE ~(s.mode = "modern" /\ child.doc = s.epoch)
    BY <1>1, <1>2 DEF Send, Same
<1>3. CASE s.mode = "modern" /\ child.doc = s.epoch
    <2> DEFINE t == Send(s, m)
    <2>1. t = [s EXCEPT !.down = Append(@, m)]
        BY <1>3 DEF Send
    <2>2. /\ Append(s.down, m) \in Seq(Messages)
          /\ \A k \in DOMAIN Append(s.down, m) :
                 \/ k \in DOMAIN s.down /\ Append(s.down, m)[k] = s.down[k]
                 \/ Append(s.down, m)[k] = m
        BY <1>1, AppendFacts
    <2>3. Same(s, t) /\ t.down = Append(s.down, m)
        <3>1. t.down = Append(s.down, m)
            BY <1>1, <2>1 DEF Client
        <3>2. t \in Client
            BY <1>1, <2>1, <2>2 DEF Client
        <3> QED BY <1>1, <2>1, <3>1, <3>2 DEF Same
    <2> HIDE DEF t
    <2>4. Sized(t, ch)
        BY <1>1, <2>2, <2>3 DEF Core, Sized, Same, Client
    <2>5. Timed(t)
        BY <2>3 DEF Core, Timed, Same
    <2>6. \A type \in {"PREPARE", "PRESENT", "RELEASE"} : \A id :
            Has(t.down, type, id) => Has(s.down, type, id)
        BY <2>2, <2>3 DEF Has
    <2>7. m # Message("PRESENT", s.act.id)
        BY MessageIs
    <2>8. Queued(t, ch)
        BY <1>3, <2>2, <2>3, <2>6, <2>7 DEF Core, Queued, Same
    <2>9. Linked(t, ch)
        BY <2>3, <2>6 DEF Core, Linked, Drawn, Same
    <2> QED BY <2>3, <2>4, <2>5, <2>8, <2>9 DEF Core, Same, t
<1> QED BY <1>2, <1>3

LEMMA PlainIs ==
    ASSUME NEW type \in Types
    PROVE  Plain(type) \in Messages /\ Plain(type).type = type /\ Plain(type).id = 0
BY DEF Plain, Message, Messages

LEMMA OwesCore ==
    ASSUME NEW s, NEW ch, Core(s, ch), NEW b \in BOOLEAN
    PROVE  LET t == [s EXCEPT !.owes = b] IN Core(t, ch) /\ Same(s, t)
<1> DEFINE t == [s EXCEPT !.owes = b]
<1>1. Same(s, t) /\ t.down = s.down
    BY DEF Core, Client, Same
<1> QED BY <1>1, Quiet DEF Same

LEMMA SuspendCore ==
    ASSUME NEW s, NEW ch, Core(s, ch)
    PROVE  Core(Suspend(s), ch) /\ Same(s, Suspend(s))
<1> DEFINE r == Send(s, Plain("SUSPEND"))
<1>1. Core(r, ch) /\ Same(s, r)
    BY PlainIs, SendCore DEF Types
<1> HIDE DEF r
<1>2. Core([r EXCEPT !.owes = TRUE], ch) /\ Same(r, [r EXCEPT !.owes = TRUE])
    BY <1>1, OwesCore
<1>3. Same(s, s)
    BY DEF Same, Core
<1> QED BY <1>1, <1>2, <1>3 DEF Suspend, Same, r

LEMMA PayDebtCore ==
    ASSUME NEW s, NEW ch, Core(s, ch)
    PROVE  Core(PayDebt(s), ch) /\ Same(s, PayDebt(s))
<1> DEFINE r == Send(s, Plain("RESUME"))
<1>1. Core(r, ch) /\ Same(s, r)
    BY PlainIs, SendCore DEF Types
<1> HIDE DEF r
<1>2. Core([r EXCEPT !.owes = FALSE], ch) /\ Same(r, [r EXCEPT !.owes = FALSE])
    BY <1>1, OwesCore
<1>3. Same(s, s)
    BY DEF Same, Core
<1> QED BY <1>1, <1>2, <1>3 DEF PayDebt, Same, r

LEMMA ClearCore ==
    ASSUME NEW s, NEW ch, Core(s, ch), NEW ts \in SUBSET Timers
    PROVE  /\ Core(Clear(s, ts), ch)
           /\ Evicted(s) => Evicted(Clear(s, ts))
           /\ Shown(s) => Shown(Clear(s, ts))
<1> DEFINE t == Clear(s, ts)
<1>1. Body(s, t) /\ Ports(s, t) /\ t.act = s.act /\ t.timers = s.timers \ ts
    BY ClearFields DEF Core
<1> HIDE DEF t
<1>2. Core(t, ch)
    BY <1>1, Quiet DEF Body, Ports
<1>3. Evicted(s) => Evicted(t)
    BY <1>1 DEF Body, Evicted
<1>4. Shown(s) => Shown(t)
    BY <1>1 DEF Body, Shown
<1> QED BY <1>2, <1>3, <1>4 DEF t

LEMMA ArmCore ==
    ASSUME NEW s, NEW ch, Core(s, ch), NEW timer \in Timers \ {"prepare", "present"},
           timer = "grace" => s.evict = "grace"
    PROVE  /\ Core(Arm(s, timer), ch)
           /\ Evicted(s) => Evicted(Arm(s, timer))
           /\ Shown(s) => Shown(Arm(s, timer))
<1> DEFINE t == Arm(s, timer)
<1>1. Body(s, t) /\ Ports(s, t) /\ t.act = s.act /\ t.timers = s.timers \cup {timer}
    BY ArmFields DEF Core
<1> HIDE DEF t
<1>2. Core(t, ch)
    BY <1>1, Quiet DEF Body, Ports
<1>3. Evicted(s) => Evicted(t)
    BY <1>1 DEF Body, Evicted
<1>4. Shown(s) => Shown(t)
    BY <1>1 DEF Body, Shown
<1> QED BY <1>2, <1>3, <1>4 DEF t

-----------------------------------------------------------------------------
(* The end of an activation. *)
LEMMA FailCore ==
    ASSUME NEW s, NEW ch, Core(s, ch), Evicted(s)
    PROVE  LET t == FailModern(s) IN
           /\ Core(t, ch) /\ Evicted(t) /\ Shown(t)
           /\ t.evict = s.evict /\ t.mode = s.mode
<1> DEFINE a == Clear(s, {"handshake", "prepare", "present"})
<1> DEFINE b == Activation(a, "FAIL")
<1> DEFINE t == FailModern(s)
<1>1. /\ Body(s, a) /\ Ports(s, a) /\ a.act = s.act
      /\ a.timers = s.timers \ {"handshake", "prepare", "present"}
    <2>1. {"handshake", "prepare", "present"} \in SUBSET Timers
        BY DEF Timers
    <2> QED BY <2>1, ClearFields DEF Core
<1> HIDE DEF a
<1>2. /\ Body(a, b) /\ Ports(a, b) /\ b.timers = a.timers /\ b.act.id = a.act.id
      /\ b.act.state = Reduce(ActivationEdges, a.act.state, "FAIL")
      /\ b.act.proof = IF Legal(ActivationEdges, a.act.state, "FAIL")
                       THEN NoProof ELSE a.act.proof
    BY <1>1, ActivationFields DEF Body, Events
<1> HIDE DEF b
<1>3. /\ t \in Client
      /\ t.mode = s.mode /\ t.epoch = s.epoch /\ t.serial = s.serial /\ t.evict = s.evict
      /\ t.act = b.act /\ t.timers = b.timers /\ t.down = b.down /\ t.up = b.up
      /\ ~t.pending /\ ~t.visible
    <2>1. t = [b EXCEPT !.pending = FALSE, !.strikes = IF @ < Threshold THEN @ + 1 ELSE @,
                       !.failed = TRUE, !.visible = FALSE]
        BY DEF FailModern, a, b, t
    <2>2. (IF b.strikes < Threshold THEN b.strikes + 1 ELSE b.strikes) \in 0..Threshold
        BY <1>1, <1>2, BoundsAssumption DEF Body, Client
    <2>3. b \in Client
        BY <1>2 DEF Body
    <2> HIDE DEF t
    <2>4. t \in Client
        <3> DEFINE n == IF b.strikes < Threshold THEN b.strikes + 1 ELSE b.strikes
        <3>1. t = [b EXCEPT !.pending = FALSE, !.strikes = n, !.failed = TRUE, !.visible = FALSE]
            BY <2>1, <2>3 DEF Client
        <3> HIDE DEF n
        <3>2. n \in 0..Threshold
            BY <2>2 DEF n
        <3> QED BY <2>3, <3>1, <3>2 DEF Client
    <2>5. /\ t.mode = b.mode /\ t.epoch = b.epoch /\ t.serial = b.serial /\ t.evict = b.evict
          /\ t.act = b.act /\ t.timers = b.timers /\ t.down = b.down /\ t.up = b.up
          /\ ~t.pending /\ ~t.visible
        BY <2>1, <2>3 DEF Client
    <2> QED BY <1>1, <1>2, <2>4, <2>5 DEF Body
<1> HIDE DEF t
<1>4. \/ t.act.state = s.act.state /\ s.act.state \notin Live /\ t.act.proof = s.act.proof
      \/ s.act.state \in Live /\ t.act.state = "FAILED" /\ t.act.proof \in {NoProof, s.act.proof}
    <2>1. s.act.state \in Live => Legal(ActivationEdges, s.act.state, "FAIL")
        BY Edges DEF Legal
    <2>2. Legal(ActivationEdges, s.act.state, "FAIL") => s.act.state \in Live
        BY EdgesOf DEF Legal
    <2>3. CASE s.act.state \in Live
        BY <1>1, <1>2, <1>3, <2>1, <2>3, ActivationStep, EdgesOf
    <2>4. CASE s.act.state \notin Live
        BY <1>1, <1>2, <1>3, <2>2, <2>4, ActivationStep, EdgesOf
    <2> QED BY <2>3, <2>4
<1>5. t.act.id = s.act.id /\ t.down = s.down /\ t.up = s.up /\ t.act \in Act
    BY <1>1, <1>2, <1>3 DEF Ports, Client
<1>6. s.act \in Act /\ s.epoch \in Nat \ {0} /\ s.serial \in Nat
    BY DEF Core, Client
<1>7. Sized(t, ch)
    <2>1. s.act.id = 0 => t.act = NoActivation
        <3>1. s.act.id = 0 => s.act = NoActivation /\ s.act.state = "none"
            BY DEF Core, Sized, NoActivation
        <3>2. "none" \notin Live
            BY DEF Live
        <3>3. s.act.id = 0 => t.act = s.act
            BY <1>4, <1>5, <1>6, <3>1, <3>2 DEF Act
        <3> QED BY <3>1, <3>3
    <2> QED BY <1>3, <1>4, <1>5, <1>6, <2>1 DEF Core, Sized, NoProof
<1>8. Timed(t)
    BY <1>1, <1>2, <1>3 DEF Timed, Core
<1>9. Queued(t, ch)
    BY <1>3, <1>4, <1>5 DEF Core, Queued, Live
<1>10. Linked(t, ch)
    BY <1>3, <1>4, <1>5 DEF Core, Linked, Drawn, Live
<1>11. Evicted(t)
    BY <1>3, <1>4, <1>5, <1>6 DEF Evicted, Live, NoActivation, Act
<1>12. Shown(t)
    BY <1>3 DEF Shown
<1> QED BY <1>3, <1>7, <1>8, <1>9, <1>10, <1>11, <1>12 DEF Core, t

LEMMA SettleCore ==
    ASSUME NEW s, NEW ch, Core(s, ch), Evicted(s)
    PROVE  LET t == SettleEviction(s) IN
           /\ Core(t, ch) /\ Evicted(t)
           /\ Shown(s) => Shown(t)
           /\ t.epoch = s.epoch /\ t.evict \in {s.evict, "evicted"}
           /\ s.evict # "none" => t.evict = "evicted"
           /\ t.pending = s.pending /\ t.visible = s.visible
<1>1. CASE s.evict \notin {"grace", "disposing"}
    BY <1>1 DEF SettleEviction, Core, Client, Evictions
<1>2. CASE s.evict \in {"grace", "disposing"}
    <2> DEFINE a == Clear(s, {"grace", "dispose"})
    <2> DEFINE b == Document(a, "EVICT")
    <2> DEFINE t == SettleEviction(s)
    <2>1. Body(s, a) /\ a.timers = s.timers \ {"grace", "dispose"}
        <3>1. {"grace", "dispose"} \in SUBSET Timers
            BY DEF Timers
        <3> QED BY <3>1, ClearFields DEF Core
    <2> HIDE DEF a
    <2>2. /\ b \in Client /\ b.timers = a.timers
          /\ b.epoch = a.epoch /\ b.serial = a.serial /\ b.pending = a.pending
          /\ b.visible = a.visible
        BY <2>1, DocumentFields DEF Body
    <2> HIDE DEF b
    <2>3. NoActivation \in Act
        BY DEF NoActivation, NoProof, Act, ActivationStates
    <2>4. /\ t \in Client /\ t.timers = b.timers
          /\ t.epoch = b.epoch /\ t.serial = b.serial /\ t.pending = b.pending
          /\ t.visible = b.visible /\ t.mode = "closed" /\ t.act = NoActivation
          /\ t.evict = "evicted" /\ t.down = <<>> /\ t.up = <<>>
        <3>1. t = [b EXCEPT !.evict = "evicted", !.owes = FALSE, !.mode = "closed",
                           !.act = NoActivation, !.down = <<>>, !.up = <<>>]
            BY <1>2 DEF SettleEviction, a, b, t
        <3>2. "evicted" \in Evictions /\ "closed" \in Modes /\ <<>> \in Seq(Messages)
            BY DEF Evictions, Modes
        <3> HIDE DEF t
        <3>3. t \in Client
            <4> DEFINE u == [b EXCEPT !.evict = "evicted", !.owes = FALSE, !.mode = "closed"]
            <4>1. u \in Client
                BY <2>2, <3>2 DEF Client
            <4>2. t = [u EXCEPT !.act = NoActivation, !.down = <<>>, !.up = <<>>]
                BY <3>1
            <4> HIDE DEF u
            <4> QED BY <2>3, <3>2, <4>1, <4>2 DEF Client
        <3>4. /\ t.timers = b.timers
              /\ t.epoch = b.epoch /\ t.serial = b.serial /\ t.pending = b.pending
              /\ t.visible = b.visible /\ t.mode = "closed" /\ t.act = NoActivation
              /\ t.evict = "evicted" /\ t.down = <<>> /\ t.up = <<>>
            BY <2>2, <3>1 DEF Client
        <3> QED BY <3>3, <3>4
    <2> HIDE DEF t
    <2>5. NoActivation.id = 0 /\ NoActivation.state = "none" /\ NoActivation.proof = <<0, 0>>
        BY DEF NoActivation, NoProof
    <2>6. /\ s.epoch \in Nat \ {0} /\ s.serial \in Nat /\ t.epoch = s.epoch
          /\ t.serial = s.serial /\ t.pending = s.pending /\ t.visible = s.visible
          /\ t.timers \subseteq s.timers \ {"grace"}
        BY <2>1, <2>2, <2>4 DEF Core, Client, Body
    <2>7. Sized(t, ch)
        BY <2>4, <2>5, <2>6 DEF Core, Sized
    <2>8. Timed(t)
        BY <1>2, <2>4, <2>5, <2>6 DEF Core, Timed, Evicted, Live
    <2>9. Queued(t, ch) /\ Linked(t, ch)
        BY <2>4, <2>5 DEF Queued, Linked, Has
    <2>10. Evicted(t) /\ Shown(t)
        BY <1>2, <2>4, <2>5, <2>6 DEF Evicted, Shown, Live
    <2> QED BY <1>2, <2>4, <2>6, <2>7, <2>8, <2>9, <2>10 DEF Core, t
<1> QED BY <1>1, <1>2

-----------------------------------------------------------------------------
(* A new epoch. *)
LEMMA OpenFields ==
    ASSUME NEW s \in Client
    PROVE  LET t == Open(s) IN
           /\ t \in Client /\ t.act = s.act /\ t.serial = s.serial /\ t.pending = s.pending
           /\ t.evict = s.evict /\ t.timers = s.timers /\ t.visible = s.visible
           /\ \/ t = s
              \/ /\ t.mode = "offering" /\ t.epoch = s.epoch + 1
                 /\ t.down = <<>> /\ t.up = <<>>
<1> DEFINE t == [s EXCEPT !.mode = "offering", !.epoch = @ + 1, !.doc = "MOUNTING",
                          !.lost = FALSE, !.down = <<>>, !.up = <<>>]
<1>1. "offering" \in Modes /\ "MOUNTING" \in DocumentStates /\ <<>> \in Seq(Messages)
    BY DEF Modes, DocumentStates
<1>2. s.epoch + 1 \in Nat \ {0}
    BY DEF Client
<1>3. /\ t \in Client /\ t.act = s.act /\ t.serial = s.serial /\ t.pending = s.pending
      /\ t.evict = s.evict /\ t.timers = s.timers /\ t.visible = s.visible
      /\ t.mode = "offering" /\ t.epoch = s.epoch + 1 /\ t.down = <<>> /\ t.up = <<>>
    BY <1>1, <1>2 DEF Client
<1> HIDE DEF t
<1> QED BY <1>3 DEF Open, t

LEMMA OpenCore ==
    ASSUME NEW s, NEW ch, Core(s, ch)
    PROVE  LET t == Open(s) IN
           /\ Core(t, ch) /\ t.pending = s.pending /\ t.evict = s.evict /\ t.act = s.act
           /\ Evicted(s) => Evicted(t)
<1> DEFINE t == Open(s)
<1>1. /\ t \in Client /\ t.act = s.act /\ t.serial = s.serial /\ t.pending = s.pending
      /\ t.evict = s.evict /\ t.timers = s.timers
      /\ \/ t = s
         \/ t.mode = "offering" /\ t.epoch = s.epoch + 1 /\ t.down = <<>> /\ t.up = <<>>
    BY OpenFields DEF Core
<1> HIDE DEF t
<1>2. CASE t = s
    BY <1>1, <1>2 DEF t
<1>3. CASE t.mode = "offering" /\ t.epoch = s.epoch + 1 /\ t.down = <<>> /\ t.up = <<>>
    <2>1. /\ s.act.proof[1] \in Nat /\ s.act.proof[2] \in Nat /\ s.epoch \in Nat
          /\ ch.doc \in Nat
        BY DEF Core, Client, Act, Child
    <2>2. Sized(t, ch)
        BY <1>1, <1>3, <2>1 DEF Core, Sized
    <2>3. Timed(t)
        BY <1>1 DEF Core, Timed
    <2>4. Queued(t, ch) /\ Linked(t, ch)
        BY <1>1, <1>3 DEF Core, Queued, Linked, Has
    <2>5. Evicted(s) => Evicted(t)
        BY <1>1 DEF Evicted
    <2> QED BY <1>1, <2>2, <2>3, <2>4, <2>5 DEF Core, t
<1> QED BY <1>1, <1>2, <1>3

LEMMA NoneIs ==
    /\ NoActivation \in Act /\ NoActivation.id = 0
    /\ NoActivation.state = "none" /\ NoActivation.proof = <<0, 0>>
BY DEF NoActivation, NoProof, Act, ActivationStates

LEMMA FrameLoadCore ==
    ASSUME NEW s, NEW ch, Core(s, ch), Evicted(s), NEW new \in Child,
           new = ch \/ (new.doc = 0 /\ new.cur = 0)
    PROVE  LET t == HandleFrameLoad(s) IN
           Core(t, new) /\ Evicted(t) /\ Shown(t) /\ t.act = NoActivation
<1> DEFINE a == SettleEviction(s)
<1> DEFINE b == BumpGeneration(s)
<1> DEFINE epoch == IF BreakerOpen(s) THEN b.epoch + 1 ELSE b.epoch
<1> DEFINE doc == IF b.doc = "EVICTED" THEN b.doc ELSE "MOUNTING"
<1> DEFINE e == [b EXCEPT !.act = NoActivation, !.lost = FALSE, !.v2 = FALSE,
                          !.epoch = epoch, !.doc = doc, !.up = <<>>, !.down = <<>>]
<1> DEFINE t == HandleFrameLoad(s)
<1>1. Core(a, ch) /\ Evicted(a) /\ a.epoch = s.epoch
    BY SettleCore
<1> HIDE DEF a
<1>2. /\ b \in Client /\ b.timers = {} /\ b.serial = a.serial /\ b.epoch = a.epoch
      /\ b.evict = a.evict /\ b.pending = a.pending
    <2>1. b = [a EXCEPT !.timers = {}, !.owes = FALSE]
        BY DEF BumpGeneration, a, b
    <2> QED BY <1>1, <2>1 DEF Core, Client
<1> HIDE DEF b
<1>3. /\ e \in Client /\ e.timers = {} /\ e.serial = b.serial /\ e.act = NoActivation
      /\ e.epoch \in {b.epoch, b.epoch + 1} /\ e.evict = b.evict /\ e.pending = b.pending
      /\ e.up = <<>> /\ e.down = <<>>
    <2>1. <<>> \in Seq(Messages) /\ doc \in DocumentStates
        BY <1>2 DEF DocumentStates, Client
    <2>2. epoch \in Nat \ {0} /\ epoch \in {b.epoch, b.epoch + 1}
        BY <1>2 DEF Client
    <2> HIDE DEF epoch, doc
    <2>3. b \in Client /\ NoActivation \in Act
        BY <1>2, NoneIs
    <2>4. e \in Client
        BY <2>1, <2>2, <2>3 DEF Client
    <2>5. /\ e.timers = b.timers /\ e.serial = b.serial /\ e.act = NoActivation
          /\ e.epoch = epoch /\ e.evict = b.evict /\ e.pending = b.pending
          /\ e.up = <<>> /\ e.down = <<>>
        BY <2>3 DEF Client
    <2> HIDE DEF e
    <2> QED BY <1>2, <2>2, <2>4, <2>5
<1>4. t = Open(e)
    BY DEF HandleFrameLoad, b, e, t
<1> HIDE DEF e, t
<1>5. /\ t \in Client /\ t.act = NoActivation /\ t.serial = e.serial /\ t.pending = e.pending
      /\ t.evict = e.evict /\ t.timers = {} /\ t.down = <<>> /\ t.up = <<>>
      /\ t.epoch \in {e.epoch, e.epoch + 1}
    BY <1>3, <1>4, OpenFields
<1>6. /\ new.doc <= t.epoch /\ new.cur <= t.serial /\ t.epoch \in Nat \ {0}
      /\ t.serial \in Nat
    <2>1. a.epoch \in Nat /\ a.serial \in Nat /\ ch.doc \in Nat /\ ch.cur \in Nat
        BY <1>1 DEF Core, Client, Child
    <2>2. ch.doc <= a.epoch /\ ch.cur <= a.serial
        BY <1>1 DEF Core, Sized
    <2>3. t.serial = a.serial /\ t.epoch \in {a.epoch, a.epoch + 1, a.epoch + 1 + 1}
        BY <1>2, <1>3, <1>5
    <2>4. t.epoch \in Nat \ {0} /\ t.serial \in Nat
        BY <1>5 DEF Client
    <2> QED BY <2>1, <2>2, <2>3, <2>4
<1>7. Sized(t, new)
    BY <1>5, <1>6, NoneIs DEF Sized
<1>8. Timed(t) /\ Queued(t, new) /\ Linked(t, new)
    BY <1>5, NoneIs DEF Timed, Queued, Linked, Has
<1>9. Evicted(t)
    BY <1>1, <1>2, <1>3, <1>5, NoneIs DEF Evicted, Live
<1>10. Shown(t)
    BY <1>5, NoneIs DEF Shown
<1> QED BY <1>5, <1>7, <1>8, <1>9, <1>10 DEF Core, t

(* The activation that was deferred runs on v2. *)
LEMMA LegacyCore ==
    ASSUME NEW s, NEW ch, Core(s, ch), Evicted(s), s.mode = "legacy"
    PROVE  LET t == ActivateLegacy(s) IN Core(t, ch) /\ Evicted(t) /\ Shown(t)
<1> DEFINE a == Clear(s, {"handshake"})
<1> DEFINE t == ActivateLegacy(s)
<1>1. Body(s, a) /\ Ports(s, a) /\ a.act = s.act /\ a.timers = s.timers \ {"handshake"}
    <2>1. {"handshake"} \in SUBSET Timers
        BY DEF Timers
    <2> QED BY <2>1, ClearFields DEF Core
<1> HIDE DEF a
<1>2. /\ t \in Client /\ t.mode = a.mode /\ t.epoch = a.epoch /\ t.act = a.act
      /\ t.serial = a.serial /\ t.pending = a.pending /\ t.evict = a.evict
      /\ t.timers = a.timers /\ t.down = a.down /\ t.up = a.up
    <2>1. t = [a EXCEPT !.v2 = TRUE, !.visible = FALSE]
        BY DEF ActivateLegacy, a, t
    <2>2. a \in Client
        BY <1>1 DEF Body
    <2> HIDE DEF t
    <2> QED BY <2>1, <2>2 DEF Client
<1> HIDE DEF t
<1>3. Core(t, ch)
    BY <1>1, <1>2, Quiet DEF Body, Ports
<1>4. Evicted(t)
    BY <1>1, <1>2 DEF Body, Evicted
<1>5. Shown(t)
    BY <1>1, <1>2 DEF Body, Shown
<1> QED BY <1>3, <1>4, <1>5 DEF t

LEMMA FallBackCore ==
    ASSUME NEW s, NEW ch, Core(s, ch), Evicted(s)
    PROVE  LET t == FallBack(s) IN Core(t, ch) /\ Evicted(t) /\ Shown(t)
<1> DEFINE d == [s EXCEPT !.mode = "legacy", !.doc = "UNMOUNTED", !.lost = FALSE,
                          !.down = <<>>, !.up = <<>>, !.pending = FALSE]
<1> DEFINE r == PayDebt(d)
<1> DEFINE w == [r EXCEPT !.pending = TRUE]
<1>1. /\ d \in Client /\ d.mode = "legacy" /\ d.epoch = s.epoch /\ d.act = s.act
      /\ d.serial = s.serial /\ d.evict = s.evict /\ d.timers = s.timers
      /\ d.down = <<>> /\ d.up = <<>> /\ ~d.pending
    <2>1. "legacy" \in Modes /\ "UNMOUNTED" \in DocumentStates /\ <<>> \in Seq(Messages)
        BY DEF Modes, DocumentStates
    <2> QED BY <2>1 DEF Core, Client
<1>2. FallBack(s) = IF s.pending THEN ActivateLegacy(w) ELSE d
    BY DEF FallBack
<1> HIDE DEF d
<1>3. Core(d, ch) /\ Evicted(d) /\ Shown(d)
    <2>1. Core(d, ch)
        BY <1>1, Quiet
    <2> QED BY <1>1, <2>1 DEF Evicted, Shown
<1>4. Core(r, ch) /\ Same(d, r)
    BY <1>3, PayDebtCore
<1> HIDE DEF r
<1>5. /\ w \in Client /\ w.mode = "legacy" /\ w.epoch = r.epoch /\ w.act = r.act
      /\ w.serial = r.serial /\ w.evict = r.evict /\ w.timers = r.timers
      /\ w.down = r.down /\ w.up = r.up
    BY <1>1, <1>4 DEF Same, Client
<1> HIDE DEF w
<1>6. Core(w, ch)
    BY <1>1, <1>4, <1>5, Quiet DEF Same
<1>7. CASE s.pending
    <2>1. Evicted(w)
        BY <1>1, <1>4, <1>5, <1>7 DEF Evicted, Same
    <2> QED BY <1>2, <1>5, <1>6, <1>7, <2>1, LegacyCore
<1>8. CASE ~s.pending
    BY <1>2, <1>3, <1>8
<1> QED BY <1>7, <1>8

-----------------------------------------------------------------------------
(* Sections come and go. *)
LEMMA ReleaseCore ==
    ASSUME NEW s, NEW ch, Core(s, ch), s.timers \cap {"prepare", "present"} = {}
    PROVE  LET t == Release(s) IN
           /\ Core(t, ch) /\ Body(s, t) /\ t.timers = s.timers /\ t.act.id = s.act.id
           /\ t.act.state \notin Live
<1> DEFINE t == Release(s)
<1> DEFINE m == Message("RELEASE", s.act.id)
<1> DEFINE r == Send(s, m)
<1>0. s \in Client /\ s.act \in Act /\ s.act.id \in Nat /\ s.down \in Seq(Messages)
    BY DEF Core, Client, Act
<1>1. CASE s.act.state \notin Live \cup {"FAILED"}
    BY <1>0, <1>1 DEF Release, Body
<1>2. CASE s.act.state \in Live \cup {"FAILED"}
    <2>1. m \in Messages /\ m.type = "RELEASE" /\ m.id = s.act.id
        BY <1>0 DEF Message, Messages, Types
    <2>2. /\ Body(s, r) /\ r.up = s.up /\ r.act = s.act /\ r.timers = s.timers
          /\ r.down \in {s.down, Append(s.down, m)}
        BY <1>0, <2>1, SendFields
    <2>3. s.mode # "modern" => r = s
        BY DEF Send
    <2>4. t = Activation(r, "RELEASE")
        BY <1>2 DEF Release
    <2> HIDE DEF m, r
    <2>5. /\ Body(r, t) /\ Ports(r, t) /\ t.timers = r.timers /\ t.act.id = r.act.id
          /\ t.act.state = Reduce(ActivationEdges, r.act.state, "RELEASE")
          /\ t.act.proof = r.act.proof
        BY <2>2, <2>4, ActivationFields DEF Body, Events
    <2> HIDE DEF t
    <2>6. t.act.state = "RELEASED"
        <3>1. Legal(ActivationEdges, s.act.state, "RELEASE")
            BY <1>2, Edges DEF Legal
        <3> QED BY <2>2, <2>5, <3>1, ActivationStep, EdgesOf
    <2>7. /\ Body(s, t) /\ t.up = s.up /\ t.timers = s.timers /\ t.act.id = s.act.id
          /\ t.act.proof = s.act.proof /\ t.down \in {s.down, Append(s.down, m)}
        BY <2>2, <2>5 DEF Body, Ports
    <2>8. /\ \A k \in DOMAIN t.down : (k \in DOMAIN s.down /\ t.down[k] = s.down[k]) \/ t.down[k] = m
          /\ s.mode # "modern" => t.down = s.down
        <3>1. \A k \in DOMAIN Append(s.down, m) :
                 \/ k \in DOMAIN s.down /\ Append(s.down, m)[k] = s.down[k]
                 \/ Append(s.down, m)[k] = m
            BY <1>0, <2>1, AppendFacts
        <3> QED BY <2>3, <2>5, <2>7, <3>1 DEF Ports
    <2>9. s.act.id # 0
        BY <1>2, NoneIs DEF Core, Sized, Live
    <2>10. Sized(t, ch)
        BY <1>0, <2>1, <2>7, <2>8, <2>9 DEF Core, Sized, Body, Client
    <2>11. Timed(t)
        BY <2>7 DEF Timed, Core, Body
    <2>12. m # Message("PRESENT", s.act.id)
        BY <2>1, MessageIs
    <2>13. Queued(t, ch)
        BY <2>1, <2>6, <2>7, <2>8, <2>12 DEF Core, Queued, Body
    <2>14. Linked(t, ch)
        BY <2>1, <2>6, <2>7, <2>8 DEF Core, Linked, Drawn, Has, Body, Live
    <2> QED BY <2>6, <2>7, <2>10, <2>11, <2>13, <2>14 DEF Core, Body, t, Live
<1> QED BY <1>1, <1>2

LEMMA ActivateCore ==
    ASSUME NEW s, NEW ch, Core(s, ch), s.evict = "none"
    PROVE  LET t == ActivateModern(s) IN Core(t, ch) /\ Evicted(t) /\ Shown(t)
<1> DEFINE a == Clear(s, {"handshake", "prepare", "present"})
<1> DEFINE r == Release(a)
<1> DEFINE id == r.serial + 1
<1> DEFINE act == [id |-> id, state |-> "PREPARING", proof |-> NoProof]
<1> DEFINE n == [r EXCEPT !.serial = id, !.visible = FALSE, !.act = act]
<1> DEFINE m == Message("PREPARE", id)
<1> DEFINE d == Send(n, m)
<1> DEFINE t == ActivateModern(s)
<1>1. /\ Core(a, ch) /\ Body(s, a) /\ Ports(s, a)
      /\ a.timers = s.timers \ {"handshake", "prepare", "present"}
    <2>1. {"handshake", "prepare", "present"} \in SUBSET Timers
        BY DEF Timers
    <2> QED BY <2>1, ClearFields, ClearCore DEF Core
<1> HIDE DEF a
<1>2. Core(r, ch) /\ Body(a, r) /\ r.timers = a.timers
    BY <1>1, ReleaseCore
<1> HIDE DEF r
<1>3. r \in Client /\ r.serial \in Nat /\ r.down \in Seq(Messages) /\ r.up \in Seq(Messages)
    BY <1>2 DEF Core, Client
<1>4. id \in Nat /\ id # 0 /\ r.serial < id
    BY <1>3
<1>5. act \in Act /\ act.id = id /\ act.state = "PREPARING" /\ act.proof = <<0, 0>>
    BY <1>4 DEF Act, NoProof, ActivationStates, Live
<1>6. m \in Messages /\ m.type = "PREPARE" /\ m.id = id
    BY <1>4 DEF Message, Messages, Types
<1> HIDE DEF id, act, m
<1>7. /\ n \in Client /\ n.act = act /\ n.serial = id /\ ~n.visible
      /\ n.mode = r.mode /\ n.epoch = r.epoch /\ n.evict = r.evict /\ n.timers = r.timers
      /\ n.down = r.down /\ n.up = r.up
    BY <1>3, <1>4, <1>5 DEF Client
<1> HIDE DEF n
<1>8. /\ Body(n, d) /\ d.up = n.up /\ d.act = n.act /\ d.timers = n.timers
      /\ d.down \in {n.down, Append(n.down, m)}
      /\ n.mode # "modern" => d.down = n.down
    BY <1>6, <1>7, SendFields DEF Send
<1> HIDE DEF d
<1>9. /\ Body(d, t) /\ Ports(d, t) /\ t.act = d.act /\ t.timers = d.timers \cup {"prepare"}
    <2>1. t = Arm(d, "prepare")
        BY DEF ActivateModern, a, r, id, act, n, m, d, t
    <2>2. "prepare" \in Timers
        BY DEF Timers
    <2> QED BY <1>8, <2>1, <2>2, ArmFields DEF Body
<1> HIDE DEF t
<1>10. /\ t \in Client /\ t.act = act /\ t.serial = id /\ ~t.visible
       /\ t.mode = r.mode /\ t.epoch = r.epoch /\ t.evict = "none"
       /\ t.timers = r.timers \cup {"prepare"} /\ t.up = r.up
       /\ t.down \in {r.down, Append(r.down, m)}
       /\ r.mode # "modern" => t.down = r.down
    <2>1. s.evict = r.evict /\ r.evict = "none"
        BY <1>1, <1>2 DEF Body
    <2>2. /\ t \in Client /\ t.mode = d.mode /\ t.epoch = d.epoch /\ t.serial = d.serial
          /\ t.evict = d.evict /\ t.visible = d.visible
          /\ t.down = d.down /\ t.up = d.up
        BY <1>9 DEF Body, Ports
    <2>3. /\ d.mode = n.mode /\ d.epoch = n.epoch /\ d.serial = n.serial
          /\ d.evict = n.evict /\ d.visible = n.visible
        BY <1>8 DEF Body
    <2> QED BY <1>7, <1>8, <1>9, <2>1, <2>2, <2>3
<1>11. /\ \A k \in DOMAIN t.down :
             \/ k \in DOMAIN r.down /\ t.down[k] = r.down[k]
             \/ k = Len(r.down) + 1 /\ t.down[k] = m
       /\ \A k \in DOMAIN r.down : k \in Nat /\ k < Len(r.down) + 1
       /\ Len(r.down) \in Nat
    <2>1. r.down \in Seq(Messages) /\ m \in Messages
        BY <1>3, <1>6
    <2>2. CASE t.down = r.down
        BY <2>1, <2>2, AppendFacts
    <2>3. CASE t.down = Append(r.down, m)
        BY <2>1, <2>3, AppendFacts
    <2> QED BY <1>10, <2>2, <2>3
<1>12. /\ \A k \in DOMAIN r.down : r.down[k].id \in Nat /\ r.down[k].id < id
       /\ \A k \in DOMAIN r.up : r.up[k].id \in Nat /\ r.up[k].id < id
       /\ ch.cur \in Nat /\ ch.cur < id
    <2>1. /\ \A k \in DOMAIN r.down : r.down[k] \in Messages
          /\ \A k \in DOMAIN r.up : r.up[k] \in Messages
          /\ ch.cur \in Nat
        BY <1>2, <1>3 DEF Core, Child
    <2>2. \A x \in Messages : x.id \in Nat
        BY DEF Messages
    <2>3. /\ \A k \in DOMAIN r.down : r.down[k].id <= r.serial
          /\ \A k \in DOMAIN r.up : r.up[k].id <= r.serial
          /\ ch.cur <= r.serial
        BY <1>2 DEF Core, Sized
    <2>4. \A x \in Nat : x <= r.serial => x < id
        BY <1>3, <1>4
    <2> QED BY <2>1, <2>2, <2>3, <2>4
<1>13. Sized(t, ch)
    <2>1. /\ \A k \in DOMAIN t.down : t.down[k].id <= id
          /\ \A k \in DOMAIN t.up : t.up[k].id <= id
          /\ ch.cur <= id
        BY <1>4, <1>6, <1>10, <1>11, <1>12
    <2>2. r.epoch \in Nat \ {0} /\ ch.doc <= r.epoch
        BY <1>2 DEF Core, Sized, Client
    <2> QED BY <1>4, <1>5, <1>10, <2>1, <2>2 DEF Sized
<1>14. Timed(t)
    <2>1. "grace" \notin s.timers
        BY DEF Core, Timed
    <2> QED BY <1>1, <1>2, <1>5, <1>10, <2>1 DEF Timed
<1>15. ~Has(t.down, "PRESENT", id) /\ ~Has(t.down, "RELEASE", id) /\ ~Has(t.up, "PRESENTED", id)
    BY <1>4, <1>6, <1>10, <1>11, <1>12 DEF Has
<1>16. Queued(t, ch)
    <2>1. \A k \in DOMAIN t.down : t.down[k].type = "PREPARE" =>
            /\ ch.cur < t.down[k].id
            /\ \A j \in DOMAIN t.down :
                  j < k /\ t.down[j].type = "PREPARE" => t.down[j].id < t.down[k].id
        <3>1. \A k \in DOMAIN r.down : r.down[k].type = "PREPARE" =>
                /\ ch.cur < r.down[k].id
                /\ \A j \in DOMAIN r.down :
                      j < k /\ r.down[j].type = "PREPARE" => r.down[j].id < r.down[k].id
            BY <1>2 DEF Core, Queued
        <3>2. SUFFICES ASSUME NEW k \in DOMAIN t.down, t.down[k].type = "PREPARE"
                       PROVE  /\ ch.cur < t.down[k].id
                              /\ \A j \in DOMAIN t.down :
                                   j < k /\ t.down[j].type = "PREPARE" => t.down[j].id < t.down[k].id
            OBVIOUS
        <3>3. CASE k \in DOMAIN r.down /\ t.down[k] = r.down[k]
            BY <1>11, <3>1, <3>2, <3>3
        <3>4. CASE k = Len(r.down) + 1 /\ t.down[k] = m
            BY <1>6, <1>11, <1>12, <3>4
        <3> QED BY <1>11, <3>3, <3>4
    <2>2. \A j, k \in DOMAIN t.down : t.down[j] # Message("PRESENT", id)
        <3>1. Message("PRESENT", id).type = "PRESENT" /\ Message("PRESENT", id).id = id
            BY DEF Message
        <3> QED BY <1>15, <3>1 DEF Has
    <2>3. \A k \in DOMAIN t.down : t.down[k].type = "DISPOSE" => t.evict = "disposing"
        BY <1>1, <1>2, <1>6, <1>11 DEF Core, Queued, Body
    <2>4. t.mode # "modern" => t.down = <<>> /\ t.up = <<>>
        BY <1>2, <1>10 DEF Core, Queued
    <2> QED BY <1>5, <1>10, <1>15, <2>1, <2>2, <2>3, <2>4 DEF Queued
<1>17. Linked(t, ch)
    BY <1>4, <1>5, <1>10, <1>12, <1>15 DEF Linked
<1>18. Evicted(t) /\ Shown(t)
    BY <1>10 DEF Evicted, Shown
<1> QED BY <1>10, <1>13, <1>14, <1>16, <1>17, <1>18 DEF Core, t

LEMMA RedriveCore ==
    ASSUME NEW s, NEW ch, Core(s, ch), Evicted(s), Shown(s)
    PROVE  LET t == Redrive(s) IN Core(t, ch) /\ Evicted(t) /\ Shown(t)
<1>1. CASE s.pending /\ ModernActive(s)
    <2>1. s.evict = "none"
        BY <1>1 DEF Evicted
    <2> QED BY <1>1, <2>1, ActivateCore DEF Redrive
<1>2. CASE ~(s.pending /\ ModernActive(s))
    BY <1>2 DEF Redrive
<1> QED BY <1>1, <1>2

LEMMA RevealCore ==
    ASSUME NEW s, NEW ch, Core(s, ch), Evicted(s), Shown(s)
    PROVE  LET t == Reveal(s) IN Core(t, ch) /\ Evicted(t) /\ Shown(t)
<1> DEFINE t == Reveal(s)
<1> DEFINE a == Activation(s, "ACTIVATE")
<1>1. CASE ~(ModernActive(s) /\ MayReveal(s))
    BY <1>1 DEF Reveal
<1>2. CASE ModernActive(s) /\ MayReveal(s)
    <2>1. /\ Body(s, a) /\ Ports(s, a) /\ a.timers = s.timers /\ a.act.id = s.act.id
          /\ a.act.state = Reduce(ActivationEdges, s.act.state, "ACTIVATE")
          /\ a.act.proof = s.act.proof
        BY ActivationFields DEF Core, Events
    <2>2. t = [a EXCEPT !.visible = TRUE]
        BY <1>2 DEF Reveal
    <2> HIDE DEF a
    <2>3. /\ t \in Client /\ t.mode = s.mode /\ t.epoch = s.epoch /\ t.lost = s.lost
          /\ t.serial = s.serial /\ t.evict = s.evict /\ t.pending = s.pending
          /\ t.timers = s.timers /\ t.down = s.down /\ t.up = s.up /\ t.act = a.act
        <3>1. a \in Client
            BY <2>1 DEF Body
        <3>2. t \in Client
            BY <2>2, <3>1 DEF Client
        <3>3. /\ t.mode = a.mode /\ t.epoch = a.epoch /\ t.lost = a.lost
              /\ t.serial = a.serial /\ t.evict = a.evict /\ t.pending = a.pending
              /\ t.timers = a.timers /\ t.down = a.down /\ t.up = a.up /\ t.act = a.act
            BY <2>2, <3>1 DEF Client
        <3> HIDE DEF t
        <3> QED BY <2>1, <3>2, <3>3 DEF Body, Ports
    <2> HIDE DEF t
    <2>4. s.act.state \in {"PRESENTED", "VISIBLE"} /\ s.act.proof = <<s.epoch, s.act.id>> /\ ~s.lost
        BY <1>2 DEF MayReveal
    <2>5. a.act.state = "VISIBLE"
        <3>1. CASE s.act.state = "PRESENTED"
            <4>1. Legal(ActivationEdges, s.act.state, "ACTIVATE")
                BY <3>1, Edges DEF Legal
            <4> QED BY <2>1, <4>1, ActivationStep, EdgesOf
        <3>2. CASE s.act.state = "VISIBLE"
            BY <2>1, <3>2, ActivationStep, EdgesOf
        <3> QED BY <2>4, <3>1, <3>2
    <2>6. s.act.id # 0
        BY <2>4, NoneIs DEF Core, Sized
    <2>7. Sized(t, ch)
        BY <2>1, <2>3, <2>6 DEF Core, Sized
    <2>8. Timed(t)
        BY <2>3, <2>4 DEF Core, Timed
    <2>9. Queued(t, ch)
        BY <2>1, <2>3, <2>4 DEF Core, Queued
    <2>10. Linked(t, ch)
        BY <2>1, <2>3, <2>4, <2>5, <2>6 DEF Core, Linked, Drawn, Live
    <2>11. Evicted(t)
        BY <2>3, <2>4, <2>6, NoneIs DEF Evicted, Live
    <2>12. Shown(t)
        BY <2>1, <2>3, <2>4, <2>5 DEF Shown
    <2> QED BY <2>3, <2>7, <2>8, <2>9, <2>10, <2>11, <2>12 DEF Core, t
<1> QED BY <1>1, <1>2

LEMMA PresentCore ==
    ASSUME NEW s, NEW ch, Core(s, ch), Evicted(s), Shown(s), s.act.state = "PREPARING",
           "prepare" \notin s.timers
    PROVE  LET t == SendPresent(Activation(s, "APPLIED")) IN
           Core(t, ch) /\ Evicted(t) /\ Shown(t)
<1> DEFINE a == Activation(s, "APPLIED")
<1> DEFINE m == Message("PRESENT", a.act.id)
<1> DEFINE d == Send(a, m)
<1> DEFINE b == Activation(d, "PRESENT")
<1> DEFINE t == SendPresent(a)
<1>0. s \in Client /\ s.act \in Act /\ s.act.id \in Nat /\ s.down \in Seq(Messages)
    BY DEF Core, Client, Act
<1>1. /\ Body(s, a) /\ Ports(s, a) /\ a.timers = s.timers /\ a.act.id = s.act.id
      /\ a.act.state = "APPLIED" /\ a.act.proof = s.act.proof
    <2>1. /\ Body(s, a) /\ Ports(s, a) /\ a.timers = s.timers /\ a.act.id = s.act.id
          /\ a.act.state = Reduce(ActivationEdges, s.act.state, "APPLIED")
          /\ a.act.proof = s.act.proof
        BY <1>0, ActivationFields DEF Events
    <2>2. Legal(ActivationEdges, s.act.state, "APPLIED")
        BY Edges DEF Legal
    <2> QED BY <2>1, <2>2, ActivationStep, EdgesOf
<1> HIDE DEF a
<1>2. m \in Messages /\ m.type = "PRESENT" /\ m.id = s.act.id
    BY <1>0, <1>1 DEF Message, Messages, Types
<1> HIDE DEF m
<1>3. /\ Body(a, d) /\ d.up = a.up /\ d.act = a.act /\ d.timers = a.timers
      /\ d.down \in {a.down, Append(a.down, m)}
      /\ a.mode # "modern" => d.down = a.down
    BY <1>1, <1>2, SendFields DEF Body, Send
<1> HIDE DEF d
<1>4. /\ Body(d, b) /\ Ports(d, b) /\ b.timers = d.timers /\ b.act.id = d.act.id
      /\ b.act.state = "RENDERING" /\ b.act.proof = d.act.proof
    <2>1. /\ Body(d, b) /\ Ports(d, b) /\ b.timers = d.timers /\ b.act.id = d.act.id
          /\ b.act.state = Reduce(ActivationEdges, d.act.state, "PRESENT")
          /\ b.act.proof = d.act.proof
        BY <1>3, ActivationFields DEF Body, Events
    <2>2. Legal(ActivationEdges, d.act.state, "PRESENT")
        BY <1>1, <1>3, Edges DEF Legal
    <2> QED BY <1>1, <1>3, <2>1, <2>2, ActivationStep, EdgesOf
<1> HIDE DEF b
<1>5. Body(b, t) /\ Ports(b, t) /\ t.act = b.act /\ t.timers = b.timers \cup {"present"}
    <2>1. t = Arm(b, "present")
        BY DEF SendPresent, m, d, b, t
    <2>2. "present" \in Timers
        BY DEF Timers
    <2> QED BY <1>4, <2>1, <2>2, ArmFields DEF Body
<1> HIDE DEF t
<1>6. /\ Body(s, t) /\ t.act.id = s.act.id /\ t.act.state = "RENDERING"
      /\ t.act.proof = s.act.proof /\ t.timers = s.timers \cup {"present"} /\ t.up = s.up
      /\ t.down \in {s.down, Append(s.down, m)}
      /\ s.mode # "modern" => t.down = s.down
    BY <1>1, <1>3, <1>4, <1>5 DEF Body, Ports
<1>7. /\ \A k \in DOMAIN t.down :
            \/ k \in DOMAIN s.down /\ t.down[k] = s.down[k]
            \/ k = Len(s.down) + 1 /\ t.down[k] = m
      /\ \A k \in DOMAIN s.down : k \in Nat /\ k < Len(s.down) + 1
    BY <1>0, <1>2, <1>6, AppendFacts
<1>8. s.act.id # 0
    BY NoneIs DEF Core, Sized
<1>9. ~Has(s.down, "PRESENT", s.act.id) /\ ~Has(s.down, "RELEASE", s.act.id)
    BY <1>8 DEF Core, Linked, Queued
<1>10. Sized(t, ch)
    BY <1>0, <1>2, <1>6, <1>7, <1>8 DEF Core, Sized, Body, Client
<1>11. Timed(t)
    BY <1>6 DEF Timed, Core, Body
<1>12. Queued(t, ch)
    <2>1. \A k \in DOMAIN t.down : t.down[k].type # "PRESENT" =>
             k \in DOMAIN s.down /\ t.down[k] = s.down[k]
        BY <1>2, <1>7
    <2>2. ~Has(t.down, "RELEASE", t.act.id)
        BY <1>6, <1>9, <2>1 DEF Has
    <2>3. \A j, k \in DOMAIN t.down :
             t.down[j] = Message("PRESENT", t.act.id) /\ t.down[k] = Message("PRESENT", t.act.id)
             => j = k
        <3>1. \A k \in DOMAIN s.down : s.down[k] # Message("PRESENT", s.act.id)
            BY <1>9 DEF Has, Message
        <3> QED BY <1>6, <1>7, <3>1
    <2>4. \A k \in DOMAIN t.down : t.down[k].type = "PREPARE" =>
            /\ ch.cur < t.down[k].id
            /\ \A j \in DOMAIN t.down :
                  j < k /\ t.down[j].type = "PREPARE" => t.down[j].id < t.down[k].id
        BY <2>1 DEF Core, Queued
    <2>5. \A k \in DOMAIN t.down : t.down[k].type = "DISPOSE" => t.evict = "disposing"
        BY <1>6, <2>1 DEF Core, Queued, Body
    <2>6. t.mode # "modern" => t.down = <<>> /\ t.up = <<>>
        BY <1>6 DEF Core, Queued, Body
    <2> QED BY <2>2, <2>3, <2>4, <2>5, <2>6 DEF Queued
<1>13. Linked(t, ch)
    BY <1>6, <1>8 DEF Core, Linked, Drawn, Live, Body
<1>14. Evicted(t)
    BY <1>6, NoneIs DEF Evicted, Live, Body
<1>15. Shown(t)
    BY <1>6 DEF Shown, Body
<1> QED BY <1>6, <1>10, <1>11, <1>12, <1>13, <1>14, <1>15 DEF Core, Body, t, a

-----------------------------------------------------------------------------
(* The actions. *)
Good(s, ch) == Core(s, ch) /\ Evicted(s) /\ Shown(s)

LEMMA GoodClear ==
    ASSUME NEW s, NEW ch, Good(s, ch), NEW ts \in SUBSET Timers
    PROVE  Good(Clear(s, ts), ch)
BY ClearCore DEF Good

LEMMA GoodArm ==
    ASSUME NEW s, NEW ch, Good(s, ch), NEW t \in Timers \ {"prepare", "present"},
           t = "grace" => s.evict = "grace"
    PROVE  Good(Arm(s, t), ch)
BY ArmCore DEF Good

LEMMA GoodRead ==
    ASSUME NEW s, NEW ch, Good(s, ch), s.up # <<>>
    PROVE  LET t == [s EXCEPT !.up = Tail(@)] IN
           /\ Good(t, ch) /\ Body(s, t) /\ t.act = s.act /\ t.timers = s.timers
           /\ t.up = Tail(s.up) /\ Head(s.up) \in Messages
           /\ Has(s.up, Head(s.up).type, Head(s.up).id)
<1> DEFINE t == [s EXCEPT !.up = Tail(@)]
<1>1. /\ Core(t, ch) /\ Body(s, t) /\ t.act = s.act /\ t.timers = s.timers
      /\ t.up = Tail(s.up) /\ Head(s.up) \in Messages
      /\ Has(s.up, Head(s.up).type, Head(s.up).id)
    BY ReadCore DEF Good
<1>2. Evicted(t) /\ Shown(t)
    BY <1>1 DEF Good, Evicted, Shown, Body
<1> QED BY <1>1, <1>2 DEF Good

LEMMA GoodDocument ==
    ASSUME NEW s, NEW ch, Good(s, ch), NEW event
    PROVE  Good(Document(s, event), ch)
<1> DEFINE t == Document(s, event)
<1>1. /\ t \in Client /\ Ports(s, t) /\ t.act = s.act /\ t.timers = s.timers
      /\ t.mode = s.mode /\ t.epoch = s.epoch /\ t.lost = s.lost
      /\ t.serial = s.serial /\ t.pending = s.pending
      /\ t.evict = s.evict /\ t.visible = s.visible
    BY DocumentFields DEF Good, Core
<1> HIDE DEF t
<1>2. Core(t, ch)
    BY <1>1, Quiet DEF Good, Ports
<1>3. Evicted(t) /\ Shown(t)
    BY <1>1 DEF Good, Evicted, Shown
<1> QED BY <1>2, <1>3 DEF Good, t

LEMMA TimerSets ==
    /\ {"handshake"} \in SUBSET Timers /\ {"prepare"} \in SUBSET Timers
    /\ {"present"} \in SUBSET Timers /\ {"context"} \in SUBSET Timers
    /\ {"grace"} \in SUBSET Timers /\ {"prepare", "present"} \in SUBSET Timers
    /\ {"handshake", "prepare", "present", "context"} \in SUBSET Timers
    /\ {"handshake", "context", "grace", "dispose"} \subseteq Timers \ {"prepare", "present"}
    /\ PrepareTimer \in SUBSET Timers
BY DEF Timers, PrepareTimer

LEMMA EnterGood ==
    ASSUME Good(c, child), Enter
    PROVE  Good(c', child')
<1> DEFINE p == IF c.mode = "legacy" THEN Open(c) ELSE c
<1> DEFINE o == PayDebt(p)
<1> DEFINE s == [o EXCEPT !.pending = TRUE, !.wanted = TRUE, !.failed = FALSE,
                          !.tainted = o.lost, !.replaced = FALSE]
<1> DEFINE h == [s EXCEPT !.visible = FALSE]
<1>1. /\ c' = IF ModernActive(s) THEN ActivateModern(s)
              ELSE IF s.mode = "legacy" THEN ActivateLegacy(s)
              ELSE Arm(Clear(h, {"prepare"}), "handshake")
      /\ child' = child /\ c.evict = "none"
    BY DEF Enter
<1>2. Core(p, child) /\ p.evict = "none"
    BY <1>1, OpenCore DEF Good
<1> HIDE DEF p
<1>3. Core(o, child) /\ Same(p, o)
    BY <1>2, PayDebtCore
<1> HIDE DEF o
<1>4. /\ s \in Client /\ s.mode = o.mode /\ s.epoch = o.epoch /\ s.act = o.act
      /\ s.serial = o.serial /\ s.evict = o.evict /\ s.timers = o.timers
      /\ s.down = o.down /\ s.up = o.up
    BY <1>3 DEF Same, Client
<1> HIDE DEF s
<1>5. Core(s, child) /\ s.evict = "none"
    BY <1>2, <1>3, <1>4, Quiet DEF Same
<1>6. /\ h \in Client /\ h.mode = s.mode /\ h.epoch = s.epoch /\ h.act = s.act
      /\ h.serial = s.serial /\ h.evict = s.evict /\ h.timers = s.timers
      /\ h.down = s.down /\ h.up = s.up /\ ~h.visible
    BY <1>4 DEF Client
<1> HIDE DEF h
<1>7. Good(h, child)
    <2>1. Core(h, child)
        BY <1>5, <1>6, Quiet
    <2> QED BY <1>5, <1>6, <2>1 DEF Good, Evicted, Shown
<1>8. Good(Arm(Clear(h, {"prepare"}), "handshake"), child)
    BY <1>7, GoodClear, GoodArm, TimerSets
<1>9. ModernActive(s) => Good(ActivateModern(s), child)
    BY <1>5, ActivateCore DEF Good
<1>10. s.mode = "legacy" => Good(ActivateLegacy(s), child)
    BY <1>5, LegacyCore DEF Good, Evicted
<1> QED BY <1>1, <1>8, <1>9, <1>10

LEMMA LeaveGood ==
    ASSUME Good(c, child), Leave
    PROVE  Good(c', child')
<1> DEFINE a == Clear(c, {"handshake"})
<1> DEFINE h == [a EXCEPT !.visible = FALSE, !.pending = FALSE, !.wanted = FALSE, !.v2 = FALSE]
<1> DEFINE b == Clear(h, {"prepare", "present"})
<1>1. c' = (IF ModernActive(h) THEN Release(b) ELSE h) /\ child' = child /\ c.evict = "none"
    BY DEF Leave, Deactivate
<1>2. Core(a, child) /\ a.evict = "none"
    BY <1>1, ClearCore, ClearFields, TimerSets DEF Good, Body, Core
<1> HIDE DEF a
<1>3. /\ h \in Client /\ h.mode = a.mode /\ h.epoch = a.epoch /\ h.act = a.act
      /\ h.serial = a.serial /\ h.evict = a.evict /\ h.timers = a.timers
      /\ h.down = a.down /\ h.up = a.up /\ ~h.visible
    BY <1>2 DEF Client, Core
<1> HIDE DEF h
<1>4. Core(h, child)
    BY <1>2, <1>3, Quiet
<1>5. Good(h, child)
    BY <1>2, <1>3, <1>4 DEF Good, Evicted, Shown
<1>6. Core(b, child) /\ Body(h, b) /\ b.timers \cap {"prepare", "present"} = {}
    BY <1>3, <1>4, ClearCore, ClearFields, TimerSets
<1> HIDE DEF b
<1>7. Core(Release(b), child) /\ Body(b, Release(b))
    BY <1>6, ReleaseCore
<1>8. Good(Release(b), child)
    BY <1>2, <1>3, <1>6, <1>7 DEF Good, Evicted, Shown, Body
<1> QED BY <1>1, <1>5, <1>8

LEMMA FreezeGood ==
    ASSUME Good(c, child), Freeze
    PROVE  Good(c', child')
<1> DEFINE s == Suspend(c)
<1> DEFINE t == [s EXCEPT !.wanted = FALSE]
<1>1. c' = t /\ child' = child
    BY DEF Freeze
<1>2. Core(s, child) /\ Same(c, s)
    BY SuspendCore DEF Good
<1> HIDE DEF s
<1>3. /\ Same(s, t) /\ t.down = s.down
    BY <1>2 DEF Client, Core, Same
<1> HIDE DEF t
<1>4. Core(t, child)
    BY <1>2, <1>3, Quiet DEF Same
<1> QED BY <1>1, <1>2, <1>3, <1>4, SameKeeps DEF Good

LEMMA ThawGood ==
    ASSUME Good(c, child), Thaw
    PROVE  Good(c', child')
BY PayDebtCore, SameKeeps DEF Good, Thaw

LEMMA CancelGood ==
    ASSUME Good(c, child), CancelEviction
    PROVE  Good(c', child')
<1> DEFINE a == Clear(c, {"grace"})
<1> DEFINE s == [a EXCEPT !.evict = "none"]
<1>1. c' = PayDebt(s) /\ child' = child /\ c.evict = "grace"
    BY DEF CancelEviction
<1>2. Good(a, child) /\ a.evict = "grace" /\ "grace" \notin a.timers
    BY <1>1, GoodClear, ClearFields, TimerSets DEF Good, Core, Body
<1> HIDE DEF a
<1>3. /\ s \in Client /\ s.mode = a.mode /\ s.epoch = a.epoch /\ s.act = a.act
      /\ s.serial = a.serial /\ s.evict = "none" /\ s.timers = a.timers /\ s.lost = a.lost
      /\ s.down = a.down /\ s.up = a.up /\ s.visible = a.visible
    BY <1>2 DEF Client, Core, Good, Evictions
<1> HIDE DEF s
<1>4. Sized(s, child) /\ Timed(s) /\ Linked(s, child)
    BY <1>2, <1>3 DEF Good, Core, Sized, Timed, Linked, Drawn
<1>5. Queued(s, child)
    BY <1>2, <1>3 DEF Good, Core, Queued
<1>6. Good(s, child)
    BY <1>2, <1>3, <1>4, <1>5 DEF Good, Core, Evicted, Shown
<1> QED BY <1>1, <1>6, PayDebtCore, SameKeeps DEF Good

LEMMA EvictGood ==
    ASSUME Good(c, child), Evict
    PROVE  Good(c', child')
<1> DEFINE a == Clear(c, {"handshake", "prepare", "present", "context"})
<1> DEFINE h == [a EXCEPT !.evict = "grace", !.pending = FALSE, !.visible = FALSE,
                          !.wanted = FALSE, !.v2 = FALSE]
<1> DEFINE s == Suspend(h)
<1> DEFINE r == Release(s)
<1>1. c' = Arm(r, "grace") /\ child' = child /\ c.evict = "none"
    BY DEF Evict
<1>2. Core(a, child) /\ a.evict = "none" /\ a.timers \cap {"prepare", "present"} = {}
    BY <1>1, ClearCore, ClearFields, TimerSets DEF Good, Core, Body
<1> HIDE DEF a
<1>3. /\ h \in Client /\ h.mode = a.mode /\ h.epoch = a.epoch /\ h.act = a.act
      /\ h.serial = a.serial /\ h.evict = "grace" /\ h.timers = a.timers
      /\ h.down = a.down /\ h.up = a.up /\ ~h.visible /\ ~h.pending
    BY <1>2 DEF Client, Core, Evictions
<1> HIDE DEF h
<1>4. Core(h, child)
    <2>1. Sized(h, child) /\ Timed(h) /\ Linked(h, child)
        BY <1>2, <1>3 DEF Core, Sized, Timed, Linked, Drawn
    <2>2. Queued(h, child)
        BY <1>2, <1>3 DEF Core, Queued
    <2> QED BY <1>2, <1>3, <2>1, <2>2 DEF Core
<1>5. Core(s, child) /\ Same(h, s)
    BY <1>4, SuspendCore
<1> HIDE DEF s
<1>6. Core(r, child) /\ Body(s, r) /\ r.act.state \notin Live
    BY <1>2, <1>3, <1>5, ReleaseCore DEF Same
<1> HIDE DEF r
<1>7. Good(r, child) /\ r.evict = "grace"
    BY <1>3, <1>5, <1>6 DEF Good, Evicted, Shown, Same, Body
<1> QED BY <1>1, <1>7, GoodArm, TimerSets

LEMMA ReloadGood ==
    ASSUME Good(c, child), Reload
    PROVE  Good(c', child')
<1> DEFINE s == HandleFrameLoad(c)
<1> DEFINE t == [s EXCEPT !.reloading = TRUE]
<1>1. c' = t /\ child' = child
    BY DEF Reload
<1>2. Good(s, child)
    BY FrameLoadCore DEF Good, Core
<1> HIDE DEF s
<1>3. Same(s, t) /\ t.down = s.down
    BY <1>2 DEF Client, Good, Core, Same
<1> HIDE DEF t
<1> QED BY <1>1, <1>2, <1>3, Quiet, SameKeeps DEF Same, Good

LEMMA LoadGood ==
    ASSUME Good(c, child), Load
    PROVE  Good(c', child')
<1> DEFINE s == HandleFrameLoad(c)
<1> DEFINE t == [s EXCEPT !.reloading = FALSE, !.replaced = TRUE]
<1>1. c' = t /\ child' = Blank
    BY DEF Load
<1>2. Good(s, Blank)
    <2>1. Blank \in Child /\ Blank.doc = 0 /\ Blank.cur = 0
        BY DEF Blank, Child, Stages
    <2> QED BY <2>1, FrameLoadCore DEF Good
<1> HIDE DEF s
<1>3. Same(s, t) /\ t.down = s.down
    BY <1>2 DEF Client, Good, Core, Same
<1> HIDE DEF t
<1> QED BY <1>1, <1>2, <1>3, Quiet, SameKeeps DEF Same, Good

-----------------------------------------------------------------------------
(* Timers. *)
LEMMA TimerGood ==
    ASSUME Good(c, child), TimerFires
    PROVE  Good(c', child')
<1>1. ASSUME HandshakeTimeout PROVE Good(c', child')
    <2>1. child' = child /\ c' \in {Clear(c, {"handshake"}), FailModern(c)}
        BY <1>1 DEF HandshakeTimeout, Fire
    <2>2. Good(Clear(c, {"handshake"}), child)
        BY GoodClear, TimerSets
    <2>3. Good(FailModern(c), child)
        BY FailCore DEF Good
    <2> QED BY <2>1, <2>2, <2>3
<1>2. ASSUME StepTimeout PROVE Good(c', child')
    <2>1. child' = child /\ c' = FailModern(c)
        BY <1>2 DEF StepTimeout, Fire
    <2> QED BY <2>1, FailCore DEF Good
<1>3. ASSUME ContextTimeout PROVE Good(c', child')
    <2> DEFINE s == Clear(c, {"context"})
    <2>1. child' = child /\ c' \in {s, FailModern(s)}
        BY <1>3 DEF ContextTimeout, Fire
    <2>2. Good(s, child)
        BY GoodClear, TimerSets
    <2> HIDE DEF s
    <2>3. Good(FailModern(s), child)
        BY <2>2, FailCore DEF Good
    <2> QED BY <2>1, <2>2, <2>3
<1>4. ASSUME GraceOver PROVE Good(c', child')
    <2> DEFINE a == Clear(c, {"grace"})
    <2> DEFINE b == [a EXCEPT !.evict = "disposing"]
    <2> DEFINE s == Document(b, "DISPOSE")
    <2> DEFINE d == Send(s, Plain("DISPOSE"))
    <2>1. child' = child /\ c' \in {Arm(d, "dispose"), SettleEviction(s)}
        BY <1>4 DEF GraceOver, Fire
    <2>2. Good(a, child) /\ a.evict = c.evict /\ "grace" \notin a.timers
        BY GoodClear, ClearFields, TimerSets DEF Good, Core, Body
    <2> HIDE DEF a
    <2>3. a.evict = "grace"
        BY <1>4, <2>2 DEF GraceOver, Fire, Good, Core, Timed
    <2>4. /\ b \in Client /\ b.mode = a.mode /\ b.epoch = a.epoch /\ b.act = a.act
          /\ b.serial = a.serial /\ b.evict = "disposing" /\ b.timers = a.timers
          /\ b.down = a.down /\ b.up = a.up /\ b.visible = a.visible /\ b.lost = a.lost
          /\ b.pending = a.pending
        BY <2>2 DEF Good, Core, Client, Evictions
    <2> HIDE DEF b
    <2>5. Good(b, child)
        <3>1. Sized(b, child) /\ Timed(b) /\ Linked(b, child)
            BY <2>2, <2>4 DEF Good, Core, Sized, Timed, Linked, Drawn
        <3>2. Queued(b, child)
            BY <2>2, <2>4 DEF Good, Core, Queued
        <3> QED BY <2>2, <2>3, <2>4, <3>1, <3>2 DEF Good, Core, Evicted, Shown
    <2>6. Good(s, child) /\ s.evict = "disposing"
        BY <2>4, <2>5, GoodDocument, DocumentFields
    <2> HIDE DEF s
    <2>7. Core(d, child) /\ Same(s, d)
        BY <2>6, PlainIs, SendCore DEF Good, Types
    <2> HIDE DEF d
    <2>8. Good(Arm(d, "dispose"), child)
        BY <2>6, <2>7, SameKeeps, GoodArm, TimerSets DEF Good
    <2>9. Good(SettleEviction(s), child)
        BY <2>6, SettleCore DEF Good
    <2> QED BY <2>1, <2>8, <2>9
<1>5. ASSUME DisposeTimeout PROVE Good(c', child')
    <2>1. child' = child /\ c' = SettleEviction(c)
        BY <1>5 DEF DisposeTimeout, Fire
    <2> QED BY <2>1, SettleCore DEF Good
<1>6. ASSUME OfferExpires PROVE Good(c', child')
    <2>1. child' = child /\ c' = FallBack(c)
        BY <1>6 DEF OfferExpires
    <2> QED BY <2>1, FallBackCore DEF Good
<1> QED BY <1>1, <1>2, <1>3, <1>4, <1>5, <1>6 DEF TimerFires

-----------------------------------------------------------------------------
(* Answers of the child. *)
LEMMA AppliedGood ==
    ASSUME Good(c, child), OnApplied
    PROVE  Good(c', child')
<1> DEFINE r == Rest
<1> DEFINE s == Clear(r, PrepareTimer)
<1> DEFINE u == [s EXCEPT !.tainted = @ \/ "handshake" \in c.timers]
<1>1. /\ c' = IF ~MatchesActivation THEN r
              ELSE IF c.act.state = "PREPARING" THEN SendPresent(Activation(s, "APPLIED"))
              ELSE u
      /\ child' = child /\ c.up # <<>>
    BY DEF OnApplied, Receive
<1>2. Good(r, child) /\ r.act = c.act
    BY <1>1, GoodRead DEF Rest
<1> HIDE DEF r
<1>3. Good(s, child) /\ s.act = c.act /\ "prepare" \notin s.timers
    BY <1>2, GoodClear, ClearFields, TimerSets DEF Good, Core, PrepareTimer
<1> HIDE DEF s
<1>4. c.act.state = "PREPARING" => Good(SendPresent(Activation(s, "APPLIED")), child)
    BY <1>3, PresentCore DEF Good
<1>5. Good(u, child)
    <2>1. s \in Client
        BY <1>3 DEF Good, Core
    <2>2. /\ u \in Client /\ Ports(s, u) /\ u.act = s.act /\ u.timers = s.timers
          /\ u.mode = s.mode /\ u.epoch = s.epoch /\ u.lost = s.lost /\ u.serial = s.serial
          /\ u.pending = s.pending /\ u.evict = s.evict /\ u.visible = s.visible
        BY <2>1 DEF Client, Ports
    <2> HIDE DEF u
    <2>3. Core(u, child)
        BY <1>3, <2>2, Quiet DEF Good, Ports
    <2> QED BY <1>3, <2>2, <2>3 DEF Good, Evicted, Shown
<1> QED BY <1>1, <1>2, <1>4, <1>5

(* The answer is of the present section, hence given by the present document *)
(* of what it shows.                                                         *)
LEMMA PresentedGood ==
    ASSUME Good(c, child), OnPresented
    PROVE  Good(c', child')
<1> DEFINE r == Rest
<1> DEFINE s == Clear(r, {"present"})
<1> DEFINE a == Activation(s, "PRESENTED")
<1> DEFINE act == [a.act EXCEPT !.proof = <<c.epoch, Head(c.up).id>>]
<1> DEFINE t == [a EXCEPT !.act = act, !.strikes = 0, !.failed = FALSE]
<1>1. child' = child /\ c.up # <<>> /\ Head(c.up).type = "PRESENTED"
    BY DEF OnPresented, Receive
<1>2. /\ Good(r, child) /\ r.act = c.act /\ Body(c, r)
      /\ Has(c.up, "PRESENTED", Head(c.up).id)
    BY <1>1, GoodRead DEF Rest
<1>3. c' = IF ~MatchesActivation THEN r
           ELSE IF c.act.state = "RENDERING"
                THEN Reveal([a EXCEPT !.act.proof = <<c.epoch, Head(c.up).id>>,
                                      !.strikes = 0, !.failed = FALSE])
           ELSE s
    BY DEF OnPresented
<1> HIDE DEF r
<1>4. /\ Good(s, child) /\ s.act = c.act /\ Body(r, s) /\ "present" \notin s.timers
    BY <1>2, GoodClear, ClearFields, TimerSets DEF Good, Core
<1> HIDE DEF s
<1>5. CASE MatchesActivation /\ c.act.state = "RENDERING"
    <2>1. /\ Body(s, a) /\ Ports(s, a) /\ a.timers = s.timers /\ a.act.id = s.act.id
          /\ a.act.state = Reduce(ActivationEdges, s.act.state, "PRESENTED")
        BY <1>4, ActivationFields DEF Good, Core, Events
    <2>2. a.act.state = "PRESENTED"
        <3>1. Legal(ActivationEdges, s.act.state, "PRESENTED")
            BY <1>4, <1>5, Edges DEF Legal
        <3> QED BY <2>1, <3>1, ActivationStep, EdgesOf
    <2> HIDE DEF a
    <2>3. a \in Client /\ a.act \in Act /\ Head(c.up).id = c.act.id /\ c.act.id # 0
        BY <1>5, <2>1 DEF Body, Client, MatchesActivation
    <2>4. c.epoch \in Nat \ {0} /\ c.act.id \in Nat /\ c.serial \in Nat
        BY DEF Good, Core, Client, Act
    <2>5. /\ act \in Act /\ act.id = a.act.id /\ act.state = a.act.state
          /\ act.proof = <<c.epoch, c.act.id>>
        BY <2>3, <2>4 DEF Act
    <2>6. c' = Reveal(t)
        BY <1>3, <1>5, <2>3 DEF Client, Act
    <2> HIDE DEF act
    <2>7. /\ t \in Client /\ t.act = act
          /\ t.mode = a.mode /\ t.epoch = a.epoch /\ t.lost = a.lost
          /\ t.serial = a.serial /\ t.evict = a.evict /\ t.pending = a.pending
          /\ t.timers = a.timers /\ t.down = a.down /\ t.up = a.up /\ t.visible = a.visible
        <3>1. 0 \in 0..Threshold
            BY BoundsAssumption
        <3> QED BY <2>3, <2>5, <3>1 DEF Client
    <2> HIDE DEF t
    <2>8. /\ t.epoch = c.epoch /\ t.serial = c.serial /\ t.act.id = c.act.id
          /\ t.act.state = "PRESENTED" /\ t.act.proof = <<t.epoch, t.act.id>>
          /\ t.mode = s.mode /\ t.epoch = s.epoch /\ t.serial = s.serial /\ t.evict = s.evict
          /\ t.pending = s.pending /\ t.timers = s.timers /\ t.down = s.down /\ t.up = s.up
          /\ t.visible = s.visible
        BY <1>2, <1>4, <2>1, <2>2, <2>5, <2>7 DEF Body, Ports
    <2>9. Drawn(c, child) /\ c.mode = "modern"
        <3>1. c.mode = "modern"
            BY <1>1 DEF Good, Core, Queued
        <3> QED BY <1>2, <1>5, <2>3, <3>1 DEF Good, Core, Linked, Live
    <2>10. Sized(t, child)
        <3>1. c.act.id <= c.serial
            BY <2>4 DEF Good, Core, Sized
        <3>2. t.mode = "modern"
            BY <1>2, <1>4, <2>8, <2>9 DEF Body
        <3> QED BY <1>4, <2>3, <2>4, <2>8, <3>1, <3>2 DEF Good, Core, Sized
    <2>11. Timed(t)
        BY <1>4, <1>5, <2>8 DEF Good, Core, Timed
    <2>12. Queued(t, child)
        BY <1>4, <1>5, <2>8 DEF Good, Core, Queued
    <2>13. Linked(t, child)
        BY <1>4, <1>5, <2>8, <2>9 DEF Good, Core, Linked, Drawn, Live
    <2>14. Evicted(t)
        BY <1>4, <1>5, <2>3, <2>8, NoneIs DEF Good, Evicted, Live
    <2>15. Shown(t)
        BY <1>4, <1>5, <2>8 DEF Good, Shown
    <2>16. Good(t, child)
        BY <2>7, <2>10, <2>11, <2>12, <2>13, <2>14, <2>15 DEF Good, Core
    <2> QED BY <1>1, <2>6, <2>16, RevealCore DEF Good
<1>6. CASE ~(MatchesActivation /\ c.act.state = "RENDERING")
    BY <1>1, <1>2, <1>3, <1>4, <1>6
<1> QED BY <1>5, <1>6

LEMMA LostGood ==
    ASSUME Good(c, child), OnContextLost
    PROVE  Good(c', child')
<1> DEFINE r == Rest
<1> DEFINE a == Activation(r, "CONTEXT_LOST")
<1> DEFINE lost == c.doc \in {"DOCUMENT_READY", "SUSPENDED"} \/ a.lost
<1> DEFINE t == [a EXCEPT !.lost = lost, !.visible = FALSE]
<1>1. c' = Arm(t, "context") /\ child' = child /\ c.up # <<>>
    BY DEF OnContextLost, Receive
<1>2. Good(r, child) /\ r.act = c.act
    BY <1>1, GoodRead DEF Rest
<1> HIDE DEF r
<1>3. /\ Body(r, a) /\ Ports(r, a) /\ a.timers = r.timers /\ a.act.id = r.act.id
      /\ a.act.state = Reduce(ActivationEdges, r.act.state, "CONTEXT_LOST")
      /\ a.act.proof = IF Legal(ActivationEdges, r.act.state, "CONTEXT_LOST")
                       THEN NoProof ELSE r.act.proof
    BY <1>2, ActivationFields DEF Good, Core, Events
<1> HIDE DEF a
<1>4. \/ a.act.state = r.act.state /\ r.act.state \notin {"PRESENTED", "VISIBLE"}
           /\ a.act.proof = r.act.proof
      \/ r.act.state \in {"PRESENTED", "VISIBLE"} /\ a.act.state = "RENDERING"
           /\ a.act.proof \in {NoProof, r.act.proof}
    <2>1. r.act.state \in {"PRESENTED", "VISIBLE"}
             => Legal(ActivationEdges, r.act.state, "CONTEXT_LOST")
        BY Edges DEF Legal
    <2>2. Legal(ActivationEdges, r.act.state, "CONTEXT_LOST")
             => r.act.state \in {"PRESENTED", "VISIBLE"}
        BY EdgesOf DEF Legal
    <2>3. CASE r.act.state \in {"PRESENTED", "VISIBLE"}
        BY <1>3, <2>1, <2>3, ActivationStep, EdgesOf
    <2>4. CASE r.act.state \notin {"PRESENTED", "VISIBLE"}
        BY <1>3, <2>2, <2>4, ActivationStep, EdgesOf
    <2> QED BY <2>3, <2>4
<1>5. lost \in BOOLEAN
    BY <1>3 DEF Body, Client
<1> HIDE DEF lost
<1>6. /\ t \in Client /\ t.mode = r.mode /\ t.epoch = r.epoch /\ t.serial = r.serial
      /\ t.evict = r.evict /\ t.pending = r.pending /\ t.timers = r.timers
      /\ t.down = r.down /\ t.up = r.up /\ ~t.visible /\ t.act = a.act
    BY <1>3, <1>5 DEF Body, Ports, Client
<1> HIDE DEF t
<1>7. r.act \in Act /\ t.act \in Act /\ r.epoch \in Nat \ {0} /\ r.serial \in Nat
    BY <1>2, <1>6 DEF Good, Core, Client
<1>8. r.act.id = 0 => t.act = NoActivation
    <2>1. r.act.id = 0 => r.act = NoActivation
        BY <1>2 DEF Good, Core, Sized
    <2>2. r.act.id = 0 => t.act = r.act
        BY <1>3, <1>4, <1>6, <1>7, <2>1, NoneIs DEF Act
    <2> QED BY <2>1, <2>2
<1>9. Sized(t, child)
    BY <1>2, <1>3, <1>4, <1>6, <1>7, <1>8 DEF Good, Core, Sized, NoProof
<1>10. Timed(t)
    BY <1>2, <1>4, <1>6 DEF Good, Core, Timed
<1>11. Queued(t, child)
    BY <1>2, <1>3, <1>4, <1>6 DEF Good, Core, Queued
<1>12. Linked(t, child)
    BY <1>2, <1>3, <1>4, <1>6 DEF Good, Core, Linked, Drawn, Live
<1>13. Evicted(t)
    BY <1>2, <1>3, <1>4, <1>6, <1>8, NoneIs DEF Good, Evicted, Live
<1>14. Good(t, child)
    BY <1>6, <1>9, <1>10, <1>11, <1>12, <1>13 DEF Good, Core, Shown
<1> QED BY <1>1, <1>14, GoodArm, TimerSets

LEMMA RestoredGood ==
    ASSUME Good(c, child), OnContextRestored
    PROVE  Good(c', child')
<1> DEFINE r == Rest
<1> DEFINE s == Clear(r, {"context"})
<1> DEFINE lost == s.lost /\ c.doc \notin {"DOCUMENT_READY", "SUSPENDED"}
<1> DEFINE t == [s EXCEPT !.lost = lost, !.tainted = TRUE]
<1>1. c' = t /\ child' = child /\ c.up # <<>>
    BY DEF OnContextRestored, Receive
<1>2. Good(r, child)
    BY <1>1, GoodRead DEF Rest
<1> HIDE DEF r
<1>3. Good(s, child)
    BY <1>2, GoodClear, TimerSets
<1> HIDE DEF s
<1>4. lost \in BOOLEAN /\ (lost => s.lost)
    BY <1>3 DEF Good, Core, Client
<1> HIDE DEF lost
<1>5. /\ t \in Client /\ t.mode = s.mode /\ t.epoch = s.epoch /\ t.serial = s.serial
      /\ t.evict = s.evict /\ t.pending = s.pending /\ t.timers = s.timers
      /\ t.down = s.down /\ t.up = s.up /\ t.visible = s.visible /\ t.act = s.act
      /\ t.lost = lost
    <2>1. s \in Client
        BY <1>3 DEF Good, Core
    <2>2. t \in Client
        BY <1>4, <2>1 DEF Client
    <2> QED BY <2>1, <2>2 DEF Client
<1> HIDE DEF t
<1>6. Core(t, child)
    BY <1>3, <1>5, Quiet DEF Good
<1> QED BY <1>1, <1>3, <1>4, <1>5, <1>6 DEF Good, Evicted, Shown

LEMMA ReceiveGood ==
    ASSUME Good(c, child), ClientReceives
    PROVE  Good(c', child')
<1>1. ASSUME c.up # <<>> PROVE Good(Rest, child)
    BY <1>1, GoodRead DEF Rest
<1>2. ASSUME OnReady PROVE Good(c', child')
    <2>1. Good(Document(Rest, "READY"), child)
        BY <1>1, <1>2, GoodDocument DEF OnReady, Receive
    <2> QED BY <1>2, <2>1, RedriveCore DEF OnReady, Receive, Good
<1>3. ASSUME OnSuspended PROVE Good(c', child')
    BY <1>1, <1>3, GoodDocument DEF OnSuspended, Receive
<1>4. ASSUME OnResumed PROVE Good(c', child')
    <2>1. Good(Document(Rest, "RESUMED"), child)
        BY <1>1, <1>4, GoodDocument DEF OnResumed, Receive
    <2> QED BY <1>4, <2>1, RedriveCore DEF OnResumed, Receive, Good
<1>5. ASSUME OnDisposed PROVE Good(c', child')
    <2>1. Good(Document(Rest, "DISPOSED"), child)
        BY <1>1, <1>5, GoodDocument DEF OnDisposed, Receive
    <2> QED BY <1>5, <2>1, SettleCore DEF OnDisposed, Receive, Good
<1>6. ASSUME OnError PROVE Good(c', child')
    <2>1. Good(Rest, child) /\ child' = child /\ c' \in {Rest, FailModern(Rest)}
        BY <1>1, <1>6 DEF OnError, Receive
    <2> QED BY <2>1, FailCore DEF Good
<1> QED BY <1>2, <1>3, <1>4, <1>5, <1>6, LostGood, RestoredGood, AppliedGood, PresentedGood
        DEF ClientReceives

-----------------------------------------------------------------------------
(* The child. *)
LEMMA PostCore ==
    ASSUME NEW s, NEW old, Good(s, old), NEW m \in Messages, NEW ch \in Child,
           s.mode = "modern", NEW t, t = [s EXCEPT !.up = Append(@, m)], m.id <= s.serial,
           ch.doc = old.doc, ch.cur = old.cur,
           \/ ch.stage = old.stage
           \/ old.stage = "preparing" /\ ch.stage = "applied"
           \/ old.stage = "presenting" /\ ch.stage = "drawn",
           m.type = "PRESENTED" =>
               ch.doc = s.epoch /\ ch.stage = "drawn" /\ m.id = ch.cur
    PROVE  Good(t, ch)
<1>1. s.up \in Seq(Messages) /\ s \in Client
    BY DEF Good, Core, Client
<1>2. /\ Append(s.up, m) \in Seq(Messages)
      /\ \A k \in DOMAIN Append(s.up, m) :
            \/ k \in DOMAIN s.up /\ Append(s.up, m)[k] = s.up[k]
            \/ Append(s.up, m)[k] = m
    BY <1>1, AppendFacts
<1>3. /\ Body(s, t) /\ t.act = s.act /\ t.timers = s.timers /\ t.down = s.down
      /\ t.up = Append(s.up, m)
    BY <1>1, <1>2 DEF Client, Body
<1>4. Sized(t, ch)
    BY <1>2, <1>3 DEF Good, Core, Sized, Body
<1>5. Timed(t)
    BY <1>3 DEF Good, Core, Timed, Body
<1>6. Queued(t, ch)
    BY <1>3 DEF Good, Core, Queued, Body
<1>7. Linked(t, ch)
    <2>1. \A id : Has(t.up, "PRESENTED", id) =>
             Has(s.up, "PRESENTED", id) \/ (m.type = "PRESENTED" /\ m.id = id)
        BY <1>2, <1>3 DEF Has
    <2>2. Drawn(s, old) => Drawn(t, ch)
        BY <1>3 DEF Drawn, Body
    <2>3. m.type = "PRESENTED" /\ m.id = s.act.id => Drawn(t, ch)
        BY <1>3 DEF Drawn, Body
    <2> QED BY <1>3, <2>1, <2>2, <2>3 DEF Good, Core, Linked, Body
<1>8. Evicted(t) /\ Shown(t)
    BY <1>3 DEF Good, Evicted, Shown, Body
<1> QED BY <1>3, <1>4, <1>5, <1>6, <1>7, <1>8 DEF Good, Core, Body

(* A command is taken off the port; what the child becomes is up to it. *)
LEMMA TakeCore ==
    ASSUME Good(c, child), c.down # <<>>, NEW t, t = [c EXCEPT !.down = Tail(@)]
    PROVE  /\ Good(t, child) /\ Body(c, t) /\ t.act = c.act /\ t.timers = c.timers
           /\ t.up = c.up /\ t.down = Tail(c.down) /\ c.mode = "modern"
           /\ Head(c.down) \in Messages /\ 1 \in DOMAIN c.down /\ Head(c.down) = c.down[1]
           /\ \A k \in DOMAIN t.down :
                 k \in Nat \ {0} /\ k + 1 \in DOMAIN c.down /\ t.down[k] = c.down[k + 1]
<1>1. c.down \in Seq(Messages) /\ c \in Client
    BY DEF Good, Core, Client
<1>2. /\ Tail(c.down) \in Seq(Messages) /\ Head(c.down) \in Messages
      /\ 1 \in DOMAIN c.down /\ Head(c.down) = c.down[1]
      /\ \A k \in DOMAIN Tail(c.down) :
            k \in Nat \ {0} /\ k + 1 \in DOMAIN c.down /\ Tail(c.down)[k] = c.down[k + 1]
    BY <1>1, TailFacts
<1>3. Body(c, t) /\ t.act = c.act /\ t.timers = c.timers /\ t.up = c.up
         /\ t.down = Tail(c.down)
    BY <1>1, <1>2 DEF Client, Body
<1>4. c.mode = "modern"
    BY DEF Good, Core, Queued
<1>5. Sized(t, child)
    BY <1>2, <1>3 DEF Good, Core, Sized, Body
<1>6. Timed(t)
    BY <1>3 DEF Good, Core, Timed, Body
<1>7. \A type, id : Has(t.down, type, id) => Has(c.down, type, id)
    BY <1>2, <1>3 DEF Has
<1>8. Queued(t, child)
    <2>1. SUFFICES ASSUME NEW k \in DOMAIN t.down, t.down[k].type = "PREPARE"
                   PROVE  /\ child.cur < t.down[k].id
                          /\ \A j \in DOMAIN t.down :
                               j < k /\ t.down[j].type = "PREPARE" => t.down[j].id < t.down[k].id
        <3>1. \A j, k \in DOMAIN t.down :
                 /\ t.down[j] = Message("PRESENT", t.act.id)
                 /\ t.down[k] = Message("PRESENT", t.act.id)
                 /\ t.act.id # 0
                 => j = k
            <4>1. SUFFICES ASSUME NEW j \in DOMAIN t.down, NEW k \in DOMAIN t.down,
                                  c.down[j + 1] = Message("PRESENT", c.act.id),
                                  c.down[k + 1] = Message("PRESENT", c.act.id), c.act.id # 0
                           PROVE  j = k
                BY <1>2, <1>3
            <4>2. j + 1 = k + 1
                BY <1>2, <1>3, <4>1 DEF Good, Core, Queued
            <4> QED BY <1>2, <1>3, <4>2
        <3>2. \A k \in DOMAIN t.down : t.down[k].type = "DISPOSE" => t.evict = "disposing"
            BY <1>2, <1>3 DEF Good, Core, Queued, Body
        <3> QED BY <1>3, <1>4, <1>7, <3>1, <3>2 DEF Good, Core, Queued, Body
    <2>2. /\ k \in Nat /\ k + 1 \in DOMAIN c.down /\ t.down[k] = c.down[k + 1]
          /\ \A j \in DOMAIN t.down :
                j \in Nat /\ j + 1 \in DOMAIN c.down /\ t.down[j] = c.down[j + 1]
        BY <1>2, <1>3
    <2>3. /\ child.cur < c.down[k + 1].id
          /\ \A i \in DOMAIN c.down :
                i < k + 1 /\ c.down[i].type = "PREPARE" => c.down[i].id < c.down[k + 1].id
        BY <2>1, <2>2 DEF Good, Core, Queued
    <2> QED BY <2>2, <2>3
<1>9. Linked(t, child)
    BY <1>3, <1>7 DEF Good, Core, Linked, Drawn, Body
<1>10. Evicted(t) /\ Shown(t)
    BY <1>3 DEF Good, Evicted, Shown, Body
<1> QED BY <1>2, <1>3, <1>4, <1>5, <1>6, <1>8, <1>9, <1>10 DEF Good, Core, Body

LEMMA PrepareGood ==
    ASSUME Good(c, child), OnPrepare
    PROVE  Good(c', child')
<1>1. /\ c.down # <<>> /\ Head(c.down).type = "PREPARE"
      /\ c' = [c EXCEPT !.down = Tail(@)]
      /\ child' = [child EXCEPT !.cur = Head(c.down).id, !.stage = "preparing"]
    BY DEF OnPrepare, Command
<1>2. /\ Good(c', child) /\ Body(c, c') /\ c'.act = c.act /\ c'.up = c.up
      /\ c.mode = "modern" /\ Head(c.down) \in Messages
      /\ 1 \in DOMAIN c.down /\ Head(c.down) = c.down[1]
      /\ \A k \in DOMAIN c'.down :
            k \in Nat \ {0} /\ k + 1 \in DOMAIN c.down /\ c'.down[k] = c.down[k + 1]
    BY <1>1, TakeCore
<1>3. child \in Child /\ Head(c.down).id \in Nat
    BY <1>2 DEF Good, Core, Messages
<1>4. /\ child' \in Child /\ child'.doc = child.doc /\ child'.cur = Head(c.down).id
      /\ child'.stage = "preparing"
    BY <1>1, <1>3 DEF Child, Stages
<1>5. child.cur < Head(c.down).id /\ Head(c.down).id <= c.serial
    BY <1>1, <1>2 DEF Good, Core, Queued, Sized
<1>6. Sized(c', child')
    BY <1>2, <1>4, <1>5 DEF Good, Core, Sized, Body
<1>7. Queued(c', child')
    <2>1. \A k \in DOMAIN c'.down : c'.down[k].type = "PREPARE" => Head(c.down).id < c'.down[k].id
        <3>1. SUFFICES ASSUME NEW k \in DOMAIN c'.down, c'.down[k].type = "PREPARE"
                       PROVE  Head(c.down).id < c'.down[k].id
            OBVIOUS
        <3>2. 1 < k + 1 /\ k + 1 \in DOMAIN c.down /\ c'.down[k] = c.down[k + 1]
            BY <1>2
        <3> QED BY <1>1, <1>2, <3>1, <3>2 DEF Good, Core, Queued
    <2> QED BY <1>2, <1>4, <2>1 DEF Good, Core, Queued
<1>8. Linked(c', child')
    <2>1. c'.act.id # 0 => ~Drawn(c', child)
        <3>1. /\ c'.act.id \in {0, c'.serial} /\ c.serial \in Nat /\ child.cur \in Nat
              /\ c'.serial = c.serial
            BY <1>2, <1>3 DEF Good, Core, Sized, Client, Body, Child
        <3> QED BY <1>3, <1>5, <3>1 DEF Drawn
    <2> QED BY <1>2, <1>4, <2>1 DEF Good, Core, Linked, Drawn
<1> QED BY <1>2, <1>4, <1>6, <1>7, <1>8 DEF Good, Core

LEMMA PresentGood ==
    ASSUME Good(c, child), OnPresent
    PROVE  Good(c', child')
<1> DEFINE m == Head(c.down)
<1>1. /\ c.down # <<>> /\ m.type = "PRESENT" /\ c' = [c EXCEPT !.down = Tail(@)]
      /\ child' = IF m.id = child.cur THEN [child EXCEPT !.stage = "presenting"] ELSE child
    BY DEF OnPresent, Command
<1>2. /\ Good(c', child) /\ Body(c, c') /\ c'.act = c.act /\ c'.up = c.up
      /\ c.mode = "modern" /\ m \in Messages /\ 1 \in DOMAIN c.down /\ m = c.down[1]
      /\ \A k \in DOMAIN c'.down :
            k \in Nat \ {0} /\ k + 1 \in DOMAIN c.down /\ c'.down[k] = c.down[k + 1]
    BY <1>1, TakeCore
<1>3. CASE m.id # child.cur
    BY <1>1, <1>2, <1>3
<1>4. CASE m.id = child.cur
    <2>1. child \in Child
        BY DEF Good, Core
    <2>2. /\ child' \in Child /\ child'.doc = child.doc /\ child'.cur = child.cur
          /\ child'.stage = "presenting"
        BY <1>1, <1>4, <2>1 DEF Child, Stages
    <2>3. Sized(c', child') /\ Queued(c', child')
        BY <1>2, <2>2 DEF Good, Core, Sized, Queued
    <2>4. child.cur = c.act.id /\ c.act.id # 0 =>
             /\ c.act.state # "PREPARING" /\ child.stage # "drawn"
             /\ ~Has(c'.down, "PRESENT", c.act.id)
        <3>1. SUFFICES ASSUME child.cur = c.act.id, c.act.id # 0
                       PROVE  /\ c.act.state # "PREPARING" /\ child.stage # "drawn"
                              /\ ~Has(c'.down, "PRESENT", c.act.id)
            OBVIOUS
        <3>2. Has(c.down, "PRESENT", c.act.id)
            BY <1>1, <1>2, <1>4, <3>1 DEF Has
        <3>3. c.act.state # "PREPARING" /\ child.stage # "drawn"
            BY <3>1, <3>2 DEF Good, Core, Linked
        <3>4. ASSUME NEW k \in DOMAIN c'.down,
                     c'.down[k].type = "PRESENT", c'.down[k].id = c.act.id
              PROVE  FALSE
            <4>1. c.down \in Seq(Messages)
                BY DEF Good, Core, Client
            <4>2. k \in Nat \ {0} /\ k + 1 \in DOMAIN c.down /\ c.down[k + 1] = c'.down[k]
                BY <1>2
            <4>3. c.down[k + 1] \in Messages
                BY <4>1, <4>2
            <4>4. /\ c.down[k + 1] = Message("PRESENT", c.act.id)
                  /\ c.down[1] = Message("PRESENT", c.act.id)
                BY <1>1, <1>2, <1>4, <3>1, <3>4, <4>2, <4>3, MessageIs
            <4>5. k + 1 = 1
                BY <1>2, <3>1, <4>2, <4>4 DEF Good, Core, Queued
            <4> QED BY <4>2, <4>5
        <3> QED BY <3>3, <3>4 DEF Has
    <2>5. Linked(c', child')
        BY <1>2, <2>2, <2>4 DEF Good, Core, Linked, Drawn
    <2> QED BY <1>2, <2>2, <2>3, <2>5 DEF Good, Core
<1> QED BY <1>3, <1>4

(* The child lets go of a section that is over. *)
LEMMA EmptyCore ==
    ASSUME NEW s, NEW old, Good(s, old), NEW ch \in Child, ch.cur = 0, ch.doc \in {0, old.doc},
           s.act.id # 0 /\ Drawn(s, old) => s.act.state \notin Live
    PROVE  Good(s, ch)
<1>1. s.serial \in Nat /\ s.epoch \in Nat /\ old.cur \in Nat /\ s.act.id \in Nat
    BY DEF Good, Core, Client, Child, Act
<1>2. Sized(s, ch)
    BY <1>1 DEF Good, Core, Sized
<1>3. Queued(s, ch)
    <2>1. \A k \in DOMAIN s.down : s.down[k].id \in Nat
        <3>1. s.down \in Seq(Messages)
            BY DEF Good, Core, Client
        <3>2. \A x \in Messages : x.id \in Nat
            BY DEF Messages
        <3> QED BY <3>1, <3>2
    <2>2. \A k \in DOMAIN s.down : s.down[k].type = "PREPARE" => 0 < s.down[k].id
        BY <1>1, <2>1 DEF Good, Core, Queued
    <2> QED BY <2>2 DEF Good, Core, Queued
<1>4. Linked(s, ch)
    BY DEF Good, Core, Linked, Live
<1> QED BY <1>2, <1>3, <1>4 DEF Good, Core

LEMMA EmptyIs ==
    ASSUME child \in Child
    PROVE  /\ Empty \in Child /\ Empty.cur = 0 /\ Empty.doc = child.doc
           /\ [Empty EXCEPT !.doc = 0] \in Child
           /\ [Empty EXCEPT !.doc = 0].cur = 0 /\ [Empty EXCEPT !.doc = 0].doc = 0
BY DEF Empty, Child, Stages

LEMMA ReleaseGood ==
    ASSUME Good(c, child), OnRelease
    PROVE  Good(c', child')
<1> DEFINE m == Head(c.down)
<1>1. /\ c.down # <<>> /\ m.type = "RELEASE" /\ c' = [c EXCEPT !.down = Tail(@)]
      /\ child' = IF m.id = child.cur THEN Empty ELSE child
    BY DEF OnRelease, Command
<1>2. /\ Good(c', child) /\ c'.act = c.act /\ 1 \in DOMAIN c.down /\ m = c.down[1]
    BY <1>1, TakeCore
<1>3. CASE m.id # child.cur
    BY <1>1, <1>2, <1>3
<1>4. CASE m.id = child.cur
    <2>1. /\ Empty \in Child /\ Empty.cur = 0 /\ Empty.doc = child.doc
        BY EmptyIs DEF Good, Core
    <2>2. c'.act.id # 0 /\ Drawn(c', child) => c'.act.state \notin Live
        <3>1. SUFFICES ASSUME c.act.id # 0, child.cur = c.act.id
                       PROVE  c.act.state \notin Live
            BY <1>2 DEF Drawn
        <3>2. Has(c.down, "RELEASE", c.act.id)
            BY <1>1, <1>2, <1>4, <3>1 DEF Has
        <3> QED BY <3>1, <3>2 DEF Good, Core, Queued, Live
    <2> QED BY <1>1, <1>2, <1>4, <2>1, <2>2, EmptyCore
<1> QED BY <1>3, <1>4

(* A command that is answered at once. *)
LEMMA AnswerGood ==
    ASSUME Good(c, child), c.down # <<>>, NEW type \in Types \ {"PRESENTED"},
           Answer(Plain(type)), child' \in Child, child'.doc = child.doc,
           child'.cur = child.cur, child'.stage = child.stage
    PROVE  Good(c', child')
<1> DEFINE t == [c EXCEPT !.down = Tail(@)]
<1>1. Good(t, child) /\ Body(c, t) /\ c.mode = "modern"
    BY TakeCore
<1>2. c' = [t EXCEPT !.up = Append(@, Plain(type))]
    BY DEF Answer, Good, Core, Client
<1> HIDE DEF t
<1>3. t.serial \in Nat
    BY <1>1 DEF Good, Core, Client
<1> QED BY <1>1, <1>2, <1>3, PlainIs, PostCore DEF Body

LEMMA DisposeGood ==
    ASSUME Good(c, child), OnDispose
    PROVE  Good(c', child')
<1> DEFINE t == [c EXCEPT !.down = Tail(@)]
<1>1. /\ c.down # <<>> /\ Head(c.down).type = "DISPOSE" /\ Answer(Plain("DISPOSED"))
      /\ child' = [Empty EXCEPT !.doc = 0]
    BY DEF OnDispose, Command
<1>2. /\ Good(t, child) /\ Body(c, t) /\ t.act = c.act /\ c.mode = "modern"
      /\ 1 \in DOMAIN c.down /\ Head(c.down) = c.down[1]
    BY <1>1, TakeCore
<1>3. c' = [t EXCEPT !.up = Append(@, Plain("DISPOSED"))]
    BY <1>1 DEF Answer, Good, Core, Client
<1> HIDE DEF t
<1>4. child' \in Child /\ child'.cur = 0 /\ child'.doc = 0
    BY <1>1, EmptyIs DEF Good, Core
<1>5. t.act.state \notin Live
    BY <1>1, <1>2 DEF Good, Core, Queued, Evicted
<1>6. Good(t, child')
    BY <1>2, <1>4, <1>5, EmptyCore
<1>7. t.serial \in Nat
    BY <1>2 DEF Good, Core, Client
<1> QED BY <1>2, <1>3, <1>4, <1>6, <1>7, PlainIs, PostCore DEF Body, Types

LEMMA ChildReceiveGood ==
    ASSUME Good(c, child), ChildReceives
    PROVE  Good(c', child')
<1>1. child \in Child
    BY DEF Good, Core
<1>2. ASSUME OnInit PROVE Good(c', child')
    <2>1. /\ child' \in Child /\ child'.doc = child.doc /\ child'.cur = child.cur
          /\ child'.stage = child.stage
        BY <1>1, <1>2 DEF OnInit, Child
    <2> QED BY <1>2, <2>1, AnswerGood DEF OnInit, Command, Types
<1>3. ASSUME OnSuspendDocument PROVE Good(c', child')
    <2>1. /\ child' \in Child /\ child'.doc = child.doc /\ child'.cur = child.cur
          /\ child'.stage = child.stage
        BY <1>1, <1>3 DEF OnSuspendDocument, Child
    <2> QED BY <1>3, <2>1, AnswerGood DEF OnSuspendDocument, Command, Types
<1>4. ASSUME OnResumeDocument PROVE Good(c', child')
    <2>1. /\ child' \in Child /\ child'.doc = child.doc /\ child'.cur = child.cur
          /\ child'.stage = child.stage
        BY <1>1, <1>4 DEF OnResumeDocument, Child
    <2> QED BY <1>4, <2>1, AnswerGood DEF OnResumeDocument, Command, Types
<1> QED BY <1>2, <1>3, <1>4, PrepareGood, PresentGood, ReleaseGood, DisposeGood
        DEF ChildReceives

LEMMA AdoptGood ==
    ASSUME Good(c, child), Adopt
    PROVE  Good(c', child')
<1>1. /\ c.mode = "offering" /\ child.doc # c.epoch
      /\ child' = [child EXCEPT !.doc = c.epoch]
      /\ c' = [c EXCEPT !.mode = "modern", !.down = <<Plain("INIT")>>]
    BY DEF Adopt
<1>2. Plain("INIT") \in Messages /\ Plain("INIT").type = "INIT" /\ Plain("INIT").id = 0
    BY PlainIs DEF Types
<1>3. c \in Client /\ child \in Child /\ c.epoch \in Nat \ {0} /\ c.serial \in Nat
    BY DEF Good, Core, Client
<1>4. /\ c' \in Client /\ c'.mode = "modern" /\ c'.epoch = c.epoch /\ c'.act = c.act
      /\ c'.serial = c.serial /\ c'.evict = c.evict /\ c'.timers = c.timers
      /\ c'.pending = c.pending /\ c'.lost = c.lost /\ c'.visible = c.visible
      /\ c'.down = <<Plain("INIT")>> /\ c'.up = c.up
    <2>1. <<Plain("INIT")>> \in Seq(Messages) /\ "modern" \in Modes
        BY <1>2 DEF Modes
    <2> QED BY <1>1, <1>3, <2>1 DEF Client
<1>5. /\ child' \in Child /\ child'.doc = c.epoch /\ child'.cur = child.cur
      /\ child'.stage = child.stage
    BY <1>1, <1>3 DEF Child
<1>6. \A k \in DOMAIN c'.down : c'.down[k].type = "INIT" /\ c'.down[k].id = 0
    BY <1>2, <1>4
<1>7. c.up = <<>>
    BY <1>1 DEF Good, Core, Queued
<1>8. Sized(c', child')
    BY <1>3, <1>4, <1>5, <1>6 DEF Good, Core, Sized
<1>9. Timed(c')
    BY <1>4 DEF Good, Core, Timed
<1>10. Queued(c', child')
    <2>1. \A k \in DOMAIN c'.down : c'.down[k] # Message("PRESENT", c'.act.id)
        BY <1>6 DEF Message
    <2> QED BY <1>4, <1>6, <2>1 DEF Queued, Has
<1>11. Linked(c', child')
    <2>1. c.act.id # 0 => c.act.proof # <<c.epoch, c.act.id>>
        BY <1>1, <1>3 DEF Good, Core, Sized
    <2> QED BY <1>4, <1>5, <1>6, <1>7, <2>1 DEF Good, Core, Linked, Has
<1>12. Evicted(c') /\ Shown(c')
    BY <1>1, <1>4 DEF Good, Evicted, Shown
<1> QED BY <1>4, <1>5, <1>8, <1>9, <1>10, <1>11, <1>12 DEF Good, Core

LEMMA ChildActGood ==
    ASSUME Good(c, child), ChildActs
    PROVE  Good(c', child')
<1>1. /\ child \in Child /\ child.cur \in Nat /\ c.serial \in Nat /\ child.cur <= c.serial
      /\ Connected => c.mode = "modern" /\ child.doc = c.epoch
    BY DEF Good, Core, Client, Child, Sized, Connected
<1>2. \A type \in Types :
         /\ Message(type, child.cur) \in Messages /\ Message(type, child.cur).type = type
         /\ Message(type, child.cur).id = child.cur
    BY <1>1 DEF Message, Messages
<1>3. ASSUME Applied PROVE Good(c', child')
    <2>1. /\ Connected /\ child.stage = "preparing" /\ Post(Message("APPLIED", child.cur))
          /\ child' \in Child /\ child'.doc = child.doc /\ child'.cur = child.cur
          /\ child'.stage = "applied"
        BY <1>1, <1>3 DEF Applied, Progress, Child, Stages
    <2> QED BY <1>1, <1>2, <2>1, PostCore DEF Post, Types
<1>4. ASSUME Presented PROVE Good(c', child')
    <2>1. /\ Connected /\ child.stage = "presenting" /\ Post(Message("PRESENTED", child.cur))
          /\ child' \in Child /\ child'.doc = child.doc /\ child'.cur = child.cur
          /\ child'.stage = "drawn"
        BY <1>1, <1>4 DEF Presented, Progress, Child, Stages
    <2> QED BY <1>1, <1>2, <2>1, PostCore DEF Post, Types
<1>5. ASSUME SectionFails PROVE Good(c', child')
    <2>1. Connected /\ Post(Message("ERROR", child.cur)) /\ child' = child
        BY <1>5 DEF SectionFails
    <2> QED BY <1>1, <1>2, <2>1, PostCore DEF Post, Types
<1>6. ASSUME LoseContext PROVE Good(c', child')
    <2>1. /\ Connected /\ Post(Plain("CONTEXT_LOST"))
          /\ child' \in Child /\ child'.doc = child.doc /\ child'.cur = child.cur
          /\ child'.stage = child.stage
        BY <1>1, <1>6 DEF LoseContext, Child
    <2> QED BY <1>1, <2>1, PlainIs, PostCore DEF Post, Types
<1>7. ASSUME RestoreContext PROVE Good(c', child')
    <2>1. /\ Connected /\ Post(Plain("CONTEXT_RESTORED"))
          /\ child' \in Child /\ child'.doc = child.doc /\ child'.cur = child.cur
          /\ child'.stage = child.stage
        BY <1>1, <1>7 DEF RestoreContext, Child
    <2> QED BY <1>1, <2>1, PlainIs, PostCore DEF Post, Types
<1> QED BY <1>3, <1>4, <1>5, <1>6, <1>7, AdoptGood DEF ChildActs

-----------------------------------------------------------------------------
(* The debt of a suspend.  Most operators are neutral: they neither incur nor *)
(* pay it, and send nothing that suspends or wakes.                           *)
Agrees(s, ch) ==
    s.mode = "modern" /\ ch.doc = s.epoch /\ s.evict \in {"none", "grace"}
        => (s.owes <=> Quiesced(ch.suspended, s.down))

Owed(s, ch) == Agrees(s, ch) /\ (s.mode = "offering" => ~s.owes)

Neutral(s, t) ==
    /\ t.mode = s.mode /\ t.epoch = s.epoch /\ t.owes = s.owes /\ t.evict = s.evict
    /\ \A b \in BOOLEAN : Quiesced(b, t.down) <=> Quiesced(b, s.down)

LEMMA NeutralKeeps ==
    ASSUME NEW s, NEW t, NEW ch \in Child, Neutral(s, t), Owed(s, ch)
    PROVE  Owed(t, ch)
<1>1. ch.suspended \in BOOLEAN
    BY DEF Child
<1> QED BY <1>1 DEF Neutral, Owed, Agrees

LEMMA NeutralChain ==
    ASSUME NEW s, NEW t, NEW u, Neutral(s, t), Neutral(t, u)
    PROVE  Neutral(s, u)
BY DEF Neutral

LEMMA NeutralBody ==
    ASSUME NEW s, NEW t, Body(s, t), t.down = s.down
    PROVE  Neutral(s, t)
BY DEF Body, Neutral

LEMMA QuiescedAppend ==
    ASSUME NEW q \in Seq(Messages), NEW m \in Messages, NEW b \in BOOLEAN
    PROVE  /\ m.type \notin {"RESUME", "INIT", "SUSPEND"} =>
                (Quiesced(b, Append(q, m)) <=> Quiesced(b, q))
           /\ m.type = "SUSPEND" => Quiesced(b, Append(q, m))
           /\ m.type = "RESUME" => ~Quiesced(b, Append(q, m))
<1> DEFINE r == Append(q, m)
<1> DEFINE n == Len(q) + 1
<1>1. /\ Len(q) \in Nat /\ DOMAIN q = 1..Len(q) /\ DOMAIN r = 1..n
      /\ \A k \in 1..Len(q) : r[k] = q[k]
      /\ r[n] = m
    OBVIOUS
<1> HIDE DEF r
<1>2. n \in DOMAIN r /\ \A k \in DOMAIN r : k = n \/ (k \in DOMAIN q /\ k < n)
    BY <1>1
<1>3. \A k \in DOMAIN q : k \in DOMAIN r /\ k < n /\ r[k] = q[k]
    BY <1>1
<1>4. \A k \in DOMAIN r : ~(k > n)
    BY <1>1
<1> HIDE DEF n
<1>5. ASSUME m.type \notin {"RESUME", "INIT", "SUSPEND"}
      PROVE  Quiesced(b, r) <=> Quiesced(b, q)
    BY <1>1, <1>2, <1>3, <1>4, <1>5 DEF Quiesced
<1>6. ASSUME m.type = "SUSPEND" PROVE Quiesced(b, r)
    BY <1>1, <1>2, <1>4, <1>6 DEF Quiesced
<1>7. ASSUME m.type = "RESUME" PROVE ~Quiesced(b, r)
    <2>1. n \in DOMAIN r /\ r[n].type = "RESUME"
        BY <1>1, <1>2, <1>7
    <2>2. \A k \in DOMAIN r : r[k].type = "SUSPEND" => n > k
        <3>1. \A k \in DOMAIN r : k \in Nat
            BY <1>1
        <3>2. n \in Nat
            BY <1>1 DEF n
        <3> QED BY <1>1, <1>2, <1>7, <3>1, <3>2
    <2> QED BY <2>1, <2>2 DEF Quiesced
<1> QED BY <1>5, <1>6, <1>7 DEF r

LEMMA QuiescedTail ==
    ASSUME NEW q \in Seq(Messages), q # <<>>, NEW b \in BOOLEAN
    PROVE  /\ Head(q).type = "SUSPEND" => (Quiesced(b, q) <=> Quiesced(TRUE, Tail(q)))
           /\ Head(q).type \in {"INIT", "RESUME"} => (Quiesced(b, q) <=> Quiesced(FALSE, Tail(q)))
           /\ Head(q).type \notin {"SUSPEND", "INIT", "RESUME"} =>
                (Quiesced(b, q) <=> Quiesced(b, Tail(q)))
<1> DEFINE r == Tail(q)
<1> DEFINE Wakes(m) == m.type \in {"RESUME", "INIT"}
<1> DEFINE Last(p) == \E k \in DOMAIN p : /\ p[k].type = "SUSPEND"
                                          /\ \A j \in DOMAIN p : j > k => ~Wakes(p[j])
<1> DEFINE Calm(p) == \A k \in DOMAIN p : ~Wakes(p[k])
<1>1. /\ Head(q) = q[1] /\ 1 \in DOMAIN q
      /\ \A k \in DOMAIN r : k \in Nat /\ k + 1 \in DOMAIN q /\ k + 1 > 1 /\ r[k] = q[k + 1]
      /\ \A k \in DOMAIN q : k \in Nat /\ (k = 1 \/ (k > 1 /\ k - 1 \in DOMAIN r /\ r[k - 1] = q[k]))
    <2>1. Len(q) \in Nat /\ Len(q) # 0 /\ DOMAIN q = 1..Len(q)
        OBVIOUS
    <2>2. DOMAIN r = 1..(Len(q) - 1) /\ \A k \in 1..(Len(q) - 1) : r[k] = q[k + 1]
        BY <2>1
    <2> QED BY <2>1, <2>2
<1> HIDE DEF r
<1>2. Calm(q) <=> Calm(r) /\ ~Wakes(q[1])
    BY <1>1
<1>3. Last(r) => Last(q)
    <2>1. SUFFICES ASSUME NEW k \in DOMAIN r, r[k].type = "SUSPEND",
                          \A j \in DOMAIN r : j > k => ~Wakes(r[j])
                   PROVE  Last(q)
        OBVIOUS
    <2>2. k + 1 \in DOMAIN q /\ q[k + 1].type = "SUSPEND"
        BY <1>1, <2>1
    <2>3. ASSUME NEW j \in DOMAIN q, j > k + 1 PROVE ~Wakes(q[j])
        <3>1. j - 1 \in DOMAIN r /\ j - 1 > k /\ r[j - 1] = q[j]
            BY <1>1, <2>3
        <3> QED BY <2>1, <3>1
    <2> QED BY <2>2, <2>3
<1>4. Last(q) => Last(r) \/ (q[1].type = "SUSPEND" /\ Calm(r))
    <2>1. SUFFICES ASSUME NEW k \in DOMAIN q, q[k].type = "SUSPEND",
                          \A j \in DOMAIN q : j > k => ~Wakes(q[j])
                   PROVE  Last(r) \/ (q[1].type = "SUSPEND" /\ Calm(r))
        OBVIOUS
    <2>2. CASE k = 1
        BY <1>1, <2>1, <2>2
    <2>3. CASE k # 1
        <3>1. k - 1 \in DOMAIN r /\ r[k - 1].type = "SUSPEND"
            BY <1>1, <2>1, <2>3
        <3>2. ASSUME NEW j \in DOMAIN r, j > k - 1 PROVE ~Wakes(r[j])
            BY <1>1, <2>1, <3>2
        <3> QED BY <3>1, <3>2
    <2> QED BY <2>2, <2>3
<1>5. q[1].type = "SUSPEND" /\ Calm(r) => Last(q)
    <2>1. SUFFICES ASSUME q[1].type = "SUSPEND", Calm(r) PROVE Last(q)
        OBVIOUS
    <2>2. \A j \in DOMAIN q : j > 1 => ~Wakes(q[j])
        BY <1>1, <2>1
    <2> QED BY <1>1, <2>1, <2>2
<1>6. \A a \in BOOLEAN : \A p : Quiesced(a, p) <=> (a /\ Calm(p)) \/ Last(p)
    BY DEF Quiesced
<1> HIDE DEF Last, Calm
<1> QED BY <1>1, <1>2, <1>3, <1>4, <1>5, <1>6 DEF r

LEMMA NeutralSend ==
    ASSUME NEW s \in Client, NEW m \in Messages, m.type \notin {"RESUME", "INIT", "SUSPEND"}
    PROVE  Neutral(s, Send(s, m))
<1>1. Body(s, Send(s, m)) /\ Send(s, m).down \in {s.down, Append(s.down, m)}
    BY SendFields
<1>2. s.down \in Seq(Messages)
    BY DEF Client
<1>3. \A b \in BOOLEAN : Quiesced(b, Append(s.down, m)) <=> Quiesced(b, s.down)
    BY <1>2, QuiescedAppend
<1>4. \A b \in BOOLEAN : Quiesced(b, Send(s, m).down) <=> Quiesced(b, s.down)
    <2>1. CASE Send(s, m).down = s.down
        BY <2>1
    <2>2. CASE Send(s, m).down = Append(s.down, m)
        BY <1>3, <2>2
    <2> QED BY <1>1, <2>1, <2>2
<1> QED BY <1>1, <1>4 DEF Neutral, Body

LEMMA NeutralActivation ==
    ASSUME NEW s \in Client, NEW event \in Events
    PROVE  Neutral(s, Activation(s, event)) /\ Activation(s, event) \in Client
<1>1. Body(s, Activation(s, event)) /\ Ports(s, Activation(s, event))
    BY ActivationFields
<1> QED BY <1>1, NeutralBody DEF Ports, Body

LEMMA NeutralClear ==
    ASSUME NEW s \in Client, NEW ts \in SUBSET Timers
    PROVE  Neutral(s, Clear(s, ts)) /\ Clear(s, ts) \in Client
<1>1. Body(s, Clear(s, ts)) /\ Ports(s, Clear(s, ts))
    BY ClearFields
<1> QED BY <1>1, NeutralBody DEF Ports, Body

LEMMA NeutralArm ==
    ASSUME NEW s \in Client, NEW t \in Timers
    PROVE  Neutral(s, Arm(s, t)) /\ Arm(s, t) \in Client
<1>1. Body(s, Arm(s, t)) /\ Ports(s, Arm(s, t))
    BY ArmFields
<1> QED BY <1>1, NeutralBody DEF Ports, Body

LEMMA NeutralDocument ==
    ASSUME NEW s \in Client, NEW event
    PROVE  Neutral(s, Document(s, event)) /\ Document(s, event) \in Client
BY DocumentFields DEF Ports, Neutral

LEMMA NeutralRead ==
    ASSUME c \in Client, c.up # <<>>
    PROVE  Neutral(c, Rest) /\ Rest \in Client
<1>1. c.up \in Seq(Messages)
    BY DEF Client
<1>2. Tail(c.up) \in Seq(Messages)
    BY <1>1, TailFacts
<1> QED BY <1>2 DEF Client, Rest, Neutral

LEMMA NeutralRelease ==
    ASSUME NEW s \in Client
    PROVE  Neutral(s, Release(s)) /\ Release(s) \in Client
<1> DEFINE r == Send(s, Message("RELEASE", s.act.id))
<1>1. CASE s.act.state \in Live \cup {"FAILED"}
    <2>1. /\ Message("RELEASE", s.act.id) \in Messages
          /\ Message("RELEASE", s.act.id).type = "RELEASE"
        BY DEF Client, Act, Message, Messages, Types
    <2>2. Neutral(s, r) /\ r \in Client
        BY <2>1, NeutralSend, SendFields DEF Body
    <2>3. Neutral(r, Activation(r, "RELEASE")) /\ Activation(r, "RELEASE") \in Client
        BY <2>2, NeutralActivation DEF Events
    <2>4. Release(s) = Activation(r, "RELEASE")
        BY <1>1 DEF Release
    <2> HIDE DEF r
    <2> QED BY <2>2, <2>3, <2>4, NeutralChain
<1>2. CASE s.act.state \notin Live \cup {"FAILED"}
    BY <1>2 DEF Release, Neutral
<1> QED BY <1>1, <1>2

LEMMA NeutralActivate ==
    ASSUME NEW s \in Client
    PROVE  Neutral(s, ActivateModern(s))
<1> DEFINE a == Clear(s, {"handshake", "prepare", "present"})
<1> DEFINE r == Release(a)
<1> DEFINE id == r.serial + 1
<1> DEFINE act == [id |-> id, state |-> "PREPARING", proof |-> NoProof]
<1> DEFINE n == [r EXCEPT !.serial = id, !.visible = FALSE, !.act = act]
<1> DEFINE m == Message("PREPARE", id)
<1> DEFINE d == Send(n, m)
<1>1. Neutral(s, a) /\ a \in Client
    <2>1. {"handshake", "prepare", "present"} \in SUBSET Timers
        BY DEF Timers
    <2> QED BY <2>1, NeutralClear
<1>2. ActivateModern(s) = Arm(d, "prepare")
    BY DEF ActivateModern
<1> HIDE DEF a
<1>3. Neutral(a, r) /\ r \in Client
    BY <1>1, NeutralRelease
<1> HIDE DEF r
<1>4. id \in Nat
    BY <1>3 DEF Client
<1>5. act \in Act
    BY <1>4 DEF Act, NoProof, ActivationStates, Live
<1>6. m \in Messages /\ m.type = "PREPARE"
    BY <1>4 DEF Message, Messages, Types
<1> HIDE DEF id, act, m
<1>7. Neutral(r, n) /\ n \in Client
    BY <1>3, <1>4, <1>5 DEF Client, Neutral
<1> HIDE DEF n
<1>8. Neutral(n, d) /\ d \in Client
    BY <1>6, <1>7, NeutralSend, SendFields DEF Body
<1> HIDE DEF d
<1>9. Neutral(d, Arm(d, "prepare"))
    BY <1>8, NeutralArm DEF Timers
<1> QED BY <1>1, <1>2, <1>3, <1>7, <1>8, <1>9 DEF Neutral

LEMMA NeutralRedrive ==
    ASSUME NEW s \in Client
    PROVE  Neutral(s, Redrive(s))
<1>1. Neutral(s, s)
    BY DEF Neutral
<1> QED BY <1>1, NeutralActivate DEF Redrive

LEMMA NeutralReveal ==
    ASSUME NEW s \in Client
    PROVE  Neutral(s, Reveal(s))
<1> DEFINE a == Activation(s, "ACTIVATE")
<1>1. Neutral(s, a) /\ a \in Client
    BY NeutralActivation DEF Events
<1> HIDE DEF a
<1>2. Neutral(a, [a EXCEPT !.visible = TRUE])
    BY <1>1 DEF Client, Neutral
<1>3. Neutral(s, s)
    BY DEF Neutral
<1> QED BY <1>1, <1>2, <1>3, NeutralChain DEF Reveal, a

LEMMA NeutralPresent ==
    ASSUME NEW s \in Client
    PROVE  Neutral(s, SendPresent(s))
<1> DEFINE m == Message("PRESENT", s.act.id)
<1> DEFINE d == Send(s, m)
<1> DEFINE b == Activation(d, "PRESENT")
<1>1. m \in Messages /\ m.type = "PRESENT"
    BY DEF Client, Act, Message, Messages, Types
<1>2. SendPresent(s) = Arm(b, "present")
    BY DEF SendPresent
<1> HIDE DEF m
<1>3. Neutral(s, d) /\ d \in Client
    BY <1>1, NeutralSend, SendFields DEF Body
<1> HIDE DEF d
<1>4. Neutral(d, b) /\ b \in Client
    BY <1>3, NeutralActivation DEF Events
<1> HIDE DEF b
<1>5. Neutral(b, Arm(b, "present"))
    BY <1>4, NeutralArm DEF Timers
<1> QED BY <1>2, <1>3, <1>4, <1>5 DEF Neutral

LEMMA NeutralFail ==
    ASSUME NEW s \in Client
    PROVE  Neutral(s, FailModern(s))
<1> DEFINE a == Clear(s, {"handshake", "prepare", "present"})
<1> DEFINE b == Activation(a, "FAIL")
<1> DEFINE t == FailModern(s)
<1>1. Neutral(s, a) /\ a \in Client
    <2>1. {"handshake", "prepare", "present"} \in SUBSET Timers
        BY DEF Timers
    <2> QED BY <2>1, NeutralClear
<1>2. t = [b EXCEPT !.pending = FALSE, !.strikes = IF @ < Threshold THEN @ + 1 ELSE @,
                    !.failed = TRUE, !.visible = FALSE]
    BY DEF FailModern
<1> HIDE DEF a, t
<1>3. Neutral(a, b) /\ b \in Client
    BY <1>1, NeutralActivation DEF Events
<1> HIDE DEF b
<1>4. Neutral(b, t)
    BY <1>2, <1>3 DEF Client, Neutral
<1> QED BY <1>1, <1>3, <1>4 DEF Neutral, t

LEMMA SettleOwed ==
    ASSUME NEW s \in Client, NEW ch \in Child, Owed(s, ch)
    PROVE  Owed(SettleEviction(s), ch)
<1>1. CASE s.evict \notin {"grace", "disposing"}
    BY <1>1 DEF SettleEviction
<1>2. CASE s.evict \in {"grace", "disposing"}
    <2> DEFINE a == Clear(s, {"grace", "dispose"})
    <2> DEFINE b == Document(a, "EVICT")
    <2>1. a \in Client
        <3>1. {"grace", "dispose"} \in SUBSET Timers
            BY DEF Timers
        <3> QED BY <3>1, NeutralClear
    <2>2. SettleEviction(s) = [b EXCEPT !.evict = "evicted", !.owes = FALSE, !.mode = "closed",
                                        !.act = NoActivation, !.down = <<>>, !.up = <<>>]
        BY <1>2 DEF SettleEviction
    <2> HIDE DEF a
    <2>3. b \in Client
        BY <2>1, NeutralDocument
    <2> HIDE DEF b
    <2>4. SettleEviction(s).mode = "closed"
        BY <2>2, <2>3 DEF Client
    <2> QED BY <2>4 DEF Owed, Agrees
<1> QED BY <1>1, <1>2

LEMMA SuspendOwed ==
    ASSUME NEW s \in Client, child \in Child, Owed(s, child)
    PROVE  Owed(Suspend(s), child) /\ Suspend(s) \in Client
<1> DEFINE m == Plain("SUSPEND")
<1> DEFINE r == Send(s, m)
<1>1. CASE ~ModernActive(s)
    BY <1>1 DEF Suspend
<1>2. CASE ModernActive(s)
    <2>1. m \in Messages /\ m.type = "SUSPEND"
        BY PlainIs DEF Types
    <2>2. Suspend(s) = [r EXCEPT !.owes = TRUE]
        BY <1>2 DEF Suspend
    <2>3. /\ Body(s, r) /\ r.down \in {s.down, Append(s.down, m)}
          /\ child.doc = s.epoch => r.down = Append(s.down, m)
        <3>1. Body(s, r) /\ r.down \in {s.down, Append(s.down, m)}
            BY <2>1, SendFields
        <3>2. child.doc = s.epoch => r.down = Append(s.down, m)
            BY <1>2 DEF ModernActive, Send, Client
        <3> QED BY <3>1, <3>2
    <2> HIDE DEF m, r
    <2>4. /\ Suspend(s) \in Client /\ Suspend(s).mode = "modern" /\ Suspend(s).owes
          /\ Suspend(s).epoch = s.epoch /\ Suspend(s).down = r.down
        <3>1. r \in Client /\ r.mode = "modern" /\ r.epoch = s.epoch
            BY <1>2, <2>3 DEF Body, ModernActive
        <3>2. [r EXCEPT !.owes = TRUE] \in Client
            BY <3>1 DEF Client
        <3>3. /\ [r EXCEPT !.owes = TRUE].owes /\ [r EXCEPT !.owes = TRUE].mode = r.mode
              /\ [r EXCEPT !.owes = TRUE].epoch = r.epoch /\ [r EXCEPT !.owes = TRUE].down = r.down
            BY <3>1 DEF Client
        <3> QED BY <2>2, <3>1, <3>2, <3>3
    <2>5. child.suspended \in BOOLEAN /\ s.down \in Seq(Messages)
        BY DEF Child, Client
    <2>6. child.doc = s.epoch => Quiesced(child.suspended, Suspend(s).down)
        <3>1. Quiesced(child.suspended, Append(s.down, m))
            BY <2>1, <2>5, QuiescedAppend
        <3> QED BY <2>3, <2>4, <3>1
    <2> QED BY <2>4, <2>6 DEF Owed, Agrees
<1> QED BY <1>1, <1>2

LEMMA PayDebtOwed ==
    ASSUME NEW s \in Client, child \in Child, Agrees(s, child)
    PROVE  Owed(PayDebt(s), child)
<1> DEFINE m == Plain("RESUME")
<1> DEFINE r == Send(s, m)
<1>1. CASE ~s.owes
    BY <1>1 DEF PayDebt, Owed
<1>2. CASE s.owes
    <2>1. m \in Messages /\ m.type = "RESUME"
        BY PlainIs DEF Types
    <2>2. PayDebt(s) = [r EXCEPT !.owes = FALSE]
        BY <1>2 DEF PayDebt
    <2>3. /\ Body(s, r)
          /\ s.mode = "modern" /\ child.doc = s.epoch => r.down = Append(s.down, m)
        <3>1. Body(s, r)
            BY <2>1, SendFields
        <3>2. s.mode = "modern" /\ child.doc = s.epoch => r.down = Append(s.down, m)
            BY DEF Send, Client
        <3> QED BY <3>1, <3>2
    <2> HIDE DEF m, r
    <2>4. /\ PayDebt(s).mode = s.mode /\ ~PayDebt(s).owes
          /\ PayDebt(s).epoch = s.epoch /\ PayDebt(s).down = r.down
        BY <2>2, <2>3 DEF Client, Body
    <2>5. child.suspended \in BOOLEAN /\ s.down \in Seq(Messages)
        BY DEF Child, Client
    <2>6. s.mode = "modern" /\ child.doc = s.epoch
             => ~Quiesced(child.suspended, PayDebt(s).down)
        <3>1. ~Quiesced(child.suspended, Append(s.down, m))
            BY <2>1, <2>5, QuiescedAppend
        <3> QED BY <2>3, <2>4, <3>1
    <2> QED BY <2>4, <2>6 DEF Owed, Agrees
<1> QED BY <1>1, <1>2

LEMMA FallBackOwed ==
    ASSUME Good(c, child)
    PROVE  Owed(FallBack(c), child)
<1> DEFINE d == [c EXCEPT !.mode = "legacy", !.doc = "UNMOUNTED", !.lost = FALSE,
                          !.down = <<>>, !.up = <<>>, !.pending = FALSE]
<1> DEFINE r == PayDebt(d)
<1> DEFINE w == [r EXCEPT !.pending = TRUE]
<1> DEFINE t == ActivateLegacy(w)
<1>1. d.mode = "legacy" /\ Core(d, child)
    <2>1. /\ d \in Client /\ d.mode = "legacy" /\ d.epoch = c.epoch /\ d.act = c.act
          /\ d.serial = c.serial /\ d.evict = c.evict /\ d.timers = c.timers
          /\ d.down = <<>> /\ d.up = <<>>
        <3>1. "legacy" \in Modes /\ "UNMOUNTED" \in DocumentStates /\ <<>> \in Seq(Messages)
            BY DEF Modes, DocumentStates
        <3> QED BY <3>1 DEF Good, Core, Client
    <2> HIDE DEF d
    <2> QED BY <2>1, Quiet DEF Good
<1>2. FallBack(c) = IF c.pending THEN t ELSE d
    BY DEF FallBack
<1> HIDE DEF d
<1>3. r \in Client /\ r.mode = "legacy"
    BY <1>1, PayDebtCore DEF Same
<1> HIDE DEF r
<1>4. w \in Client /\ w.mode = "legacy"
    BY <1>3 DEF Client
<1> HIDE DEF w
<1>5. Clear(w, {"handshake"}) \in Client /\ Clear(w, {"handshake"}).mode = "legacy"
    BY <1>4, NeutralClear, TimerSets DEF Neutral
<1>6. t.mode = "legacy"
    BY <1>5 DEF ActivateLegacy, Client
<1> HIDE DEF t
<1> QED BY <1>1, <1>2, <1>6 DEF Owed, Agrees

LEMMA OwnerOwed ==
    ASSUME Good(c, child), Owed(c, child), OwnerMoves \/ Load
    PROVE  Owed(c', child')
<1>1. c \in Client /\ child \in Child /\ child.doc <= c.epoch /\ child.doc \in Nat /\ c.epoch \in Nat
    BY DEF Good, Core, Sized, Client, Child
<1>2. ASSUME Enter PROVE Owed(c', child')
    <2> DEFINE p == IF c.mode = "legacy" THEN Open(c) ELSE c
    <2> DEFINE o == PayDebt(p)
    <2> DEFINE s == [o EXCEPT !.pending = TRUE, !.wanted = TRUE, !.failed = FALSE,
                              !.tainted = o.lost, !.replaced = FALSE]
    <2> DEFINE h == [s EXCEPT !.visible = FALSE]
    <2> DEFINE a == Clear(h, {"prepare"})
    <2>1. /\ c' = IF ModernActive(s) THEN ActivateModern(s)
                  ELSE IF s.mode = "legacy" THEN ActivateLegacy(s)
                  ELSE Arm(a, "handshake")
          /\ child' = child
        BY <1>2 DEF Enter
    <2>2. p \in Client /\ Core(p, child)
        BY <1>1, OpenCore DEF Good, Core
    <2>3. Agrees(p, child)
        <3>1. Open(c) = c \/ Open(c).mode = "offering"
            BY <1>1, OpenFields
        <3> QED BY <3>1 DEF Owed, Agrees
    <2> HIDE DEF p
    <2>4. Owed(o, child) /\ o \in Client
        BY <1>1, <2>2, <2>3, PayDebtOwed, PayDebtCore DEF Same
    <2> HIDE DEF o
    <2>5. Neutral(o, s) /\ s \in Client
        BY <2>4 DEF Client, Neutral
    <2> HIDE DEF s
    <2>6. Neutral(s, h) /\ h \in Client
        BY <2>5 DEF Client, Neutral
    <2> HIDE DEF h
    <2>7. Neutral(h, a) /\ a \in Client
        BY <2>6, NeutralClear, TimerSets
    <2> HIDE DEF a
    <2>8. Neutral(a, Arm(a, "handshake"))
        BY <2>7, NeutralArm DEF Timers
    <2>9. Neutral(s, ActivateModern(s))
        BY <2>5, NeutralActivate
    <2>10. s.mode = "legacy" => ActivateLegacy(s).mode = "legacy"
        <3>1. Clear(s, {"handshake"}) \in Client /\ Clear(s, {"handshake"}).mode = s.mode
            BY <2>5, NeutralClear, TimerSets DEF Neutral
        <3> QED BY <3>1 DEF ActivateLegacy, Client
    <2>11. Owed(s, child) /\ Owed(h, child) /\ Owed(a, child)
        BY <1>1, <2>4, <2>5, <2>6, <2>7, NeutralKeeps
    <2>12. Owed(Arm(a, "handshake"), child) /\ Owed(ActivateModern(s), child)
        BY <1>1, <2>8, <2>9, <2>11, NeutralKeeps
    <2>13. s.mode = "legacy" => Owed(ActivateLegacy(s), child)
        BY <2>10 DEF Owed, Agrees
    <2> QED BY <2>1, <2>12, <2>13
<1>3. ASSUME Leave PROVE Owed(c', child')
    <2> DEFINE a == Clear(c, {"handshake"})
    <2> DEFINE h == [a EXCEPT !.visible = FALSE, !.pending = FALSE, !.wanted = FALSE, !.v2 = FALSE]
    <2> DEFINE b == Clear(h, {"prepare", "present"})
    <2>1. c' \in {h, Release(b)} /\ child' = child
        BY <1>3 DEF Leave, Deactivate
    <2>2. Neutral(c, a) /\ a \in Client
        BY <1>1, NeutralClear, TimerSets
    <2> HIDE DEF a
    <2>3. Neutral(a, h) /\ h \in Client
        BY <2>2 DEF Client, Neutral
    <2> HIDE DEF h
    <2>4. Neutral(h, b) /\ b \in Client
        BY <2>3, NeutralClear, TimerSets
    <2> HIDE DEF b
    <2>5. Neutral(b, Release(b))
        BY <2>4, NeutralRelease
    <2>6. Neutral(c, h) /\ Neutral(c, Release(b))
        BY <2>2, <2>3, <2>4, <2>5 DEF Neutral
    <2> QED BY <1>1, <2>1, <2>6, NeutralKeeps
<1>4. ASSUME Freeze PROVE Owed(c', child')
    <2> DEFINE s == Suspend(c)
    <2>1. c' = [s EXCEPT !.wanted = FALSE] /\ child' = child
        BY <1>4 DEF Freeze
    <2>2. Owed(s, child) /\ s \in Client
        BY <1>1, SuspendOwed
    <2> HIDE DEF s
    <2>3. Neutral(s, c')
        BY <2>1, <2>2 DEF Client, Neutral
    <2> QED BY <1>1, <2>1, <2>2, <2>3, NeutralKeeps
<1>5. ASSUME Thaw PROVE Owed(c', child')
    BY <1>1, <1>5, PayDebtOwed DEF Thaw, Owed
<1>6. ASSUME Reload \/ Load PROVE Owed(c', child')
    <2> DEFINE a == BumpGeneration(c)
    <2> DEFINE epoch == IF BreakerOpen(c) THEN a.epoch + 1 ELSE a.epoch
    <2> DEFINE doc == IF a.doc = "EVICTED" THEN a.doc ELSE "MOUNTING"
    <2> DEFINE e == [a EXCEPT !.act = NoActivation, !.lost = FALSE, !.v2 = FALSE,
                              !.epoch = epoch, !.doc = doc, !.up = <<>>, !.down = <<>>]
    <2> DEFINE s == HandleFrameLoad(c)
    <2>1. /\ a \in Client /\ ~a.owes /\ a.epoch = c.epoch
          /\ a.mode = "closed" \/ (a.mode = c.mode /\ a.strikes = c.strikes)
        <3> DEFINE b == SettleEviction(c)
        <3>1. b \in Client /\ b.epoch = c.epoch /\ (b = c \/ b.mode = "closed")
            <4>1. Core(b, child) /\ b.epoch = c.epoch
                BY SettleCore DEF Good
            <4>2. CASE c.evict \in {"grace", "disposing"}
                <5> DEFINE d == Document(Clear(c, {"grace", "dispose"}), "EVICT")
                <5>1. d \in Client
                    <6>1. {"grace", "dispose"} \in SUBSET Timers
                        BY DEF Timers
                    <6> QED BY <1>1, <6>1, NeutralClear, NeutralDocument
                <5>2. b = [d EXCEPT !.evict = "evicted", !.owes = FALSE, !.mode = "closed",
                                    !.act = NoActivation, !.down = <<>>, !.up = <<>>]
                    BY <4>2 DEF SettleEviction
                <5> HIDE DEF d, b
                <5>3. b.mode = "closed"
                    BY <5>1, <5>2 DEF Client
                <5> QED BY <4>1, <5>3 DEF Core
            <4>3. CASE c.evict \notin {"grace", "disposing"}
                BY <1>1, <4>3 DEF SettleEviction
            <4> QED BY <4>2, <4>3
        <3>2. a = [b EXCEPT !.timers = {}, !.owes = FALSE]
            BY DEF BumpGeneration
        <3> HIDE DEF b, a
        <3> QED BY <3>1, <3>2 DEF Client
    <2>2. s = Open(e)
        BY DEF HandleFrameLoad
    <2> HIDE DEF a
    <2>3. /\ e \in Client /\ ~e.owes /\ e.epoch = epoch /\ e.mode = a.mode
          /\ e.strikes = a.strikes
        <3>1. <<>> \in Seq(Messages) /\ doc \in DocumentStates
            BY <2>1 DEF DocumentStates, Client
        <3>2. epoch \in Nat \ {0}
            BY <2>1 DEF Client
        <3> HIDE DEF epoch, doc
        <3> QED BY <2>1, <3>1, <3>2, NoneIs DEF Client
    <2> HIDE DEF e, s
    <2>4. s \in Client /\ ~s.owes /\ (s.mode = "modern" => s.epoch > c.epoch)
        <3>1. CASE BreakerOpen(e)
            <4>1. s = e
                BY <2>2, <3>1 DEF Open
            <4>2. s.mode = "modern" => BreakerOpen(c)
                BY <2>1, <2>3, <3>1, <4>1 DEF BreakerOpen
            <4>3. BreakerOpen(c) => epoch = c.epoch + 1
                BY <2>1
            <4> QED BY <1>1, <2>3, <4>1, <4>2, <4>3
        <3>2. CASE ~BreakerOpen(e)
            <4>1. s = [e EXCEPT !.mode = "offering", !.epoch = @ + 1, !.doc = "MOUNTING",
                                !.lost = FALSE, !.down = <<>>, !.up = <<>>]
                BY <2>2, <3>2 DEF Open
            <4>2. s \in Client
                BY <2>2, <2>3, OpenFields
            <4>3. s.mode = "offering" /\ ~s.owes
                BY <2>3, <4>1 DEF Client
            <4> QED BY <4>2, <4>3
        <3> QED BY <3>1, <3>2
    <2>5. c'.mode = s.mode /\ c'.epoch = s.epoch /\ ~c'.owes
        BY <1>6, <2>4 DEF Reload, Load, Client, s
    <2>6. child'.doc <= c.epoch /\ child'.doc \in Nat
        BY <1>1, <1>6 DEF Reload, Load, Blank
    <2>7. c'.mode = "modern" => child'.doc # c'.epoch
        <3>1. s.epoch \in Nat
            BY <2>4 DEF Client
        <3> QED BY <1>1, <2>4, <2>5, <2>6, <3>1
    <2> QED BY <2>5, <2>7 DEF Owed, Agrees
<1>7. ASSUME Evict PROVE Owed(c', child')
    <2> DEFINE a == Clear(c, {"handshake", "prepare", "present", "context"})
    <2> DEFINE h == [a EXCEPT !.evict = "grace", !.pending = FALSE, !.visible = FALSE,
                              !.wanted = FALSE, !.v2 = FALSE]
    <2> DEFINE s == Suspend(h)
    <2> DEFINE r == Release(s)
    <2>1. c' = Arm(r, "grace") /\ child' = child /\ c.evict = "none"
        BY <1>7 DEF Evict
    <2>2. Neutral(c, a) /\ a \in Client
        BY <1>1, NeutralClear, TimerSets
    <2> HIDE DEF a
    <2>3. Owed(a, child) /\ a.evict = "none"
        BY <1>1, <2>1, <2>2, NeutralKeeps DEF Neutral
    <2>4. /\ h \in Client /\ h.mode = a.mode /\ h.epoch = a.epoch /\ h.owes = a.owes
          /\ h.down = a.down
        BY <2>2 DEF Client, Evictions
    <2> HIDE DEF h
    <2>5. Owed(h, child)
        BY <2>3, <2>4 DEF Owed, Agrees
    <2>6. Owed(s, child) /\ s \in Client
        BY <1>1, <2>4, <2>5, SuspendOwed
    <2> HIDE DEF s
    <2>7. Neutral(s, r) /\ r \in Client
        BY <2>6, NeutralRelease
    <2> HIDE DEF r
    <2>8. Neutral(r, Arm(r, "grace"))
        BY <2>7, NeutralArm DEF Timers
    <2>9. Neutral(s, c')
        BY <2>1, <2>7, <2>8, NeutralChain
    <2> QED BY <1>1, <2>1, <2>6, <2>9, NeutralKeeps
<1>8. ASSUME CancelEviction PROVE Owed(c', child')
    <2> DEFINE a == Clear(c, {"grace"})
    <2> DEFINE s == [a EXCEPT !.evict = "none"]
    <2>1. c' = PayDebt(s) /\ child' = child /\ c.evict = "grace"
        BY <1>8 DEF CancelEviction
    <2>2. Neutral(c, a) /\ a \in Client
        BY <1>1, NeutralClear, TimerSets
    <2> HIDE DEF a
    <2>3. Owed(a, child) /\ a.evict = "grace"
        BY <1>1, <2>1, <2>2, NeutralKeeps DEF Neutral
    <2>4. /\ s \in Client /\ s.mode = a.mode /\ s.epoch = a.epoch /\ s.owes = a.owes
          /\ s.down = a.down
        BY <2>2 DEF Client, Evictions
    <2> HIDE DEF s
    <2>5. Agrees(s, child)
        BY <2>3, <2>4 DEF Owed, Agrees
    <2> QED BY <1>1, <2>1, <2>4, <2>5, PayDebtOwed
<1> QED BY <1>2, <1>3, <1>4, <1>5, <1>6, <1>7, <1>8 DEF OwnerMoves

LEMMA TimerOwed ==
    ASSUME Good(c, child), Owed(c, child), TimerFires
    PROVE  Owed(c', child')
<1>1. c \in Client /\ child \in Child
    BY DEF Good, Core
<1>2. child' = child
    BY DEF TimerFires, HandshakeTimeout, StepTimeout, ContextTimeout, GraceOver,
           DisposeTimeout, OfferExpires, Fire
<1>3. ASSUME HandshakeTimeout \/ StepTimeout PROVE Owed(c', child)
    <2>1. c' \in {Clear(c, {"handshake"}), FailModern(c)}
        BY <1>3 DEF HandshakeTimeout, StepTimeout
    <2> QED BY <1>1, <2>1, NeutralClear, NeutralFail, NeutralKeeps, TimerSets
<1>4. ASSUME ContextTimeout PROVE Owed(c', child)
    <2> DEFINE s == Clear(c, {"context"})
    <2>1. c' \in {s, FailModern(s)}
        BY <1>4 DEF ContextTimeout
    <2>2. Owed(s, child) /\ s \in Client
        BY <1>1, NeutralClear, NeutralKeeps, TimerSets
    <2> HIDE DEF s
    <2> QED BY <1>1, <2>1, <2>2, NeutralFail, NeutralKeeps
<1>5. ASSUME GraceOver PROVE Owed(c', child)
    <2> DEFINE a == Clear(c, {"grace"})
    <2> DEFINE b == [a EXCEPT !.evict = "disposing"]
    <2> DEFINE s == Document(b, "DISPOSE")
    <2> DEFINE d == Send(s, Plain("DISPOSE"))
    <2>1. c' \in {Arm(d, "dispose"), SettleEviction(s)}
        BY <1>5 DEF GraceOver
    <2>2. Owed(a, child) /\ a \in Client
        BY <1>1, NeutralClear, NeutralKeeps, TimerSets
    <2> HIDE DEF a
    <2>3. /\ b \in Client /\ b.mode = a.mode /\ b.owes = a.owes /\ b.evict = "disposing"
        BY <2>2 DEF Client, Evictions
    <2> HIDE DEF b
    <2>4. Owed(b, child)
        BY <2>2, <2>3 DEF Owed, Agrees
    <2>5. Owed(s, child) /\ s \in Client
        BY <1>1, <2>3, <2>4, NeutralDocument, NeutralKeeps
    <2> HIDE DEF s
    <2>6. Owed(d, child) /\ d \in Client
        BY <1>1, <2>5, PlainIs, NeutralSend, SendFields, NeutralKeeps DEF Types, Body
    <2> HIDE DEF d
    <2>7. Owed(Arm(d, "dispose"), child)
        BY <1>1, <2>6, NeutralArm, NeutralKeeps DEF Timers
    <2> QED BY <1>1, <2>1, <2>5, <2>7, SettleOwed
<1>6. ASSUME DisposeTimeout PROVE Owed(c', child)
    BY <1>1, <1>6, SettleOwed DEF DisposeTimeout
<1>7. ASSUME OfferExpires PROVE Owed(c', child)
    BY <1>1, <1>7, FallBackOwed DEF OfferExpires
<1> QED BY <1>2, <1>3, <1>4, <1>5, <1>6, <1>7 DEF TimerFires

LEMMA ReceiveOwed ==
    ASSUME Good(c, child), Owed(c, child), ClientReceives
    PROVE  Owed(c', child')
<1>1. c \in Client /\ child \in Child
    BY DEF Good, Core
<1>2. child' = child /\ c.up # <<>>
    BY DEF ClientReceives, OnReady, OnSuspended, OnResumed, OnDisposed, OnContextLost,
           OnContextRestored, OnApplied, OnPresented, OnError, Receive
<1> DEFINE r == Rest
<1>3. Owed(r, child) /\ r \in Client /\ Neutral(c, r)
    BY <1>1, <1>2, NeutralRead, NeutralKeeps
<1>4. c.epoch \in Nat /\ (c.up # <<>> => Head(c.up).id \in Nat)
    <2>1. \A q \in Seq(Messages) : q # <<>> => Head(q) \in Messages
        BY TailFacts
    <2> QED BY <1>1, <2>1 DEF Client, Messages
<1>5. \A ts \in SUBSET Timers : Neutral(r, Clear(r, ts)) /\ Clear(r, ts) \in Client
    BY <1>3, NeutralClear
<1>6. ASSUME OnReady \/ OnSuspended \/ OnResumed \/ OnDisposed PROVE Owed(c', child)
    <2> DEFINE D(event) == Document(r, event)
    <2>1. \A event : Owed(D(event), child) /\ D(event) \in Client
        BY <1>1, <1>3, NeutralDocument, NeutralKeeps
    <2>2. \E event : \/ c' = Redrive(D(event)) \/ c' = D(event) \/ c' = SettleEviction(D(event))
        BY <1>6 DEF OnReady, OnSuspended, OnResumed, OnDisposed
    <2> HIDE DEF D
    <2> QED BY <1>1, <2>1, <2>2, NeutralRedrive, NeutralKeeps, SettleOwed
<1>7. ASSUME OnContextLost PROVE Owed(c', child)
    <2> DEFINE a == Activation(r, "CONTEXT_LOST")
    <2> DEFINE lost == c.doc \in {"DOCUMENT_READY", "SUSPENDED"} \/ a.lost
    <2> DEFINE t == [a EXCEPT !.lost = lost, !.visible = FALSE]
    <2>1. c' = Arm(t, "context")
        BY <1>7 DEF OnContextLost
    <2> HIDE DEF r
    <2>2. Owed(a, child) /\ a \in Client
        BY <1>1, <1>3, NeutralActivation, NeutralKeeps DEF Events
    <2> HIDE DEF a
    <2>3. lost \in BOOLEAN
        BY <2>2 DEF Client
    <2> HIDE DEF lost
    <2>4. Neutral(a, t) /\ t \in Client
        BY <2>2, <2>3 DEF Client, Neutral
    <2> HIDE DEF t
    <2>5. Neutral(t, Arm(t, "context"))
        BY <2>4, NeutralArm DEF Timers
    <2> QED BY <1>1, <2>1, <2>2, <2>4, <2>5, NeutralKeeps, NeutralChain
<1>8. ASSUME OnContextRestored PROVE Owed(c', child)
    <2> DEFINE s == Clear(r, {"context"})
    <2> DEFINE lost == s.lost /\ c.doc \notin {"DOCUMENT_READY", "SUSPENDED"}
    <2>1. c' = [s EXCEPT !.lost = lost, !.tainted = TRUE]
        BY <1>8 DEF OnContextRestored
    <2>2. Owed(s, child) /\ s \in Client
        BY <1>1, <1>3, <1>5, NeutralKeeps, TimerSets
    <2> HIDE DEF s
    <2>3. lost \in BOOLEAN
        BY <2>2 DEF Client
    <2> HIDE DEF lost
    <2>4. Neutral(s, c')
        BY <2>1, <2>2, <2>3 DEF Client, Neutral
    <2> QED BY <1>1, <2>2, <2>4, NeutralKeeps
<1>9. ASSUME OnApplied PROVE Owed(c', child)
    <2> DEFINE s == Clear(r, PrepareTimer)
    <2> DEFINE a == Activation(s, "APPLIED")
    <2> DEFINE u == [s EXCEPT !.tainted = @ \/ "handshake" \in c.timers]
    <2>1. c' \in {r, u, SendPresent(a)}
        BY <1>9 DEF OnApplied
    <2>2. Owed(s, child) /\ s \in Client
        BY <1>1, <1>3, <1>5, NeutralKeeps, TimerSets
    <2> HIDE DEF r, s
    <2>4. Neutral(s, u) /\ u \in Client
        BY <2>2 DEF Client, Neutral
    <2> HIDE DEF u
    <2>3. Owed(a, child) /\ a \in Client
        BY <1>1, <2>2, NeutralActivation, NeutralKeeps DEF Events
    <2> HIDE DEF a
    <2> QED BY <1>1, <1>3, <2>1, <2>2, <2>3, <2>4, NeutralPresent, NeutralKeeps
<1>10. ASSUME OnPresented PROVE Owed(c', child)
    <2> DEFINE s == Clear(r, {"present"})
    <2> DEFINE a == Activation(s, "PRESENTED")
    <2> DEFINE proof == <<c.epoch, Head(c.up).id>>
    <2> DEFINE t == [a EXCEPT !.act.proof = proof, !.strikes = 0, !.failed = FALSE]
    <2>1. c' \in {r, s, Reveal(t)}
        BY <1>10 DEF OnPresented
    <2>2. Owed(s, child) /\ s \in Client
        BY <1>1, <1>3, <1>5, NeutralKeeps, TimerSets
    <2> HIDE DEF r, s
    <2>3. Owed(a, child) /\ a \in Client
        BY <1>1, <2>2, NeutralActivation, NeutralKeeps DEF Events
    <2> HIDE DEF a
    <2>4. proof \in Nat \X Nat
        BY <1>2, <1>4
    <2> HIDE DEF proof
    <2> DEFINE act == [a.act EXCEPT !.proof = proof]
    <2>5. act \in Act
        BY <2>3, <2>4 DEF Client, Act
    <2>6. t = [a EXCEPT !.act = act, !.strikes = 0, !.failed = FALSE]
        BY <2>3 DEF Client, Act
    <2>7. 0 \in 0..Threshold
        BY BoundsAssumption
    <2> HIDE DEF act, t
    <2>8. Neutral(a, t) /\ t \in Client
        BY <2>3, <2>5, <2>6, <2>7 DEF Client, Neutral
    <2>9. Owed(Reveal(t), child)
        BY <1>1, <2>3, <2>8, NeutralReveal, NeutralKeeps
    <2> QED BY <1>3, <2>1, <2>2, <2>9
<1>11. ASSUME OnError PROVE Owed(c', child)
    <2>1. c' \in {r, FailModern(r)}
        BY <1>11 DEF OnError
    <2> HIDE DEF r
    <2> QED BY <1>1, <1>3, <2>1, NeutralFail, NeutralKeeps
<1> QED BY <1>2, <1>6, <1>7, <1>8, <1>9, <1>10, <1>11 DEF ClientReceives

(* What the child has read and what is still on its way make one whole. *)
LEMMA ChildReceiveOwed ==
    ASSUME Good(c, child), Owed(c, child), ChildReceives
    PROVE  Owed(c', child')
<1>1. c \in Client /\ child \in Child /\ c.down # <<>> /\ c.down \in Seq(Messages)
    <2>1. c \in Client /\ child \in Child
        BY DEF Good, Core
    <2>2. c.down # <<>>
        BY DEF ChildReceives, OnInit, OnSuspendDocument, OnResumeDocument, OnPrepare,
               OnPresent, OnRelease, OnDispose, Command
    <2> QED BY <2>1, <2>2 DEF Client
<1>2. /\ c'.mode = c.mode /\ c'.epoch = c.epoch /\ c'.evict = c.evict /\ c'.owes = c.owes
      /\ c'.down = Tail(c.down)
    BY <1>1 DEF ChildReceives, OnInit, OnSuspendDocument, OnResumeDocument, OnPrepare,
                OnPresent, OnRelease, OnDispose, Answer, Client
<1>3. \A b \in BOOLEAN :
         /\ Head(c.down).type = "SUSPEND"
               => (Quiesced(b, c.down) <=> Quiesced(TRUE, Tail(c.down)))
         /\ Head(c.down).type \in {"INIT", "RESUME"}
               => (Quiesced(b, c.down) <=> Quiesced(FALSE, Tail(c.down)))
         /\ Head(c.down).type \notin {"SUSPEND", "INIT", "RESUME"}
               => (Quiesced(b, c.down) <=> Quiesced(b, Tail(c.down)))
    BY <1>1, QuiescedTail
<1>4. child.suspended \in BOOLEAN
    BY <1>1 DEF Child
<1>5. c.owes \in BOOLEAN
    BY <1>1 DEF Client
<1>6. ASSUME NEW b \in BOOLEAN, child'.doc = child.doc, child'.suspended = b,
             Quiesced(child.suspended, c.down) <=> Quiesced(b, Tail(c.down))
      PROVE  Owed(c', child')
    BY <1>2, <1>6 DEF Owed, Agrees
<1>7. ASSUME OnSuspendDocument PROVE Owed(c', child')
    <2>1. child'.doc = child.doc /\ child'.suspended = TRUE /\ Head(c.down).type = "SUSPEND"
        BY <1>1, <1>7 DEF OnSuspendDocument, Command, Child
    <2>2. Quiesced(child.suspended, c.down) <=> Quiesced(TRUE, Tail(c.down))
        BY <1>3, <1>4, <2>1
    <2> QED BY <1>6, <2>1, <2>2
<1>8. ASSUME OnInit \/ OnResumeDocument PROVE Owed(c', child')
    <2>1. /\ child'.doc = child.doc /\ child'.suspended = FALSE
          /\ Head(c.down).type \in {"INIT", "RESUME"}
        BY <1>1, <1>8 DEF OnInit, OnResumeDocument, Command, Child
    <2>2. Quiesced(child.suspended, c.down) <=> Quiesced(FALSE, Tail(c.down))
        BY <1>3, <1>4, <2>1
    <2> QED BY <1>6, <2>1, <2>2
<1>9. ASSUME OnPrepare \/ OnPresent \/ OnRelease PROVE Owed(c', child')
    <2>1. /\ child'.doc = child.doc /\ child'.suspended = child.suspended
          /\ Head(c.down).type \notin {"SUSPEND", "INIT", "RESUME"}
        BY <1>1, <1>9 DEF OnPrepare, OnPresent, OnRelease, Empty, Command, Child
    <2>2. Quiesced(child.suspended, c.down) <=> Quiesced(child.suspended, Tail(c.down))
        BY <1>3, <1>4, <2>1
    <2> QED BY <1>4, <1>6, <2>1, <2>2
<1>10. ASSUME OnDispose PROVE Owed(c', child')
    <2>1. c'.evict = "disposing"
        <3>1. Head(c.down) = c.down[1] /\ 1 \in DOMAIN c.down
            BY <1>1, TailFacts
        <3> QED BY <1>2, <1>10, <3>1 DEF OnDispose, Command, Good, Core, Queued
    <2> QED BY <1>2, <2>1 DEF Owed, Agrees
<1> QED BY <1>7, <1>8, <1>9, <1>10 DEF ChildReceives

LEMMA ChildActOwed ==
    ASSUME Good(c, child), Owed(c, child), ChildActs
    PROVE  Owed(c', child')
<1>1. c \in Client /\ child \in Child
    BY DEF Good, Core
<1>2. CASE Adopt
    <2>1. /\ c.mode = "offering" /\ ~c.owes /\ c'.owes = c.owes /\ c'.mode = "modern"
          /\ c'.down = <<Plain("INIT")>>
        BY <1>1, <1>2 DEF Adopt, Client, Owed
    <2>2. Plain("INIT").type = "INIT"
        BY PlainIs DEF Types
    <2>3. ~Quiesced(child'.suspended, c'.down)
        <3>1. DOMAIN c'.down = {1} /\ c'.down[1].type = "INIT"
            BY <2>1, <2>2
        <3> QED BY <3>1 DEF Quiesced
    <2> QED BY <2>1, <2>3 DEF Owed, Agrees
<1>3. CASE ~Adopt
    <2>1. /\ c'.mode = c.mode /\ c'.epoch = c.epoch /\ c'.evict = c.evict /\ c'.owes = c.owes
          /\ c'.down = c.down /\ child'.doc = child.doc /\ child'.suspended = child.suspended
        BY <1>1, <1>3 DEF ChildActs, Applied, Presented, Progress, SectionFails, LoseContext,
                          RestoreContext, Post, Client, Child
    <2> QED BY <2>1 DEF Owed, Agrees
<1> QED BY <1>2, <1>3

LEMMA OtherOwed ==
    ASSUME Good(c, child), Owed(c, child), Painted \/ LegacyReveal \/ SendFails
    PROVE  Owed(c', child')
<1>1. c \in Client /\ child \in Child
    BY DEF Good, Core
<1>2. CASE Painted
    BY <1>1, <1>2, NeutralReveal, NeutralKeeps DEF Painted
<1>3. CASE LegacyReveal
    <2>1. Neutral(c, c') /\ child' = child
        BY <1>1, <1>3 DEF LegacyReveal, Client, Neutral
    <2> QED BY <1>1, <2>1, NeutralKeeps
<1>4. CASE SendFails
    BY <1>1, <1>4, FallBackOwed DEF SendFails
<1> QED BY <1>2, <1>3, <1>4

-----------------------------------------------------------------------------
(* The whole. *)
IInv == Good(c, child) /\ Owed(c, child) /\ moves \in 0..MaxMoves /\ faults \in 0..MaxFaults

LEMMA InitHolds ==
    ASSUME Init
    PROVE  IInv
<1>1. /\ c.mode = "offering" /\ c.epoch = 1 /\ c.act = NoActivation /\ c.serial = 0
      /\ c.evict = "none" /\ c.timers = {} /\ c.down = <<>> /\ c.up = <<>> /\ ~c.visible
      /\ ~c.owes
    BY DEF Init
<1>2. c \in Client
    <2>1. /\ "offering" \in Modes /\ "MOUNTING" \in DocumentStates /\ "none" \in Evictions
          /\ <<>> \in Seq(Messages) /\ 0 \in 0..Threshold
        BY BoundsAssumption DEF Modes, DocumentStates, Evictions
    <2> QED BY <2>1, NoneIs DEF Init, Client
<1>3. child \in Child /\ child.doc = 0 /\ child.cur = 0
    BY DEF Init, Blank, Child, Stages
<1>4. Sized(c, child) /\ Timed(c) /\ Queued(c, child) /\ Linked(c, child)
    BY <1>1, <1>3, NoneIs DEF Sized, Timed, Queued, Linked, Has
<1>5. Evicted(c) /\ Shown(c) /\ Owed(c, child)
    BY <1>1 DEF Evicted, Shown, Owed, Agrees
<1>6. moves \in 0..MaxMoves /\ faults \in 0..MaxFaults
    BY BoundsAssumption DEF Init
<1> QED BY <1>2, <1>3, <1>4, <1>5, <1>6 DEF IInv, Good, Core

LEMMA OwnerGood ==
    ASSUME Good(c, child), OwnerMoves
    PROVE  Good(c', child')
BY EnterGood, LeaveGood, FreezeGood, ThawGood, ReloadGood, EvictGood, CancelGood DEF OwnerMoves

LEMMA OtherGood ==
    ASSUME Good(c, child), Painted \/ LegacyReveal \/ SendFails
    PROVE  Good(c', child')
<1>1. CASE Painted
    BY <1>1, RevealCore DEF Painted, Good
<1>2. CASE LegacyReveal
    <2>1. /\ c' \in Client /\ c'.mode = c.mode /\ c'.epoch = c.epoch /\ c'.act = c.act
          /\ c'.serial = c.serial /\ c'.evict = c.evict /\ c'.timers = c.timers
          /\ c'.pending = c.pending /\ c'.down = c.down /\ c'.up = c.up /\ child' = child
        BY <1>2 DEF LegacyReveal, Good, Core, Client
    <2>2. Core(c', child')
        BY <2>1, Quiet DEF Good
    <2>3. Shown(c')
        BY <1>2, <2>1 DEF LegacyReveal, Shown
    <2> QED BY <2>1, <2>2, <2>3, QuietEvicted DEF Good
<1>3. CASE SendFails
    BY <1>3, FallBackCore DEF SendFails, Good
<1> QED BY <1>1, <1>2, <1>3

LEMMA Counted ==
    ASSUME IInv, Next
    PROVE  moves' \in 0..MaxMoves /\ faults' \in 0..MaxFaults
<1>1. moves \in 0..MaxMoves /\ faults \in 0..MaxFaults /\ MaxMoves \in Nat /\ MaxFaults \in Nat
    BY BoundsAssumption DEF IInv
<1>2. Move => moves' \in 0..MaxMoves
    BY <1>1 DEF Move
<1>3. Fault => faults' \in 0..MaxFaults
    BY <1>1 DEF Fault
<1>4. ASSUME OwnerMoves PROVE Move /\ faults' = faults
    BY <1>4 DEF OwnerMoves, Enter, Leave, Freeze, Thaw, Reload, Evict, CancelEviction
<1>5. ASSUME TimerFires \/ ClientReceives \/ ChildReceives
      PROVE  moves' = moves /\ faults' = faults
    <2>1. CASE TimerFires
        BY <2>1 DEF TimerFires, HandshakeTimeout, StepTimeout, ContextTimeout, GraceOver,
                    DisposeTimeout, OfferExpires, Fire
    <2>2. CASE ClientReceives
        BY <2>2 DEF ClientReceives, OnReady, OnSuspended, OnResumed, OnDisposed, OnContextLost,
                    OnContextRestored, OnApplied, OnPresented, OnError, Receive
    <2>3. CASE ChildReceives
        BY <2>3 DEF ChildReceives, OnInit, OnSuspendDocument, OnResumeDocument, OnPrepare,
                    OnPresent, OnRelease, OnDispose, Command
    <2> QED BY <1>5, <2>1, <2>2, <2>3
<1>6. ASSUME ChildActs \/ SendFails PROVE moves' = moves /\ (faults' = faults \/ Fault)
    BY <1>6 DEF ChildActs, SendFails, Adopt, Applied, Presented, Progress, SectionFails,
                LoseContext, RestoreContext
<1>7. ASSUME Load \/ Painted \/ LegacyReveal PROVE moves' = moves /\ faults' = faults
    BY <1>7 DEF Load, Painted, LegacyReveal
<1> QED BY <1>1, <1>2, <1>3, <1>4, <1>5, <1>6, <1>7 DEF Next

LEMMA NextHolds ==
    ASSUME IInv, [Next]_vars
    PROVE  IInv'
<1>1. CASE Next
    <2>1. Good(c, child) /\ Owed(c, child)
        BY DEF IInv
    <2>2. Good(c', child')
        BY <1>1, <2>1, OwnerGood, LoadGood, TimerGood, ReceiveGood, ChildReceiveGood,
           ChildActGood, OtherGood DEF Next
    <2>3. Owed(c', child')
        BY <1>1, <2>1, OwnerOwed, TimerOwed, ReceiveOwed, ChildReceiveOwed, ChildActOwed,
           OtherOwed DEF Next
    <2>4. Good(c, child)'
        BY <2>2 DEF Good, Core, Sized, Timed, Evicted, Queued, Linked, Shown, Drawn, Has
    <2>5. Owed(c, child)'
        BY <2>3 DEF Owed, Agrees
    <2> QED BY <1>1, <2>4, <2>5, Counted DEF IInv
<1>2. CASE UNCHANGED vars
    BY <1>2 DEF vars, IInv, Good, Core, Sized, Timed, Evicted, Queued, Linked, Shown, Drawn, Has,
                 Owed, Agrees
<1> QED BY <1>1, <1>2

(* The inductive invariant: the queues, the timers, the activation and the   *)
(* section the child has installed agree, in every reachable state.          *)
THEOREM Invariant == Spec => []IInv
<1>1. Init => IInv
    BY InitHolds
<1>2. IInv /\ [Next]_vars => IInv'
    BY NextHolds
<1> QED BY <1>1, <1>2, PTL DEF Spec

(* Every variable has its type, and a terminal bound is armed only behind    *)
(* the step of the activation it bounds, in every order of answers, reloads  *)
(* and evictions.                                                            *)
THEOREM TypeCorrect == Spec => []TypeOK
<1>1. IInv => TypeOK
    <2>1. SUFFICES ASSUME IInv PROVE TypeOK
        OBVIOUS
    <2>2. /\ c \in Client /\ child \in Child
          /\ Sized(c, child) /\ Timed(c) /\ Evicted(c)
          /\ moves \in 0..MaxMoves /\ faults \in 0..MaxFaults
        BY <2>1 DEF IInv, Good, Core
    <2>3. /\ c.mode \in Modes /\ c.doc \in DocumentStates /\ c.epoch \in Nat \ {0}
          /\ c.act \in Act /\ c.serial \in Nat
          /\ c.evict \in {"none", "grace", "disposing", "evicted"}
          /\ c.strikes \in 0..Threshold /\ c.timers \subseteq Timers
          /\ child.doc \in Nat /\ child.cur \in Nat
        BY <2>2 DEF Client, Child, Evictions
    <2>4. c.act.id \in 0..c.serial /\ c.act.state \in ActivationStates
        BY <2>2, <2>3 DEF Act, Sized
    <2>5. c.act.proof \in (0..c.epoch) \X (0..c.serial)
        <3>1. c.act.proof \in Nat \X Nat
            BY <2>3 DEF Act
        <3>2. c.act.proof[1] <= c.epoch /\ c.act.proof[2] <= c.serial
            BY <2>2 DEF Sized
        <3> QED BY <2>3, <3>1, <3>2
    <2>6. child.doc \in 0..c.epoch /\ child.cur \in 0..c.serial
        BY <2>2, <2>3 DEF Sized
    <2> QED BY <2>2, <2>3, <2>4, <2>5, <2>6 DEF TypeOK, Timed, Evicted
<1> QED BY <1>1, Invariant, PTL

(* A frame is uncovered only on a proof that matches the live activation on  *)
(* every axis (activationMachine.ts, mayReveal).                             *)
THEOREM Proven == Spec => []VisibleIsProven
<1>1. IInv => VisibleIsProven
    BY DEF IInv, Good, Shown, VisibleIsProven
<1> QED BY <1>1, Invariant, PTL

(* What is uncovered is what the document in the frame has drawn, whatever   *)
(* answers are late and however often the document was replaced.             *)
THEOREM Faithful == Spec => []ShownIsDrawn
<1>1. IInv => ShownIsDrawn
    BY DEF IInv, Good, Core, Shown, Linked, Drawn, ShownIsDrawn
<1> QED BY <1>1, Invariant, PTL

(* The child is left quiescent exactly while its client owes it a resume,    *)
(* also when suspends, resumes, reloads and a cancelled eviction cross.      *)
THEOREM DebtsAreKept == Spec => []SuspendedIsOwed
<1>1. IInv => SuspendedIsOwed
    <2>1. SUFFICES ASSUME IInv, Connected, c.evict \in {"none", "grace"}
                   PROVE  c.owes = Quiesced(child.suspended, c.down)
        BY DEF SuspendedIsOwed
    <2>2. c.owes <=> Quiesced(child.suspended, c.down)
        BY <2>1 DEF IInv, Owed, Agrees, Connected
    <2>3. c.owes \in BOOLEAN
        BY <2>1 DEF IInv, Good, Core, Client
    <2>4. Quiesced(child.suspended, c.down) \in BOOLEAN
        BY DEF Quiesced
    <2> QED BY <2>2, <2>3, <2>4
<1> QED BY <1>1, Invariant, PTL

-----------------------------------------------------------------------------
(* Evictions end.  The two timers that drive an eviction are armed with it   *)
(* and only what settles it may disarm them; nearly every operator keeps     *)
(* both.                                                                     *)
Ending == {"grace", "dispose"}

Armed(s) ==
    /\ s.evict = "grace" => "grace" \in s.timers
    /\ s.evict = "disposing" => "dispose" \in s.timers

Kept(s, t) == t \in Client /\ t.evict = s.evict /\ s.timers \cap Ending \subseteq t.timers

LEMMA KeptSame == ASSUME NEW s \in Client PROVE Kept(s, s)
BY DEF Kept

LEMMA KeptChain ==
    ASSUME NEW s, NEW t, NEW u, Kept(s, t), Kept(t, u)
    PROVE  Kept(s, u)
BY DEF Kept

LEMMA KeptArmed ==
    ASSUME NEW s, NEW t, Kept(s, t), Armed(s)
    PROVE  Armed(t)
BY DEF Kept, Armed, Ending

LEMMA KeptBody ==
    ASSUME NEW s, NEW t, Body(s, t), s.timers \cap Ending \subseteq t.timers
    PROVE  Kept(s, t)
BY DEF Body, Kept

LEMMA KeptClear ==
    ASSUME NEW s \in Client, NEW ts \in SUBSET Timers, ts \cap Ending = {}
    PROVE  Kept(s, Clear(s, ts))
<1>1. Body(s, Clear(s, ts)) /\ Clear(s, ts).timers = s.timers \ ts
    BY ClearFields
<1> QED BY <1>1, KeptBody

LEMMA Bounding ==
    /\ {"handshake"} \cap Ending = {} /\ {"prepare"} \cap Ending = {}
    /\ {"present"} \cap Ending = {} /\ {"context"} \cap Ending = {}
    /\ {"prepare", "present"} \cap Ending = {}
    /\ {"handshake", "prepare", "present"} \cap Ending = {}
    /\ {"handshake", "prepare", "present", "context"} \cap Ending = {}
    /\ {"handshake", "prepare", "present"} \in SUBSET Timers
    /\ PrepareTimer \cap Ending = {}
BY DEF Ending, Timers, PrepareTimer

LEMMA KeptArm ==
    ASSUME NEW s \in Client, NEW t \in Timers
    PROVE  Kept(s, Arm(s, t))
<1>1. Body(s, Arm(s, t)) /\ Arm(s, t).timers = s.timers \cup {t}
    BY ArmFields
<1> QED BY <1>1, KeptBody

LEMMA KeptDocument ==
    ASSUME NEW s \in Client, NEW event
    PROVE  Kept(s, Document(s, event))
BY DocumentFields DEF Kept

LEMMA KeptActivation ==
    ASSUME NEW s \in Client, NEW event \in Events
    PROVE  Kept(s, Activation(s, event))
<1>1. Body(s, Activation(s, event)) /\ Activation(s, event).timers = s.timers
    BY ActivationFields
<1> QED BY <1>1, KeptBody

LEMMA KeptSend ==
    ASSUME NEW s \in Client, NEW m \in Messages
    PROVE  Kept(s, Send(s, m))
<1>1. Body(s, Send(s, m)) /\ Send(s, m).timers = s.timers
    BY SendFields
<1> QED BY <1>1, KeptBody

LEMMA KeptDebts ==
    ASSUME NEW s \in Client
    PROVE  Kept(s, Suspend(s)) /\ Kept(s, PayDebt(s))
<1>1. ASSUME NEW type \in {"SUSPEND", "RESUME"}, NEW b \in BOOLEAN
      PROVE  Kept(s, [Send(s, Plain(type)) EXCEPT !.owes = b])
    <2> DEFINE r == Send(s, Plain(type))
    <2>1. Kept(s, r)
        BY PlainIs, KeptSend DEF Types
    <2> HIDE DEF r
    <2>2. Kept(r, [r EXCEPT !.owes = b])
        BY <2>1 DEF Kept, Client
    <2>3. Kept(s, [r EXCEPT !.owes = b])
        BY <2>1, <2>2, KeptChain
    <2> QED BY <2>3 DEF r
<1>2. Kept(s, [Send(s, Plain("SUSPEND")) EXCEPT !.owes = TRUE])
    BY <1>1
<1>3. Kept(s, [Send(s, Plain("RESUME")) EXCEPT !.owes = FALSE])
    BY <1>1
<1> QED BY <1>2, <1>3, KeptSame DEF Suspend, PayDebt

LEMMA KeptRelease ==
    ASSUME NEW s \in Client
    PROVE  Kept(s, Release(s))
<1> DEFINE r == Send(s, Message("RELEASE", s.act.id))
<1>1. CASE s.act.state \in Live \cup {"FAILED"}
    <2>1. Message("RELEASE", s.act.id) \in Messages
        BY DEF Client, Act, Message, Messages, Types
    <2>2. Kept(s, r)
        BY <2>1, KeptSend
    <2>3. Release(s) = Activation(r, "RELEASE")
        BY <1>1 DEF Release
    <2> HIDE DEF r
    <2>4. Kept(r, Activation(r, "RELEASE"))
        BY <2>2, KeptActivation DEF Events, Kept
    <2> QED BY <2>2, <2>3, <2>4, KeptChain
<1>2. CASE s.act.state \notin Live \cup {"FAILED"}
    BY <1>2, KeptSame DEF Release
<1> QED BY <1>1, <1>2

LEMMA KeptActivate ==
    ASSUME NEW s \in Client
    PROVE  Kept(s, ActivateModern(s)) /\ Kept(s, Redrive(s))
<1> DEFINE a == Clear(s, {"handshake", "prepare", "present"})
<1> DEFINE r == Release(a)
<1> DEFINE id == r.serial + 1
<1> DEFINE act == [id |-> id, state |-> "PREPARING", proof |-> NoProof]
<1> DEFINE n == [r EXCEPT !.serial = id, !.visible = FALSE, !.act = act]
<1> DEFINE m == Message("PREPARE", id)
<1> DEFINE d == Send(n, m)
<1>1. Kept(s, a)
    BY Bounding, KeptClear
<1>2. ActivateModern(s) = Arm(d, "prepare")
    BY DEF ActivateModern
<1> HIDE DEF a
<1>3. Kept(a, r)
    BY <1>1, KeptRelease DEF Kept
<1> HIDE DEF r
<1>4. id \in Nat
    BY <1>3 DEF Kept, Client
<1>5. act \in Act
    BY <1>4 DEF Act, NoProof, ActivationStates, Live
<1>6. m \in Messages
    BY <1>4 DEF Message, Messages, Types
<1> HIDE DEF id, act, m
<1>7. Kept(r, n)
    BY <1>3, <1>4, <1>5 DEF Client, Kept
<1> HIDE DEF n
<1>8. Kept(n, d)
    BY <1>6, <1>7, KeptSend DEF Kept
<1> HIDE DEF d
<1>9. Kept(d, Arm(d, "prepare"))
    BY <1>8, KeptArm DEF Timers, Kept
<1>10. Kept(s, d)
    BY <1>1, <1>3, <1>7, <1>8, KeptChain
<1>11. Kept(s, ActivateModern(s))
    BY <1>2, <1>9, <1>10, KeptChain
<1> QED BY <1>11, KeptSame DEF Redrive

LEMMA KeptReveal ==
    ASSUME NEW s \in Client
    PROVE  Kept(s, Reveal(s))
<1> DEFINE a == Activation(s, "ACTIVATE")
<1>1. Kept(s, a)
    BY KeptActivation DEF Events
<1> HIDE DEF a
<1>2. Kept(a, [a EXCEPT !.visible = TRUE])
    BY <1>1 DEF Client, Kept
<1> QED BY <1>1, <1>2, KeptSame, KeptChain DEF Reveal, a

LEMMA KeptPresent ==
    ASSUME NEW s \in Client
    PROVE  Kept(s, SendPresent(s))
<1> DEFINE m == Message("PRESENT", s.act.id)
<1> DEFINE d == Send(s, m)
<1> DEFINE b == Activation(d, "PRESENT")
<1>1. m \in Messages
    BY DEF Client, Act, Message, Messages, Types
<1>2. SendPresent(s) = Arm(b, "present")
    BY DEF SendPresent
<1> HIDE DEF m
<1>3. Kept(s, d)
    BY <1>1, KeptSend
<1> HIDE DEF d
<1>4. Kept(d, b)
    BY <1>3, KeptActivation DEF Events, Kept
<1> HIDE DEF b
<1>5. Kept(b, Arm(b, "present"))
    BY <1>4, KeptArm DEF Timers, Kept
<1> QED BY <1>2, <1>3, <1>4, <1>5, KeptChain

LEMMA KeptFail ==
    ASSUME NEW s \in Client
    PROVE  Kept(s, FailModern(s))
<1> DEFINE a == Clear(s, {"handshake", "prepare", "present"})
<1> DEFINE b == Activation(a, "FAIL")
<1> DEFINE strikes == IF b.strikes < Threshold THEN b.strikes + 1 ELSE b.strikes
<1> DEFINE t == FailModern(s)
<1>1. Kept(s, a)
    BY Bounding, KeptClear
<1>2. t = [b EXCEPT !.pending = FALSE, !.strikes = strikes, !.failed = TRUE, !.visible = FALSE]
    BY DEF FailModern
<1> HIDE DEF a, t
<1>3. Kept(a, b)
    BY <1>1, KeptActivation DEF Events, Kept
<1> HIDE DEF b
<1>4. strikes \in 0..Threshold
    BY <1>3, BoundsAssumption DEF Kept, Client
<1> HIDE DEF strikes
<1>5. Kept(b, t)
    BY <1>2, <1>3, <1>4 DEF Client, Kept
<1> QED BY <1>1, <1>3, <1>5, KeptChain DEF t

LEMMA KeptLegacy ==
    ASSUME NEW s \in Client
    PROVE  Kept(s, ActivateLegacy(s))
<1> DEFINE a == Clear(s, {"handshake"})
<1>1. Kept(s, a)
    BY Bounding, TimerSets, KeptClear
<1> HIDE DEF a
<1>2. Kept(a, [a EXCEPT !.v2 = TRUE, !.visible = FALSE])
    BY <1>1 DEF Client, Kept
<1> QED BY <1>1, <1>2, KeptChain DEF ActivateLegacy, a

LEMMA KeptFallBack ==
    ASSUME NEW s \in Client
    PROVE  Kept(s, FallBack(s))
<1> DEFINE d == [s EXCEPT !.mode = "legacy", !.doc = "UNMOUNTED", !.lost = FALSE,
                          !.down = <<>>, !.up = <<>>, !.pending = FALSE]
<1> DEFINE r == PayDebt(d)
<1> DEFINE w == [r EXCEPT !.pending = TRUE]
<1>1. Kept(s, d)
    <2>1. "legacy" \in Modes /\ "UNMOUNTED" \in DocumentStates /\ <<>> \in Seq(Messages)
        BY DEF Modes, DocumentStates
    <2> QED BY <2>1 DEF Client, Kept
<1>2. FallBack(s) = IF s.pending THEN ActivateLegacy(w) ELSE d
    BY DEF FallBack
<1> HIDE DEF d
<1>3. Kept(d, r)
    BY <1>1, KeptDebts DEF Kept
<1> HIDE DEF r
<1>4. Kept(r, w)
    BY <1>3 DEF Client, Kept
<1> HIDE DEF w
<1>5. Kept(w, ActivateLegacy(w))
    BY <1>4, KeptLegacy DEF Kept
<1> QED BY <1>1, <1>2, <1>3, <1>4, <1>5, KeptChain

LEMMA KeptRest ==
    ASSUME c \in Client, c.up # <<>>
    PROVE  Kept(c, Rest)
<1>1. c.up \in Seq(Messages)
    BY DEF Client
<1>2. Tail(c.up) \in Seq(Messages)
    BY <1>1, TailFacts
<1> QED BY <1>2 DEF Client, Rest, Kept

LEMMA SettleEnds ==
    ASSUME NEW s \in Client
    PROVE  LET t == SettleEviction(s) IN
           /\ t \in Client
           /\ s.evict \in {"grace", "disposing"} => t.evict = "evicted"
           /\ s.evict \notin {"grace", "disposing"} => t = s
<1>1. CASE s.evict \notin {"grace", "disposing"}
    BY <1>1 DEF SettleEviction
<1>2. CASE s.evict \in {"grace", "disposing"}
    <2> DEFINE d == Document(Clear(s, {"grace", "dispose"}), "EVICT")
    <2>1. d \in Client
        <3>1. {"grace", "dispose"} \in SUBSET Timers
            BY DEF Timers
        <3> QED BY <3>1, NeutralClear, NeutralDocument
    <2>2. SettleEviction(s) = [d EXCEPT !.evict = "evicted", !.owes = FALSE, !.mode = "closed",
                                        !.act = NoActivation, !.down = <<>>, !.up = <<>>]
        BY <1>2 DEF SettleEviction
    <2>3. "closed" \in Modes /\ <<>> \in Seq(Messages) /\ "evicted" \in Evictions
        BY DEF Modes, Evictions
    <2> HIDE DEF d
    <2> DEFINE t == [d EXCEPT !.evict = "evicted", !.owes = FALSE, !.mode = "closed",
                              !.act = NoActivation, !.down = <<>>, !.up = <<>>]
    <2>4. t \in Client
        <3> DEFINE e == [d EXCEPT !.evict = "evicted", !.owes = FALSE, !.mode = "closed"]
        <3>1. e \in Client
            BY <2>1, <2>3 DEF Client
        <3>2. t = [e EXCEPT !.act = NoActivation, !.down = <<>>, !.up = <<>>]
            BY <2>1 DEF Client
        <3> HIDE DEF e
        <3>3. NoActivation \in Act
            BY NoneIs
        <3>4. [e EXCEPT !.act = NoActivation, !.down = <<>>, !.up = <<>>] \in Client
            BY <2>3, <3>1, <3>3 DEF Client
        <3> QED BY <3>2, <3>4
    <2>5. t.evict = "evicted"
        BY <2>1 DEF Client
    <2> HIDE DEF t
    <2>6. SettleEviction(s) = t
        BY <2>2 DEF t
    <2> QED BY <1>2, <2>4, <2>5, <2>6
<1> QED BY <1>1, <1>2

(* A step keeps an eviction and its timers, begins one with its timer armed, *)
(* or takes one a step further.                                              *)
Advances ==
    \/ Kept(c, c')
    \/ c.evict \in {"none", "evicted"} /\ c'.evict = c.evict
    \/ c.evict = "none" /\ c'.evict = "grace" /\ "grace" \in c'.timers
    \/ c.evict = "grace" /\ c'.evict \in {"none", "evicted"}
    \/ c.evict = "grace" /\ c'.evict = "disposing" /\ "dispose" \in c'.timers
    \/ c.evict = "disposing" /\ c'.evict = "evicted"

LEMMA LoadAdvances ==
    ASSUME c \in Client
    PROVE  LET t == HandleFrameLoad(c) IN
           /\ t \in Client
           /\ c.evict \in {"grace", "disposing"} => t.evict = "evicted"
           /\ c.evict \notin {"grace", "disposing"} => t.evict = c.evict
<1> DEFINE b == SettleEviction(c)
<1> DEFINE a == [b EXCEPT !.timers = {}, !.owes = FALSE]
<1> DEFINE epoch == IF BreakerOpen(c) THEN a.epoch + 1 ELSE a.epoch
<1> DEFINE doc == IF a.doc = "EVICTED" THEN a.doc ELSE "MOUNTING"
<1> DEFINE e == [a EXCEPT !.act = NoActivation, !.lost = FALSE, !.v2 = FALSE,
                          !.epoch = epoch, !.doc = doc, !.up = <<>>, !.down = <<>>]
<1>1. HandleFrameLoad(c) = Open(e)
    BY DEF HandleFrameLoad, BumpGeneration
<1>2. /\ b \in Client
      /\ c.evict \in {"grace", "disposing"} => b.evict = "evicted"
      /\ c.evict \notin {"grace", "disposing"} => b.evict = c.evict
    BY SettleEnds
<1> HIDE DEF b
<1>3. a \in Client /\ a.evict = b.evict
    <2>1. a \in Client
        BY <1>2 DEF Client
    <2>2. a.evict = b.evict
        BY <1>2 DEF Client
    <2> QED BY <2>1, <2>2
<1> HIDE DEF a
<1>4. epoch \in Nat \ {0} /\ doc \in DocumentStates /\ <<>> \in Seq(Messages)
    BY <1>3 DEF Client, DocumentStates
<1> HIDE DEF epoch, doc
<1>5. e \in Client /\ e.evict = a.evict
    <2>1. e \in Client
        <3> DEFINE d == [a EXCEPT !.act = NoActivation, !.lost = FALSE, !.v2 = FALSE]
        <3>1. NoActivation \in Act
            BY NoneIs
        <3>2. d \in Client
            BY <1>3, <3>1 DEF Client
        <3>3. e = [d EXCEPT !.epoch = epoch, !.doc = doc, !.up = <<>>, !.down = <<>>]
            BY <1>3 DEF Client
        <3> HIDE DEF d
        <3>4. [d EXCEPT !.epoch = epoch, !.doc = doc, !.up = <<>>, !.down = <<>>] \in Client
            BY <1>4, <3>2 DEF Client
        <3> QED BY <3>3, <3>4
    <2>2. e.evict = a.evict
        BY <1>3 DEF Client
    <2> QED BY <2>1, <2>2
<1> HIDE DEF e
<1>6. Open(e) \in Client /\ Open(e).evict = e.evict
    BY <1>5, OpenFields
<1> QED BY <1>1, <1>2, <1>3, <1>5, <1>6

LEMMA OwnerAdvances ==
    ASSUME c \in Client, OwnerMoves \/ Load
    PROVE  Advances
<1>1. ASSUME Enter PROVE Kept(c, c')
    <2> DEFINE p == IF c.mode = "legacy" THEN Open(c) ELSE c
    <2> DEFINE o == PayDebt(p)
    <2> DEFINE s == [o EXCEPT !.pending = TRUE, !.wanted = TRUE, !.failed = FALSE,
                              !.tainted = o.lost, !.replaced = FALSE]
    <2> DEFINE h == [s EXCEPT !.visible = FALSE]
    <2> DEFINE a == Clear(h, {"prepare"})
    <2>1. c' \in {ActivateModern(s), ActivateLegacy(s), Arm(a, "handshake")}
        BY <1>1 DEF Enter
    <2>2. Kept(c, p)
        BY OpenFields, KeptSame DEF Kept
    <2> HIDE DEF p
    <2>3. Kept(p, o)
        BY <2>2, KeptDebts DEF Kept
    <2> HIDE DEF o
    <2>4. Kept(o, s)
        <3>1. o \in Client
            BY <2>3 DEF Kept
        <3>2. o.lost \in BOOLEAN
            BY <3>1 DEF Client
        <3>3. s \in Client
            BY <3>1, <3>2 DEF Client
        <3>4. s.evict = o.evict /\ s.timers = o.timers
            BY <3>1 DEF Client
        <3> QED BY <3>1, <3>3, <3>4 DEF Kept
    <2> HIDE DEF s
    <2>5. Kept(s, h)
        BY <2>4 DEF Kept, Client
    <2> HIDE DEF h
    <2>6. Kept(h, a)
        BY <2>5, Bounding, TimerSets, KeptClear DEF Kept
    <2> HIDE DEF a
    <2>7. Kept(a, Arm(a, "handshake"))
        BY <2>6, KeptArm DEF Timers, Kept
    <2>8. Kept(s, Arm(a, "handshake"))
        BY <2>5, <2>6, <2>7, KeptChain
    <2>9. Kept(s, c')
        BY <2>1, <2>4, <2>8, KeptActivate, KeptLegacy DEF Kept
    <2>10. Kept(c, s)
        BY <2>2, <2>3, <2>4, KeptChain
    <2> QED BY <2>9, <2>10, KeptChain
<1>2. ASSUME Leave PROVE Kept(c, c')
    <2> DEFINE a == Clear(c, {"handshake"})
    <2> DEFINE h == [a EXCEPT !.visible = FALSE, !.pending = FALSE, !.wanted = FALSE, !.v2 = FALSE]
    <2> DEFINE b == Clear(h, {"prepare", "present"})
    <2>1. c' \in {h, Release(b)}
        BY <1>2 DEF Leave, Deactivate
    <2>2. Kept(c, a)
        BY Bounding, TimerSets, KeptClear
    <2> HIDE DEF a
    <2>3. Kept(a, h)
        <3>1. a \in Client
            BY <2>2 DEF Kept
        <3>2. h \in Client
            BY <3>1 DEF Client
        <3>3. h.evict = a.evict /\ h.timers = a.timers
            BY <3>1 DEF Client
        <3> QED BY <3>1, <3>2, <3>3 DEF Kept
    <2> HIDE DEF h
    <2>4. Kept(h, b)
        BY <2>3, Bounding, TimerSets, KeptClear DEF Kept
    <2> HIDE DEF b
    <2>5. Kept(b, Release(b))
        BY <2>4, KeptRelease DEF Kept
    <2>6. Kept(c, h)
        BY <2>2, <2>3, KeptChain
    <2>7. Kept(c, Release(b))
        BY <2>4, <2>5, <2>6, KeptChain
    <2> QED BY <2>1, <2>6, <2>7
<1>3. ASSUME Freeze \/ Thaw PROVE Kept(c, c')
    <2> DEFINE s == Suspend(c)
    <2>1. c' \in {[s EXCEPT !.wanted = FALSE], PayDebt(c)}
        BY <1>3 DEF Freeze, Thaw
    <2>2. Kept(c, s) /\ Kept(c, PayDebt(c))
        BY KeptDebts
    <2> HIDE DEF s
    <2>3. Kept(s, [s EXCEPT !.wanted = FALSE])
        BY <2>2 DEF Client, Kept
    <2> QED BY <2>1, <2>2, <2>3, KeptChain
<1>4. ASSUME Reload \/ Load PROVE Advances
    <2> DEFINE t == HandleFrameLoad(c)
    <2> DEFINE p == [t EXCEPT !.reloading = TRUE]
    <2> DEFINE q == [t EXCEPT !.reloading = FALSE, !.replaced = TRUE]
    <2>1. c' \in {p, q}
        BY <1>4 DEF Reload, Load
    <2>2. /\ t \in Client
          /\ c.evict \in {"grace", "disposing"} => t.evict = "evicted"
          /\ c.evict \notin {"grace", "disposing"} => t.evict = c.evict
        BY LoadAdvances
    <2> HIDE DEF t
    <2>3. p.evict = t.evict
        BY <2>2 DEF Client
    <2>4. q.evict = t.evict
        BY <2>2 DEF Client
    <2> HIDE DEF p, q
    <2>5. c'.evict = t.evict
        BY <2>1, <2>3, <2>4
    <2>6. c.evict \in Evictions
        BY DEF Client
    <2> QED BY <2>2, <2>5, <2>6 DEF Evictions, Advances
<1>5. ASSUME Evict PROVE Advances
    <2> DEFINE a == Clear(c, {"handshake", "prepare", "present", "context"})
    <2> DEFINE h == [a EXCEPT !.evict = "grace", !.pending = FALSE, !.visible = FALSE,
                              !.wanted = FALSE, !.v2 = FALSE]
    <2> DEFINE s == Suspend(h)
    <2> DEFINE r == Release(s)
    <2>1. c' = Arm(r, "grace") /\ c.evict = "none"
        BY <1>5 DEF Evict
    <2>2. a \in Client
        BY TimerSets, NeutralClear
    <2> HIDE DEF a
    <2>3. h \in Client /\ h.evict = "grace"
        <3>1. "grace" \in Evictions
            BY DEF Evictions
        <3>2. h \in Client
            BY <2>2, <3>1 DEF Client
        <3>3. h.evict = "grace"
            BY <2>2 DEF Client
        <3> QED BY <3>2, <3>3
    <2> HIDE DEF h
    <2>4. Kept(h, s)
        BY <2>3, KeptDebts
    <2> HIDE DEF s
    <2>5. Kept(s, r)
        BY <2>4, KeptRelease DEF Kept
    <2> HIDE DEF r
    <2>6. Body(r, Arm(r, "grace")) /\ Arm(r, "grace").timers = r.timers \cup {"grace"}
        BY <2>5, ArmFields DEF Timers, Kept
    <2> QED BY <2>1, <2>3, <2>4, <2>5, <2>6 DEF Kept, Body, Advances
<1>6. ASSUME CancelEviction PROVE Advances
    <2> DEFINE a == Clear(c, {"grace"})
    <2> DEFINE s == [a EXCEPT !.evict = "none"]
    <2>1. c' = PayDebt(s) /\ c.evict = "grace"
        BY <1>6 DEF CancelEviction
    <2>2. a \in Client
        BY TimerSets, NeutralClear
    <2> HIDE DEF a
    <2>3. s \in Client /\ s.evict = "none"
        BY <2>2 DEF Client, Evictions
    <2> HIDE DEF s
    <2>4. Kept(s, PayDebt(s))
        BY <2>3, KeptDebts
    <2> QED BY <2>1, <2>3, <2>4 DEF Kept, Advances
<1> QED BY <1>1, <1>2, <1>3, <1>4, <1>5, <1>6 DEF OwnerMoves, Advances

LEMMA TimerAdvances ==
    ASSUME c \in Client, Timed(c), TimerFires
    PROVE  /\ Advances
           /\ GraceOver => c'.evict # "grace"
           /\ DisposeTimeout => c'.evict \notin {"grace", "disposing"}
<1>1. ASSUME HandshakeTimeout \/ StepTimeout PROVE Kept(c, c')
    <2>1. c' \in {Clear(c, {"handshake"}), FailModern(c)}
        BY <1>1 DEF HandshakeTimeout, StepTimeout
    <2> QED BY <2>1, Bounding, TimerSets, KeptClear, KeptFail
<1>2. ASSUME ContextTimeout PROVE Kept(c, c')
    <2> DEFINE s == Clear(c, {"context"})
    <2>1. c' \in {s, FailModern(s)}
        BY <1>2 DEF ContextTimeout
    <2>2. Kept(c, s)
        BY Bounding, TimerSets, KeptClear
    <2> HIDE DEF s
    <2>3. Kept(s, FailModern(s))
        BY <2>2, KeptFail DEF Kept
    <2> QED BY <2>1, <2>2, <2>3, KeptChain
<1>3. ASSUME GraceOver PROVE Advances /\ c'.evict # "grace"
    <2> DEFINE a == Clear(c, {"grace"})
    <2> DEFINE b == [a EXCEPT !.evict = "disposing"]
    <2> DEFINE s == Document(b, "DISPOSE")
    <2> DEFINE d == Send(s, Plain("DISPOSE"))
    <2>1. c' \in {Arm(d, "dispose"), SettleEviction(s)} /\ "grace" \in c.timers
        BY <1>3 DEF GraceOver, Fire
    <2>2. a \in Client
        BY TimerSets, NeutralClear
    <2> HIDE DEF a
    <2>3. b \in Client /\ b.evict = "disposing"
        BY <2>2 DEF Client, Evictions
    <2> HIDE DEF b
    <2>4. Kept(b, s)
        BY <2>3, KeptDocument
    <2> HIDE DEF s
    <2>5. Kept(s, d)
        BY <2>4, PlainIs, KeptSend DEF Types, Kept
    <2> HIDE DEF d
    <2>6. Body(d, Arm(d, "dispose")) /\ Arm(d, "dispose").timers = d.timers \cup {"dispose"}
        BY <2>5, ArmFields DEF Timers, Kept
    <2>7. SettleEviction(s).evict = "evicted"
        BY <2>3, <2>4, SettleEnds DEF Kept
    <2>8. c.evict = "grace"
        BY <2>1 DEF Timed
    <2> QED BY <2>1, <2>3, <2>4, <2>5, <2>6, <2>7, <2>8 DEF Kept, Body, Advances
<1>4. ASSUME DisposeTimeout PROVE Advances /\ c'.evict \notin {"grace", "disposing"}
    <2>1. c' = SettleEviction(c)
        BY <1>4 DEF DisposeTimeout
    <2> QED BY <2>1, SettleEnds, KeptSame DEF Advances
<1>5. ASSUME OfferExpires PROVE Kept(c, c')
    BY <1>5, KeptFallBack DEF OfferExpires
<1> QED BY <1>1, <1>2, <1>3, <1>4, <1>5 DEF TimerFires, Advances

LEMMA ReceiveAdvances ==
    ASSUME c \in Client, ClientReceives
    PROVE  Advances
<1> DEFINE r == Rest
<1>1. Kept(c, r)
    <2>1. c.up # <<>>
        BY DEF ClientReceives, OnReady, OnSuspended, OnResumed, OnDisposed, OnContextLost,
               OnContextRestored, OnApplied, OnPresented, OnError, Receive
    <2> QED BY <2>1, KeptRest
<1>2. ASSUME OnReady \/ OnSuspended \/ OnResumed \/ OnDisposed PROVE Advances
    <2> DEFINE D(event) == Document(r, event)
    <2>1. \A event : Kept(r, D(event))
        BY <1>1, KeptDocument DEF Kept
    <2>2. PICK event : c' \in {Redrive(D(event)), D(event), SettleEviction(D(event))}
        BY <1>2 DEF OnReady, OnSuspended, OnResumed, OnDisposed
    <2> HIDE DEF D, r
    <2>3. Kept(c, D(event))
        BY <1>1, <2>1, KeptChain
    <2>4. Kept(D(event), Redrive(D(event)))
        BY <2>3, KeptActivate DEF Kept
    <2>5. Kept(c, Redrive(D(event)))
        BY <2>3, <2>4, KeptChain
    <2>6. D(event) \in Client /\ D(event).evict = c.evict
        BY <2>3 DEF Kept
    <2>7. /\ c.evict \in {"grace", "disposing"} => SettleEviction(D(event)).evict = "evicted"
          /\ c.evict \notin {"grace", "disposing"} => SettleEviction(D(event)) = D(event)
        BY <2>6, SettleEnds
    <2> QED BY <2>2, <2>3, <2>5, <2>7 DEF Advances
<1>3. ASSUME OnContextLost PROVE Kept(c, c')
    <2> DEFINE a == Activation(r, "CONTEXT_LOST")
    <2> DEFINE lost == c.doc \in {"DOCUMENT_READY", "SUSPENDED"} \/ a.lost
    <2> DEFINE t == [a EXCEPT !.lost = lost, !.visible = FALSE]
    <2>1. c' = Arm(t, "context")
        BY <1>3 DEF OnContextLost
    <2> HIDE DEF r
    <2>2. Kept(r, a)
        BY <1>1, KeptActivation DEF Events, Kept
    <2> HIDE DEF a
    <2>3. lost \in BOOLEAN
        BY <2>2 DEF Client, Kept
    <2> HIDE DEF lost
    <2>4. Kept(a, t)
        BY <2>2, <2>3 DEF Client, Kept
    <2> HIDE DEF t
    <2>5. Kept(t, Arm(t, "context"))
        BY <2>4, KeptArm DEF Timers, Kept
    <2> QED BY <1>1, <2>1, <2>2, <2>4, <2>5, KeptChain
<1>4. ASSUME OnContextRestored PROVE Kept(c, c')
    <2> DEFINE s == Clear(r, {"context"})
    <2> DEFINE lost == s.lost /\ c.doc \notin {"DOCUMENT_READY", "SUSPENDED"}
    <2>1. c' = [s EXCEPT !.lost = lost, !.tainted = TRUE]
        BY <1>4 DEF OnContextRestored
    <2> HIDE DEF r
    <2>2. Kept(r, s)
        BY <1>1, Bounding, TimerSets, KeptClear DEF Kept
    <2> HIDE DEF s
    <2>3. lost \in BOOLEAN
        BY <2>2 DEF Client, Kept
    <2> HIDE DEF lost
    <2>4. Kept(s, c')
        BY <2>1, <2>2, <2>3 DEF Client, Kept
    <2> QED BY <1>1, <2>2, <2>4, KeptChain
<1>5. ASSUME OnApplied PROVE Kept(c, c')
    <2> DEFINE s == Clear(r, PrepareTimer)
    <2> DEFINE a == Activation(s, "APPLIED")
    <2> DEFINE u == [s EXCEPT !.tainted = @ \/ "handshake" \in c.timers]
    <2>1. c' \in {r, u, SendPresent(a)}
        BY <1>5 DEF OnApplied
    <2> HIDE DEF r
    <2>2. Kept(r, s)
        BY <1>1, Bounding, TimerSets, KeptClear DEF Kept
    <2> HIDE DEF s
    <2>7. Kept(s, u)
        BY <2>2 DEF Client, Kept
    <2> HIDE DEF u
    <2>3. Kept(s, a)
        BY <2>2, KeptActivation DEF Events, Kept
    <2> HIDE DEF a
    <2>4. Kept(a, SendPresent(a))
        BY <2>3, KeptPresent DEF Kept
    <2>5. Kept(c, s)
        BY <1>1, <2>2, KeptChain
    <2>6. Kept(c, SendPresent(a))
        BY <2>3, <2>4, <2>5, KeptChain
    <2>8. Kept(c, u)
        BY <2>5, <2>7, KeptChain
    <2> QED BY <1>1, <2>1, <2>6, <2>8
<1>6. ASSUME OnPresented PROVE Kept(c, c')
    <2> DEFINE s == Clear(r, {"present"})
    <2> DEFINE a == Activation(s, "PRESENTED")
    <2> DEFINE proof == <<c.epoch, Head(c.up).id>>
    <2> DEFINE t == [a EXCEPT !.act.proof = proof, !.strikes = 0, !.failed = FALSE]
    <2>1. c' \in {r, s, Reveal(t)} /\ c.up # <<>>
        BY <1>6 DEF OnPresented, Receive
    <2>2. proof \in Nat \X Nat
        <3>1. c.up \in Seq(Messages) /\ c.epoch \in Nat
            BY DEF Client
        <3>2. Head(c.up) \in Messages
            BY <2>1, <3>1, TailFacts
        <3> QED BY <3>1, <3>2 DEF Messages
    <2> HIDE DEF r, proof
    <2>3. Kept(r, s)
        BY <1>1, Bounding, TimerSets, KeptClear DEF Kept
    <2> HIDE DEF s
    <2>4. Kept(s, a)
        BY <2>3, KeptActivation DEF Events, Kept
    <2> HIDE DEF a
    <2> DEFINE act == [a.act EXCEPT !.proof = proof]
    <2>5. act \in Act
        BY <2>2, <2>4 DEF Client, Act, Kept
    <2>6. t = [a EXCEPT !.act = act, !.strikes = 0, !.failed = FALSE]
        BY <2>4 DEF Client, Act, Kept
    <2>7. 0 \in 0..Threshold
        BY BoundsAssumption
    <2> HIDE DEF act, t
    <2>8. Kept(a, t)
        BY <2>4, <2>5, <2>6, <2>7 DEF Client, Kept
    <2>9. Kept(t, Reveal(t))
        BY <2>8, KeptReveal DEF Kept
    <2>10. Kept(c, s)
        BY <1>1, <2>3, KeptChain
    <2>11. Kept(c, t)
        BY <2>4, <2>8, <2>10, KeptChain
    <2>12. Kept(c, Reveal(t))
        BY <2>9, <2>11, KeptChain
    <2> QED BY <1>1, <2>1, <2>10, <2>12
<1>7. ASSUME OnError PROVE Kept(c, c')
    <2>1. c' \in {r, FailModern(r)}
        BY <1>7 DEF OnError
    <2> HIDE DEF r
    <2>2. Kept(r, FailModern(r))
        BY <1>1, KeptFail DEF Kept
    <2> QED BY <1>1, <2>1, <2>2, KeptChain
<1> QED BY <1>2, <1>3, <1>4, <1>5, <1>6, <1>7 DEF ClientReceives, Advances

LEMMA OtherAdvances ==
    ASSUME c \in Client, c' \in Client,
           ChildReceives \/ ChildActs \/ Painted \/ LegacyReveal \/ SendFails
    PROVE  Kept(c, c')
<1>1. CASE ChildReceives
    <2>1. c'.evict = c.evict /\ c'.timers = c.timers
        BY <1>1 DEF ChildReceives, OnInit, OnSuspendDocument, OnResumeDocument, OnPrepare,
                    OnPresent, OnRelease, OnDispose, Answer, Client
    <2> QED BY <2>1 DEF Kept
<1>2. CASE ChildActs
    <2>1. c'.evict = c.evict /\ c'.timers = c.timers
        BY <1>2 DEF ChildActs, Adopt, Applied, Presented, Progress, SectionFails, LoseContext,
                    RestoreContext, Post, Client
    <2> QED BY <2>1 DEF Kept
<1>3. CASE Painted \/ SendFails
    BY <1>3, KeptReveal, KeptFallBack DEF Painted, SendFails
<1>4. CASE LegacyReveal
    BY <1>4 DEF LegacyReveal, Client, Kept
<1> QED BY <1>1, <1>2, <1>3, <1>4

LEMMA NextAdvances ==
    ASSUME IInv, IInv', [Next]_vars
    PROVE  /\ Advances
           /\ <<GraceOver>>_vars => c'.evict # "grace"
           /\ <<DisposeTimeout>>_vars => c'.evict \notin {"grace", "disposing"}
<1>1. c \in Client /\ c' \in Client /\ Timed(c)
    BY DEF IInv, Good, Core
<1>2. UNCHANGED vars => Kept(c, c')
    BY <1>1 DEF vars, Kept
<1>3. Advances
    BY <1>1, <1>2, OwnerAdvances, TimerAdvances, ReceiveAdvances, OtherAdvances
       DEF Next, Advances
<1>4. <<GraceOver>>_vars => GraceOver /\ TimerFires
    BY DEF TimerFires
<1>5. <<DisposeTimeout>>_vars => DisposeTimeout /\ TimerFires
    BY DEF TimerFires
<1> QED BY <1>1, <1>3, <1>4, <1>5, TimerAdvances

(* The timer of an eviction under way is armed, whatever has been cleared.   *)
LEMMA EvictionsAreTimed == Spec => []Armed(c)
<1>1. Init => Armed(c)
    BY DEF Init, Armed
<1>2. IInv /\ IInv' /\ [Next]_vars /\ Armed(c) => Armed(c)'
    <2>1. SUFFICES ASSUME IInv, IInv', [Next]_vars, Armed(c)
                   PROVE  Armed(c')
        BY DEF Armed
    <2>2. Advances
        BY <2>1, NextAdvances
    <2> QED BY <2>1, <2>2, KeptArmed DEF Advances, Armed
<1> QED BY <1>1, <1>2, Invariant, PTL DEF Spec

(* What fairness of the two timers asks of ENABLED, which the prover does    *)
(* not expand: both actions are a guard and an assignment.                   *)
ArmedTimersCanFire ==
    /\ "grace" \in c.timers => ENABLED <<GraceOver>>_vars
    /\ "dispose" \in c.timers => ENABLED <<DisposeTimeout>>_vars

(* Every eviction settles: it is cancelled, or its grace period runs out and *)
(* the document answers, is replaced, or has used up the time it was given.  *)
THEOREM EvictionsSettle == FairSpec /\ []ArmedTimersCanFire => EvictionSettles
<1> DEFINE Grace == c.evict = "grace"
           Disposing == c.evict = "disposing"
<1>1. IInv /\ IInv' /\ [Next]_vars /\ Disposing => ~Grace'
    BY NextAdvances DEF Advances, Kept
<1>2. IInv /\ IInv' /\ [Next]_vars /\ <<GraceOver>>_vars => ~Grace'
    BY NextAdvances
<1>3. IInv /\ IInv' /\ [Next]_vars /\ <<DisposeTimeout>>_vars => ~Grace' /\ ~Disposing'
    BY NextAdvances
<1>4. Armed(c) /\ ArmedTimersCanFire
      => /\ Grace => ENABLED <<GraceOver>>_vars
         /\ Disposing => ENABLED <<DisposeTimeout>>_vars
    BY DEF Armed, ArmedTimersCanFire
<1>5. c.evict \in {"grace", "disposing"} <=> Grace \/ Disposing
    OBVIOUS
<1>6. c.evict \notin {"grace", "disposing"} <=> ~Grace /\ ~Disposing
    OBVIOUS
<1> HIDE DEF Grace, Disposing
<1> QED BY <1>1, <1>2, <1>3, <1>4, <1>5, <1>6, Invariant, EvictionsAreTimed, PTL
        DEF FairSpec, Spec, Fairness, EvictionSettles

-----------------------------------------------------------------------------
(* Waits are bounded.  What a step leaves of the client, in the terms below: *)
(* the owner's intent, the port and what was received.                      *)
Listening == {"DOCUMENT_READY", "SUSPENDED"}
Steps == {"prepare", "present"}
Commands == {"PREPARE", "PRESENT", "RELEASE", "DISPOSE"}
Debts == {"SUSPEND", "RESUME"}
Wakes == {"RESUME", "INIT"}
Woken == {"RESUMED", "READY"}
Shows == {"presenting", "drawn"}

Frame(s, t) ==
    /\ s \in Client /\ t \in Client
    /\ t.wanted = s.wanted /\ t.failed = s.failed /\ t.tainted = s.tainted
    /\ t.replaced = s.replaced /\ t.mode = s.mode /\ t.epoch = s.epoch /\ t.doc = s.doc
    /\ t.lost = s.lost /\ t.evict = s.evict /\ t.up = s.up

(* What is deferred, owed and on screen is left as it was. *)
Rests(s, t) == t.pending = s.pending /\ t.owes = s.owes /\ t.visible = s.visible

(* Messages of these types were added to the queue. *)
Adds(q, r, types) ==
    \A k \in DOMAIN r : \/ k \in DOMAIN q /\ r[k] = q[k]
                        \/ (\A j \in DOMAIN q : j < k) /\ r[k].type \in types

LEMMA AddsNone == ASSUME NEW q, NEW types PROVE Adds(q, q, types)
BY DEF Adds

LEMMA AddsChain ==
    ASSUME NEW q \in Seq(Messages), NEW r \in Seq(Messages), NEW p \in Seq(Messages),
           NEW types, Adds(q, r, types), Adds(r, p, types), Len(q) <= Len(r)
    PROVE  Adds(q, p, types)
<1>1. Len(q) \in Nat /\ Len(r) \in Nat /\ DOMAIN q = 1..Len(q) /\ DOMAIN r = 1..Len(r)
    OBVIOUS
<1>2. \A j \in DOMAIN q : j \in DOMAIN r
    BY <1>1
<1> QED BY <1>2 DEF Adds

LEMMA AddsOne ==
    ASSUME NEW q \in Seq(Messages), NEW m \in Messages, NEW types, m.type \in types
    PROVE  Adds(q, Append(q, m), types) /\ Len(q) <= Len(Append(q, m))
<1>1. /\ \A k \in DOMAIN Append(q, m) :
            \/ k \in DOMAIN q /\ Append(q, m)[k] = q[k]
            \/ k = Len(q) + 1 /\ Append(q, m)[k] = m
      /\ \A k \in DOMAIN q : k \in Nat /\ k < Len(q) + 1
    BY AppendFacts
<1>2. Len(Append(q, m)) = Len(q) + 1
    OBVIOUS
<1> QED BY <1>1, <1>2 DEF Adds

LEMMA FrameSame == ASSUME NEW s \in Client PROVE Frame(s, s) /\ Rests(s, s)
BY DEF Frame, Rests

LEMMA FrameChain ==
    ASSUME NEW s, NEW t, NEW u, Frame(s, t), Frame(t, u)
    PROVE  Frame(s, u) /\ (Rests(s, t) /\ Rests(t, u) => Rests(s, u))
BY DEF Frame, Rests

LEMMA FrameClear ==
    ASSUME NEW s \in Client, NEW ts \in SUBSET Timers
    PROVE  LET t == Clear(s, ts) IN
           /\ Frame(s, t) /\ Rests(s, t) /\ t.act = s.act /\ t.serial = s.serial
           /\ t.down = s.down /\ t.timers = s.timers \ ts
BY DEF Client, Clear, Frame, Rests

LEMMA FrameArm ==
    ASSUME NEW s \in Client, NEW timer \in Timers
    PROVE  LET t == Arm(s, timer) IN
           /\ Frame(s, t) /\ Rests(s, t) /\ t.act = s.act /\ t.serial = s.serial
           /\ t.down = s.down /\ t.timers = s.timers \cup {timer}
BY DEF Client, Arm, Frame, Rests

LEMMA FrameSend ==
    ASSUME NEW s \in Client, NEW m \in Messages, NEW types, m.type \in types
    PROVE  LET t == Send(s, m) IN
           /\ Frame(s, t) /\ Rests(s, t) /\ t.act = s.act /\ t.serial = s.serial
           /\ t.timers = s.timers /\ t.down \in {s.down, Append(s.down, m)}
           /\ Adds(s.down, t.down, types) /\ Len(s.down) <= Len(t.down)
<1>1. Append(s.down, m) \in Seq(Messages) /\ s.down \in Seq(Messages)
    BY DEF Client
<1>2. LET t == [s EXCEPT !.down = Append(@, m)] IN
      Frame(s, t) /\ Rests(s, t) /\ t.act = s.act /\ t.serial = s.serial
        /\ t.timers = s.timers /\ t.down = Append(s.down, m)
    BY <1>1 DEF Client, Frame, Rests
<1>3. Len(s.down) \in Nat
    BY <1>1
<1>4. CASE s.mode = "modern" /\ child.doc = s.epoch
    BY <1>1, <1>2, <1>4, AddsOne DEF Send
<1>5. CASE ~(s.mode = "modern" /\ child.doc = s.epoch)
    BY <1>3, <1>5, FrameSame, AddsNone DEF Send
<1> QED BY <1>4, <1>5

LEMMA FrameActivation ==
    ASSUME NEW s \in Client, NEW event \in Events
    PROVE  LET t == Activation(s, event) IN
           /\ Frame(s, t) /\ Rests(s, t) /\ t.act.id = s.act.id /\ t.serial = s.serial
           /\ t.act.state = Reduce(ActivationEdges, s.act.state, event)
           /\ t.down = s.down /\ t.timers = s.timers
           /\ t.act.state \in Live => s.act.state \in Live
<1> DEFINE t == Activation(s, event)
<1>1. /\ Body(s, t) /\ Ports(s, t) /\ t.timers = s.timers /\ t.act.id = s.act.id
      /\ t.act.state = Reduce(ActivationEdges, s.act.state, event)
    BY ActivationFields
<1>2. t.wanted = s.wanted /\ t.failed = s.failed /\ t.tainted = s.tainted /\ t.replaced = s.replaced
    BY DEF Activation, Client
<1>3. \A e \in ActivationEdges : e[3] \in Live => e[1] \in Live
    BY DEF ActivationEdges, Live
<1>4. t.act.state \in Live => s.act.state \in Live
    BY <1>1, <1>3, ActivationStep DEF Events
<1> HIDE DEF t
<1> QED BY <1>1, <1>2, <1>4 DEF Body, Ports, Frame, Rests, t

LEMMA FrameDebts ==
    ASSUME NEW s \in Client, NEW t \in {Suspend(s), PayDebt(s)}
    PROVE  /\ Frame(s, t) /\ t.pending = s.pending /\ t.visible = s.visible
           /\ t.act = s.act /\ t.serial = s.serial /\ t.timers = s.timers
           /\ Adds(s.down, t.down, Debts) /\ Len(s.down) <= Len(t.down)
<1>1. ASSUME NEW type \in Debts, NEW b \in BOOLEAN
      PROVE  LET u == [Send(s, Plain(type)) EXCEPT !.owes = b] IN
             /\ Frame(s, u) /\ u.pending = s.pending /\ u.visible = s.visible
             /\ u.act = s.act /\ u.serial = s.serial /\ u.timers = s.timers
             /\ Adds(s.down, u.down, Debts) /\ Len(s.down) <= Len(u.down)
    <2> DEFINE r == Send(s, Plain(type))
    <2>1. /\ Frame(s, r) /\ Rests(s, r) /\ r.act = s.act /\ r.serial = s.serial
          /\ r.timers = s.timers
          /\ Adds(s.down, r.down, Debts) /\ Len(s.down) <= Len(r.down)
        <3>1. Plain(type) \in Messages /\ Plain(type).type = type
            BY PlainIs DEF Debts, Types
        <3> QED BY <3>1, FrameSend
    <2> HIDE DEF r
    <2> DEFINE u == [r EXCEPT !.owes = b]
    <2>2. /\ Frame(r, u) /\ u.pending = r.pending /\ u.visible = r.visible
          /\ u.act = r.act /\ u.serial = r.serial /\ u.timers = r.timers /\ u.down = r.down
        BY <2>1 DEF Frame, Client
    <2> HIDE DEF u
    <2>3. Frame(s, u)
        BY <2>1, <2>2, FrameChain
    <2> QED BY <2>1, <2>2, <2>3 DEF r, u, Rests
<1>2. Len(s.down) \in Nat
    BY DEF Client
<1>3. CASE t = s
    BY <1>2, <1>3, FrameSame, AddsNone DEF Rests
<1>4. CASE t \in {[Send(s, Plain("SUSPEND")) EXCEPT !.owes = TRUE],
                 [Send(s, Plain("RESUME")) EXCEPT !.owes = FALSE]}
    BY <1>1, <1>4 DEF Debts
<1> QED BY <1>3, <1>4 DEF Suspend, PayDebt

LEMMA FrameRelease ==
    ASSUME NEW s \in Client
    PROVE  LET t == Release(s) IN
           /\ Frame(s, t) /\ Rests(s, t) /\ t.act.id = s.act.id /\ t.serial = s.serial
           /\ t.act.state \notin Live /\ t.timers = s.timers
           /\ Adds(s.down, t.down, Commands) /\ Len(s.down) <= Len(t.down)
<1> DEFINE r == Send(s, Message("RELEASE", s.act.id))
<1> DEFINE t == Activation(r, "RELEASE")
<1>1. CASE s.act.state \in Live \cup {"FAILED"}
    <2>1. /\ Message("RELEASE", s.act.id) \in Messages
          /\ Message("RELEASE", s.act.id).type = "RELEASE"
        BY DEF Client, Act, Message, Messages, Types
    <2>2. /\ Frame(s, r) /\ Rests(s, r) /\ r.act = s.act /\ r.serial = s.serial
          /\ r.timers = s.timers
          /\ Adds(s.down, r.down, Commands) /\ Len(s.down) <= Len(r.down)
        BY <2>1, FrameSend DEF Commands
    <2>3. Release(s) = t
        BY <1>1 DEF Release
    <2> HIDE DEF r
    <2>4. /\ Frame(r, t) /\ Rests(r, t) /\ t.act.id = r.act.id /\ t.serial = r.serial
          /\ t.act.state = Reduce(ActivationEdges, r.act.state, "RELEASE")
          /\ t.down = r.down /\ t.timers = r.timers
        BY <2>2, FrameActivation DEF Events, Frame
    <2>5. t.act.state = "RELEASED"
        <3>1. Legal(ActivationEdges, s.act.state, "RELEASE")
            BY <1>1, Edges DEF Legal
        <3> QED BY <2>2, <2>4, <3>1, ActivationStep, EdgesOf
    <2>6. "RELEASED" \notin Live
        BY DEF Live
    <2> HIDE DEF t
    <2> QED BY <2>2, <2>3, <2>4, <2>5, <2>6, FrameChain
<1>2. CASE s.act.state \notin Live \cup {"FAILED"}
    <2>1. Len(s.down) \in Nat
        BY DEF Client
    <2> QED BY <1>2, <2>1, FrameSame, AddsNone DEF Release
<1> QED BY <1>1, <1>2

(* A new activation: its number is not in use and nothing wakes behind it. *)
LEMMA FrameActivate ==
    ASSUME NEW s \in Client
    PROVE  LET t == ActivateModern(s) IN
           /\ Frame(s, t) /\ t.pending = s.pending /\ t.owes = s.owes /\ ~t.visible
           /\ t.act.id = s.serial + 1
           /\ t.timers = (s.timers \ {"handshake", "prepare", "present"}) \cup {"prepare"}
           /\ Adds(s.down, t.down, Commands)
<1> DEFINE a == Clear(s, {"handshake", "prepare", "present"})
<1> DEFINE r == Release(a)
<1> DEFINE id == r.serial + 1
<1> DEFINE act == [id |-> id, state |-> "PREPARING", proof |-> NoProof]
<1> DEFINE n == [r EXCEPT !.serial = id, !.visible = FALSE, !.act = act]
<1> DEFINE m == Message("PREPARE", id)
<1> DEFINE d == Send(n, m)
<1> DEFINE t == Arm(d, "prepare")
<1>1. /\ Frame(s, a) /\ Rests(s, a) /\ a.serial = s.serial /\ a.down = s.down
      /\ a.timers = s.timers \ {"handshake", "prepare", "present"}
    BY Bounding, FrameClear
<1>2. ActivateModern(s) = t
    BY DEF ActivateModern
<1> HIDE DEF a
<1>3. /\ Frame(a, r) /\ Rests(a, r) /\ r.serial = a.serial /\ r.timers = a.timers
      /\ Adds(a.down, r.down, Commands) /\ Len(a.down) <= Len(r.down)
    BY <1>1, FrameRelease DEF Frame
<1> HIDE DEF r
<1>4. id \in Nat
    BY <1>3 DEF Frame, Client
<1>5. act \in Act /\ act.id = id
    BY <1>4 DEF Act, NoProof, ActivationStates, Live
<1>6. m \in Messages /\ m.type = "PREPARE"
    BY <1>4 DEF Message, Messages, Types
<1> HIDE DEF act, m
<1>7. /\ Frame(r, n) /\ n.pending = r.pending /\ n.owes = r.owes /\ ~n.visible
      /\ n.act = act /\ n.down = r.down /\ n.timers = r.timers
    <2> HIDE DEF id
    <2>1. r \in Client
        BY <1>3 DEF Frame
    <2>2. n \in Client
        BY <1>4, <1>5, <2>1 DEF Client
    <2>3. /\ n.wanted = r.wanted /\ n.failed = r.failed /\ n.tainted = r.tainted
          /\ n.replaced = r.replaced /\ n.mode = r.mode /\ n.epoch = r.epoch /\ n.doc = r.doc
          /\ n.lost = r.lost /\ n.evict = r.evict /\ n.up = r.up
          /\ n.pending = r.pending /\ n.owes = r.owes /\ ~n.visible
          /\ n.act = act /\ n.down = r.down /\ n.timers = r.timers
        BY <2>1 DEF Client
    <2> QED BY <2>1, <2>2, <2>3 DEF Frame
<1> HIDE DEF n
<1>8. /\ Frame(n, d) /\ Rests(n, d) /\ d.act = n.act /\ d.timers = n.timers
      /\ Adds(n.down, d.down, Commands) /\ Len(n.down) <= Len(d.down)
    BY <1>6, <1>7, FrameSend DEF Frame, Commands
<1> HIDE DEF d
<1>9. /\ Frame(d, t) /\ Rests(d, t) /\ t.act = d.act /\ t.down = d.down
      /\ t.timers = d.timers \cup {"prepare"}
    BY <1>8, FrameArm DEF Frame, Timers
<1> HIDE DEF t
<1>10. Frame(s, t)
    BY <1>1, <1>3, <1>7, <1>8, <1>9, FrameChain
<1>11. Adds(s.down, t.down, Commands)
    <2>1. a.down \in Seq(Messages) /\ r.down \in Seq(Messages) /\ d.down \in Seq(Messages)
        BY <1>3, <1>8 DEF Frame, Client
    <2> QED BY <1>1, <1>3, <1>7, <1>8, <1>9, <2>1, AddsChain
<1>12. t.act.id = s.serial + 1
    BY <1>1, <1>3, <1>5, <1>7, <1>8, <1>9 DEF id
<1> QED BY <1>1, <1>2, <1>3, <1>7, <1>8, <1>9, <1>10, <1>11, <1>12 DEF Rests

LEMMA FrameFail ==
    ASSUME NEW s \in Client
    PROVE  LET t == FailModern(s) IN
           /\ t \in Client /\ t.failed /\ ~t.pending /\ ~t.visible /\ t.owes = s.owes
           /\ t.wanted = s.wanted /\ t.evict = s.evict /\ t.mode = s.mode /\ t.doc = s.doc
           /\ t.epoch = s.epoch /\ t.act.state \notin Live /\ t.up = s.up /\ t.down = s.down
           /\ t.timers = s.timers \ {"handshake", "prepare", "present"}
<1> DEFINE a == Clear(s, {"handshake", "prepare", "present"})
<1> DEFINE b == Activation(a, "FAIL")
<1> DEFINE strikes == IF b.strikes < Threshold THEN b.strikes + 1 ELSE b.strikes
<1> DEFINE t == FailModern(s)
<1>1. /\ Frame(s, a) /\ Rests(s, a) /\ a.act = s.act /\ a.down = s.down
      /\ a.timers = s.timers \ {"handshake", "prepare", "present"}
    BY Bounding, FrameClear
<1>2. t = [b EXCEPT !.pending = FALSE, !.strikes = strikes, !.failed = TRUE, !.visible = FALSE]
    BY DEF FailModern
<1> HIDE DEF a, t
<1>3. /\ Frame(a, b) /\ Rests(a, b) /\ b.down = a.down /\ b.timers = a.timers
      /\ b.act.state = Reduce(ActivationEdges, a.act.state, "FAIL")
    BY <1>1, FrameActivation DEF Events, Frame
<1>4. b.act.state \notin Live
    <2>1. s.act.state \in Live => Legal(ActivationEdges, s.act.state, "FAIL")
        BY Edges DEF Legal
    <2>2. \A e \in ActivationEdges : e[2] = "FAIL" => e[3] \notin Live
        BY EdgesOf DEF Live
    <2>3. \/ b.act.state = s.act.state /\ ~Legal(ActivationEdges, s.act.state, "FAIL")
          \/ \E e \in ActivationEdges : e[2] = "FAIL" /\ b.act.state = e[3]
        BY <1>1, <1>3, ActivationStep
    <2> QED BY <2>1, <2>2, <2>3
<1> HIDE DEF b
<1>5. strikes \in 0..Threshold
    BY <1>3, BoundsAssumption DEF Frame, Client
<1> HIDE DEF strikes
<1>6. b \in Client
    BY <1>3 DEF Frame
<1>7. t \in Client
    BY <1>2, <1>5, <1>6 DEF Client
<1>8. /\ t.failed /\ ~t.pending /\ ~t.visible /\ t.owes = b.owes /\ t.epoch = b.epoch
      /\ t.wanted = b.wanted /\ t.evict = b.evict /\ t.mode = b.mode /\ t.doc = b.doc
      /\ t.act = b.act /\ t.up = b.up /\ t.down = b.down /\ t.timers = b.timers
    BY <1>2, <1>6 DEF Client
<1> QED BY <1>1, <1>3, <1>4, <1>7, <1>8 DEF Frame, Rests, t

LEMMA FramePresent ==
    ASSUME NEW s \in Client
    PROVE  LET t == SendPresent(s) IN
           /\ Frame(s, t) /\ Rests(s, t) /\ t.act.id = s.act.id
           /\ t.act.state \in Live => s.act.state \in Live
           /\ t.timers = s.timers \cup {"present"}
           /\ Adds(s.down, t.down, Commands) /\ Len(s.down) <= Len(t.down)
<1> DEFINE m == Message("PRESENT", s.act.id)
<1> DEFINE d == Send(s, m)
<1> DEFINE b == Activation(d, "PRESENT")
<1> DEFINE t == Arm(b, "present")
<1>1. m \in Messages /\ m.type = "PRESENT"
    BY DEF Client, Act, Message, Messages, Types
<1>2. SendPresent(s) = t
    BY DEF SendPresent
<1> HIDE DEF m
<1>3. /\ Frame(s, d) /\ Rests(s, d) /\ d.act = s.act /\ d.timers = s.timers
      /\ Adds(s.down, d.down, Commands) /\ Len(s.down) <= Len(d.down)
    BY <1>1, FrameSend DEF Commands
<1> HIDE DEF d
<1>4. /\ Frame(d, b) /\ Rests(d, b) /\ b.act.id = d.act.id /\ b.timers = d.timers
      /\ b.down = d.down /\ (b.act.state \in Live => d.act.state \in Live)
    BY <1>3, FrameActivation DEF Events, Frame
<1> HIDE DEF b
<1>5. /\ Frame(b, t) /\ Rests(b, t) /\ t.act = b.act /\ t.down = b.down
      /\ t.timers = b.timers \cup {"present"}
    BY <1>4, FrameArm DEF Timers, Frame
<1> HIDE DEF t
<1>6. Frame(s, t) /\ Rests(s, t)
    BY <1>3, <1>4, <1>5, FrameChain DEF Rests
<1> QED BY <1>2, <1>3, <1>4, <1>5, <1>6

LEMMA FrameReveal ==
    ASSUME NEW s \in Client
    PROVE  LET t == Reveal(s) IN
           /\ Frame(s, t) /\ t.pending = s.pending /\ t.owes = s.owes
           /\ t.act.id = s.act.id /\ (t.act.state \in Live => s.act.state \in Live)
           /\ t.down = s.down /\ t.timers = s.timers
           /\ ModernActive(s) /\ MayReveal(s) => t.visible
           /\ ~(ModernActive(s) /\ MayReveal(s)) => t = s
<1> DEFINE a == Activation(s, "ACTIVATE")
<1> DEFINE t == [a EXCEPT !.visible = TRUE]
<1>1. /\ Frame(s, a) /\ Rests(s, a) /\ a.act.id = s.act.id
      /\ a.down = s.down /\ a.timers = s.timers
      /\ a.act.state \in Live => s.act.state \in Live
    BY FrameActivation DEF Events
<1> HIDE DEF a
<1>2. /\ Frame(a, t) /\ t.pending = a.pending /\ t.owes = a.owes /\ t.act = a.act
      /\ t.down = a.down /\ t.timers = a.timers /\ t.visible
    BY <1>1 DEF Frame, Client
<1> HIDE DEF t
<1>3. Frame(s, t)
    BY <1>1, <1>2, FrameChain
<1>4. Reveal(s) = IF ModernActive(s) /\ MayReveal(s) THEN t ELSE s
    BY DEF Reveal, a, t
<1>5. CASE ModernActive(s) /\ MayReveal(s)
    BY <1>1, <1>2, <1>3, <1>4, <1>5 DEF Rests
<1>6. CASE ~(ModernActive(s) /\ MayReveal(s))
    BY <1>4, <1>6, FrameSame DEF Rests
<1> QED BY <1>5, <1>6

LEMMA FrameRest ==
    ASSUME c \in Client, c.up # <<>>
    PROVE  /\ Rest \in Client /\ Rests(c, Rest)
           /\ Rest.wanted = c.wanted /\ Rest.failed = c.failed /\ Rest.tainted = c.tainted
           /\ Rest.replaced = c.replaced /\ Rest.mode = c.mode /\ Rest.epoch = c.epoch
           /\ Rest.doc = c.doc /\ Rest.lost = c.lost /\ Rest.evict = c.evict
           /\ Rest.up = Tail(c.up) /\ Rest.act = c.act /\ Rest.serial = c.serial
           /\ Rest.down = c.down /\ Rest.timers = c.timers
<1>1. c.up \in Seq(Messages)
    BY DEF Client
<1>2. Tail(c.up) \in Seq(Messages)
    BY <1>1, TailFacts
<1> QED BY <1>2 DEF Client, Rest, Rests

LEMMA FrameLegacy ==
    ASSUME NEW s \in Client
    PROVE  LET t == ActivateLegacy(s) IN
           /\ Frame(s, t) /\ t.pending = s.pending /\ t.owes = s.owes /\ ~t.visible
           /\ t.act = s.act /\ t.down = s.down /\ t.timers = s.timers \ {"handshake"}
<1> DEFINE a == Clear(s, {"handshake"})
<1> DEFINE t == [a EXCEPT !.v2 = TRUE, !.visible = FALSE]
<1>1. /\ Frame(s, a) /\ Rests(s, a) /\ a.act = s.act /\ a.down = s.down
      /\ a.timers = s.timers \ {"handshake"}
    BY TimerSets, FrameClear
<1>2. ActivateLegacy(s) = t
    BY DEF ActivateLegacy
<1> HIDE DEF a
<1>3. /\ Frame(a, t) /\ t.pending = a.pending /\ t.owes = a.owes /\ ~t.visible
      /\ t.act = a.act /\ t.down = a.down /\ t.timers = a.timers
    BY <1>1 DEF Frame, Client
<1> HIDE DEF t
<1>4. Frame(s, t)
    BY <1>1, <1>3, FrameChain
<1> QED BY <1>1, <1>2, <1>3, <1>4 DEF Rests

LEMMA FrameFallBack ==
    ASSUME NEW s \in Client
    PROVE  LET t == FallBack(s) IN
           /\ t \in Client /\ t.mode = "legacy" /\ t.doc = "UNMOUNTED"
           /\ t.wanted = s.wanted /\ t.failed = s.failed /\ t.evict = s.evict
           /\ t.pending = s.pending /\ (t.owes => s.owes) /\ t.act = s.act
           /\ t.up = <<>> /\ t.down = <<>>
           /\ t.timers \subseteq s.timers
           /\ t.pending => "handshake" \notin t.timers
<1> DEFINE d == [s EXCEPT !.mode = "legacy", !.doc = "UNMOUNTED", !.lost = FALSE,
                          !.down = <<>>, !.up = <<>>, !.pending = FALSE]
<1> DEFINE r == PayDebt(d)
<1> DEFINE w == [r EXCEPT !.pending = TRUE]
<1> DEFINE t == ActivateLegacy(w)
<1>1. FallBack(s) = IF s.pending THEN t ELSE d
    BY DEF FallBack
<1>2. /\ d \in Client /\ d.mode = "legacy" /\ d.doc = "UNMOUNTED"
      /\ d.wanted = s.wanted /\ d.failed = s.failed /\ d.evict = s.evict
      /\ ~d.pending /\ d.owes = s.owes /\ d.act = s.act
      /\ d.up = <<>> /\ d.down = <<>> /\ d.timers = s.timers
    <2>1. "legacy" \in Modes /\ "UNMOUNTED" \in DocumentStates /\ <<>> \in Seq(Messages)
        BY DEF Modes, DocumentStates
    <2>2. d \in Client
        BY <2>1 DEF Client
    <2>3. /\ d.mode = "legacy" /\ d.doc = "UNMOUNTED"
          /\ d.wanted = s.wanted /\ d.failed = s.failed /\ d.evict = s.evict
          /\ ~d.pending /\ d.owes = s.owes /\ d.act = s.act
          /\ d.up = <<>> /\ d.down = <<>> /\ d.timers = s.timers
        BY DEF Client
    <2> QED BY <2>2, <2>3
<1> HIDE DEF d
<1>3. /\ Frame(d, r) /\ r.act = d.act /\ r.timers = d.timers
    BY <1>2, FrameDebts
<1>4. r.down = d.down /\ (r.owes => d.owes)
    <2>1. Send(d, Plain("RESUME")) = d
        BY <1>2 DEF Send
    <2> QED BY <1>2, <2>1 DEF PayDebt, Client
<1> HIDE DEF r
<1>5. /\ Frame(r, w) /\ w.pending /\ w.owes = r.owes /\ w.act = r.act
      /\ w.down = r.down /\ w.timers = r.timers
    BY <1>3 DEF Frame, Client
<1> HIDE DEF w
<1>6. /\ Frame(w, t) /\ t.pending /\ t.owes = w.owes /\ t.act = w.act
      /\ t.down = w.down /\ t.timers = w.timers \ {"handshake"}
    BY <1>5, FrameLegacy DEF Frame
<1> HIDE DEF t
<1>7. Frame(d, t)
    BY <1>3, <1>5, <1>6, FrameChain
<1>8. s.pending \in BOOLEAN /\ t.pending \in BOOLEAN /\ d.pending \in BOOLEAN
    BY <1>2, <1>6 DEF Frame, Client
<1>9. CASE s.pending
    <2>1. /\ t \in Client /\ t.mode = d.mode /\ t.doc = d.doc /\ t.wanted = d.wanted
          /\ t.failed = d.failed /\ t.evict = d.evict /\ t.up = d.up
        BY <1>7 DEF Frame
    <2>2. /\ t.act = d.act /\ t.down = d.down /\ (t.owes => d.owes)
          /\ t.timers = d.timers \ {"handshake"}
        BY <1>3, <1>4, <1>5, <1>6
    <2>3. t.pending = s.pending
        BY <1>6, <1>8, <1>9
    <2>4. FallBack(s) = t
        BY <1>1, <1>9
    <2>5. t.timers \subseteq s.timers /\ "handshake" \notin t.timers
        BY <1>2, <2>2
    <2> QED BY <1>2, <2>1, <2>2, <2>3, <2>4, <2>5
<1>10. CASE ~s.pending
    BY <1>1, <1>2, <1>8, <1>10
<1> QED BY <1>9, <1>10

LEMMA DocumentEnds ==
    ASSUME NEW st
    PROVE  /\ Reduce(DocumentEdges, st, "EVICT") \notin Listening
           /\ Reduce(DocumentEdges, st, "DISPOSE") \notin Listening
           /\ Reduce(DocumentEdges, st, "DISPOSED") \in Listening
                => Reduce(DocumentEdges, st, "DISPOSED") = st
<1>1. \A e \in DocumentEdges : e[2] \in {"EVICT", "DISPOSE", "DISPOSED"} => e[3] \notin Listening
    BY DEF DocumentEdges, Listening
<1>2. /\ <<"DOCUMENT_READY", "EVICT", "EVICTED">> \in DocumentEdges
      /\ <<"SUSPENDED", "EVICT", "EVICTED">> \in DocumentEdges
      /\ <<"DOCUMENT_READY", "DISPOSE", "DISPOSING">> \in DocumentEdges
      /\ <<"SUSPENDED", "DISPOSE", "DISPOSING">> \in DocumentEdges
    BY DEF DocumentEdges
<1>3. ASSUME NEW event, Legal(DocumentEdges, st, event)
      PROVE  \E e \in DocumentEdges : e[2] = event /\ Reduce(DocumentEdges, st, event) = e[3]
    BY <1>3 DEF Legal, Reduce
<1>4. ASSUME NEW event, ~Legal(DocumentEdges, st, event)
      PROVE  Reduce(DocumentEdges, st, event) = st
    BY <1>4 DEF Reduce
<1>5. st \in Listening => Legal(DocumentEdges, st, "EVICT") /\ Legal(DocumentEdges, st, "DISPOSE")
    BY <1>2 DEF Legal, Listening
<1> QED BY <1>1, <1>3, <1>4, <1>5

LEMMA FrameSettle ==
    ASSUME NEW s \in Client
    PROVE  LET t == SettleEviction(s) IN
           \/ t = s /\ s.evict \notin {"grace", "disposing"}
           \/ /\ s.evict \in {"grace", "disposing"} /\ t.evict = "evicted"
              /\ t \in Client /\ t.mode = "closed" /\ t.doc \notin Listening
              /\ t.wanted = s.wanted /\ t.failed = s.failed /\ t.pending = s.pending
              /\ t.act = NoActivation /\ ~t.owes /\ t.up = <<>> /\ t.down = <<>>
              /\ t.timers \subseteq s.timers
<1>1. CASE s.evict \notin {"grace", "disposing"}
    BY <1>1 DEF SettleEviction
<1>2. CASE s.evict \in {"grace", "disposing"}
    <2> DEFINE a == Clear(s, {"grace", "dispose"})
    <2> DEFINE d == Document(a, "EVICT")
    <2> DEFINE t == [d EXCEPT !.evict = "evicted", !.owes = FALSE, !.mode = "closed",
                              !.act = NoActivation, !.down = <<>>, !.up = <<>>]
    <2>1. Frame(s, a) /\ Rests(s, a) /\ a.timers \subseteq s.timers
        <3>1. {"grace", "dispose"} \in SUBSET Timers
            BY DEF Timers
        <3> QED BY <3>1, FrameClear
    <2> HIDE DEF a
    <2>2. /\ d \in Client /\ d.doc = Reduce(DocumentEdges, a.doc, "EVICT")
          /\ d.wanted = a.wanted /\ d.failed = a.failed /\ d.pending = a.pending
          /\ d.timers = a.timers
        <3>1. a \in Client
            BY <2>1 DEF Frame
        <3>2. d \in Client
            BY <3>1, DocumentFields
        <3> QED BY <3>1, <3>2 DEF Document, Client
    <2> HIDE DEF d
    <2>3. /\ t.mode = "closed" /\ t.doc = d.doc /\ t.evict = "evicted"
          /\ t.wanted = d.wanted /\ t.failed = d.failed /\ t.pending = d.pending
          /\ t.act = NoActivation /\ ~t.owes /\ t.up = <<>> /\ t.down = <<>>
          /\ t.timers = d.timers
        BY <2>2 DEF Client
    <2> HIDE DEF t
    <2>4. SettleEviction(s) = t
        BY <1>2 DEF SettleEviction, a, d, t
    <2>5. t \in Client
        BY <2>4, SettleEnds
    <2> QED BY <1>2, <2>1, <2>2, <2>3, <2>4, <2>5, DocumentEnds DEF Frame, Rests
<1> QED BY <1>1, <1>2

LEMMA FrameOpen ==
    ASSUME NEW s \in Client
    PROVE  LET t == Open(s) IN
           \/ t = s
           \/ /\ t \in Client /\ t.mode = "offering" /\ t.doc = "MOUNTING" /\ ~t.lost
              /\ t.up = <<>> /\ t.down = <<>>
              /\ t.wanted = s.wanted /\ t.failed = s.failed /\ t.tainted = s.tainted
              /\ t.replaced = s.replaced /\ t.evict = s.evict
              /\ t.pending = s.pending /\ t.owes = s.owes /\ t.visible = s.visible
              /\ t.act = s.act /\ t.timers = s.timers
<1> DEFINE t == [s EXCEPT !.mode = "offering", !.epoch = @ + 1, !.doc = "MOUNTING",
                          !.lost = FALSE, !.down = <<>>, !.up = <<>>]
<1>1. Open(s) \in {s, t} /\ Open(s) \in Client
    BY OpenFields DEF Open
<1>2. /\ t.mode = "offering" /\ t.doc = "MOUNTING" /\ ~t.lost
      /\ t.up = <<>> /\ t.down = <<>>
      /\ t.wanted = s.wanted /\ t.failed = s.failed /\ t.tainted = s.tainted
      /\ t.replaced = s.replaced /\ t.evict = s.evict
      /\ t.pending = s.pending /\ t.owes = s.owes /\ t.visible = s.visible
      /\ t.act = s.act /\ t.timers = s.timers
    BY DEF Client
<1> HIDE DEF t
<1> QED BY <1>1, <1>2

LEMMA FrameLoad ==
    ASSUME NEW s \in Client
    PROVE  LET t == HandleFrameLoad(s) IN
           /\ t \in Client /\ t.doc \notin Listening
           /\ t.up = <<>> /\ t.down = <<>> /\ t.timers = {}
           /\ t.wanted = s.wanted /\ t.failed = s.failed /\ t.pending = s.pending
           /\ ~t.owes /\ t.act = NoActivation
           /\ s.evict = "none" => t.evict = "none"
<1> DEFINE b == SettleEviction(s)
<1> DEFINE a == [b EXCEPT !.timers = {}, !.owes = FALSE]
<1> DEFINE epoch == IF BreakerOpen(s) THEN a.epoch + 1 ELSE a.epoch
<1> DEFINE doc == IF a.doc = "EVICTED" THEN a.doc ELSE "MOUNTING"
<1> DEFINE e == [a EXCEPT !.act = NoActivation, !.lost = FALSE, !.v2 = FALSE,
                          !.epoch = epoch, !.doc = doc, !.up = <<>>, !.down = <<>>]
<1>1. HandleFrameLoad(s) = Open(e)
    BY DEF HandleFrameLoad, BumpGeneration
<1>2. /\ b \in Client
      /\ b.wanted = s.wanted /\ b.failed = s.failed /\ b.pending = s.pending
      /\ s.evict = "none" => b.evict = "none"
    BY FrameSettle
<1> HIDE DEF b
<1>3. /\ a.wanted = b.wanted /\ a.failed = b.failed /\ a.pending = b.pending
      /\ a.evict = b.evict /\ ~a.owes /\ a.timers = {} /\ a \in Client
    BY <1>2 DEF Client
<1> HIDE DEF a
<1>4. /\ epoch \in Nat \ {0} /\ doc \in DocumentStates /\ <<>> \in Seq(Messages)
      /\ doc \notin Listening
    BY <1>3 DEF Client, DocumentStates, Listening
<1> HIDE DEF epoch, doc
<1>5. /\ e.wanted = a.wanted /\ e.failed = a.failed /\ e.pending = a.pending
      /\ e.evict = a.evict /\ e.owes = a.owes /\ e.timers = a.timers
      /\ e.act = NoActivation /\ e.doc = doc /\ e.up = <<>> /\ e.down = <<>>
    BY <1>3 DEF Client
<1>6. e \in Client
    <2> DEFINE d == [a EXCEPT !.act = NoActivation, !.lost = FALSE, !.v2 = FALSE]
    <2>1. NoActivation \in Act
        BY NoneIs
    <2>2. d \in Client
        BY <1>3, <2>1 DEF Client
    <2>3. e = [d EXCEPT !.epoch = epoch, !.doc = doc, !.up = <<>>, !.down = <<>>]
        BY <1>3 DEF Client
    <2> HIDE DEF d
    <2>4. [d EXCEPT !.epoch = epoch, !.doc = doc, !.up = <<>>, !.down = <<>>] \in Client
        BY <1>4, <2>2 DEF Client
    <2> QED BY <2>3, <2>4
<1> HIDE DEF e
<1>7. "MOUNTING" \notin Listening
    BY DEF Listening
<1> QED BY <1>1, <1>2, <1>3, <1>4, <1>5, <1>6, <1>7, FrameOpen

-----------------------------------------------------------------------------
(* What the document has heard of its suspends. *)
Holds(q, type) == \E k \in DOMAIN q : q[k].type = type

(* Behind the last SUSPENDED there is no RESUMED. *)
Lulled(q) == \E k \in DOMAIN q : /\ q[k].type = "SUSPENDED"
                                 /\ \A j \in DOMAIN q : j > k => q[j].type # "RESUMED"

(* The client takes the document for suspended, or will once it has read what *)
(* is on its way.                                                            *)
Sleeps(s) == (s.doc = "SUSPENDED" /\ ~Holds(s.up, "RESUMED")) \/ Lulled(s.up)

(* Then it is.  And until the child has read INIT nothing was heard of it.   *)
Heard(s, ch) ==
    /\ Sleeps(s) => ch.suspended
    /\ \A k \in DOMAIN s.down : s.down[k].type = "INIT" => k = 1
    /\ Holds(s.down, "INIT") => /\ s.doc \notin Listening
                                /\ ~Holds(s.up, "READY") /\ ~Holds(s.up, "SUSPENDED")
    /\ s.mode = "offering" => s.doc \notin Listening

LEMMA SilentHeard ==
    ASSUME NEW t, NEW ch, t.doc \notin Listening, t.up = <<>>, t.down = <<>>
    PROVE  Heard(t, ch)
BY DEF Heard, Sleeps, Lulled, Holds, Listening

LEMMA FrameHeard ==
    ASSUME NEW s, NEW t, NEW ch, Heard(s, ch), NEW types \in {Commands, Debts},
           t.doc = s.doc, t.up = s.up, t.mode \in {s.mode, "legacy"}, Adds(s.down, t.down, types)
    PROVE  Heard(t, ch)
<1>1. "INIT" \notin types
    BY DEF Commands, Debts
<1>2. \A k \in DOMAIN t.down : t.down[k].type = "INIT" => k \in DOMAIN s.down /\ s.down[k] = t.down[k]
    BY <1>1 DEF Adds
<1>3. Sleeps(t) <=> Sleeps(s)
    BY DEF Sleeps
<1> QED BY <1>2, <1>3 DEF Heard, Holds

LEMMA SleepsTail ==
    ASSUME NEW q \in Seq(Messages), q # <<>>
    PROVE  /\ Lulled(Tail(q)) => Lulled(q)
           /\ Head(q).type = "SUSPENDED" /\ ~Holds(Tail(q), "RESUMED") => Lulled(q)
           /\ Head(q).type # "RESUMED" /\ Holds(q, "RESUMED") => Holds(Tail(q), "RESUMED")
           /\ \A type : Holds(Tail(q), type) => Holds(q, type)
           /\ \A k \in DOMAIN q : k = 1 \/ (k - 1 \in DOMAIN Tail(q) /\ Tail(q)[k - 1] = q[k])
<1> DEFINE r == Tail(q)
<1>1. /\ Head(q) = q[1] /\ 1 \in DOMAIN q
      /\ \A k \in DOMAIN r : k \in Nat /\ k + 1 \in DOMAIN q /\ k + 1 > 1 /\ r[k] = q[k + 1]
      /\ \A k \in DOMAIN q : k \in Nat /\ (k = 1 \/ (k > 1 /\ k - 1 \in DOMAIN r /\ r[k - 1] = q[k]))
    <2>1. Len(q) \in Nat /\ Len(q) # 0 /\ DOMAIN q = 1..Len(q)
        OBVIOUS
    <2>2. DOMAIN r = 1..(Len(q) - 1) /\ \A k \in 1..(Len(q) - 1) : r[k] = q[k + 1]
        BY <2>1
    <2> QED BY <2>1, <2>2
<1> HIDE DEF r
<1>2. ASSUME Lulled(r) PROVE Lulled(q)
    <2>1. PICK k \in DOMAIN r : /\ r[k].type = "SUSPENDED"
                                /\ \A j \in DOMAIN r : j > k => r[j].type # "RESUMED"
        BY <1>2 DEF Lulled
    <2>2. k + 1 \in DOMAIN q /\ q[k + 1].type = "SUSPENDED"
        BY <1>1, <2>1
    <2>3. ASSUME NEW j \in DOMAIN q, j > k + 1 PROVE q[j].type # "RESUMED"
        <3>1. j - 1 \in DOMAIN r /\ j - 1 > k /\ r[j - 1] = q[j]
            BY <1>1, <2>3
        <3> QED BY <2>1, <3>1
    <2> QED BY <2>2, <2>3 DEF Lulled
<1>3. ASSUME q[1].type = "SUSPENDED", ~Holds(r, "RESUMED") PROVE Lulled(q)
    <2>1. \A j \in DOMAIN q : j > 1 => q[j].type # "RESUMED"
        BY <1>1, <1>3 DEF Holds
    <2> QED BY <1>1, <1>3, <2>1 DEF Lulled
<1>4. ASSUME q[1].type # "RESUMED", Holds(q, "RESUMED") PROVE Holds(r, "RESUMED")
    <2>1. PICK k \in DOMAIN q : q[k].type = "RESUMED"
        BY <1>4 DEF Holds
    <2>2. k - 1 \in DOMAIN r /\ r[k - 1] = q[k]
        BY <1>1, <1>4, <2>1
    <2> QED BY <2>1, <2>2 DEF Holds
<1>5. \A type : Holds(r, type) => Holds(q, type)
    BY <1>1 DEF Holds
<1> QED BY <1>1, <1>2, <1>3, <1>4, <1>5 DEF r

LEMMA SleepsAppend ==
    ASSUME NEW q \in Seq(Messages), NEW m \in Messages
    PROVE  /\ \A type : Holds(q, type) => Holds(Append(q, m), type)
           /\ \A type : Holds(Append(q, m), type) => Holds(q, type) \/ m.type = type
           /\ Holds(Append(q, m), m.type)
           /\ m.type # "SUSPENDED" /\ Lulled(Append(q, m)) => Lulled(q)
           /\ m.type = "RESUMED" => ~Lulled(Append(q, m))
<1> DEFINE r == Append(q, m)
<1> DEFINE n == Len(q) + 1
<1>1. /\ Len(q) \in Nat /\ DOMAIN q = 1..Len(q) /\ DOMAIN r = 1..n
      /\ \A k \in 1..Len(q) : r[k] = q[k]
      /\ r[n] = m
    OBVIOUS
<1> HIDE DEF r
<1>2. n \in DOMAIN r /\ \A k \in DOMAIN r : k = n \/ (k \in DOMAIN q /\ k < n /\ r[k] = q[k])
    BY <1>1
<1>3. \A k \in DOMAIN q : k \in DOMAIN r /\ k < n /\ r[k] = q[k]
    BY <1>1
<1> HIDE DEF n
<1>4. m.type # "SUSPENDED" /\ Lulled(r) => Lulled(q)
    BY <1>1, <1>2, <1>3 DEF Lulled
<1>5. \A k \in DOMAIN r : k = n \/ n > k
    BY <1>1 DEF n
<1>6. m.type = "RESUMED" => ~Lulled(r)
    BY <1>1, <1>2, <1>5 DEF Lulled
<1>7. /\ \A type : Holds(q, type) => Holds(r, type)
      /\ \A type : Holds(r, type) => Holds(q, type) \/ m.type = type
      /\ Holds(r, m.type)
    BY <1>1, <1>2, <1>3 DEF Holds
<1> QED BY <1>4, <1>6, <1>7 DEF r

LEMMA DocumentHears ==
    ASSUME NEW st
    PROVE  /\ Reduce(DocumentEdges, st, "READY") \in {st, "DOCUMENT_READY"}
           /\ Reduce(DocumentEdges, st, "SUSPENDED") \in {st, "SUSPENDED"}
           /\ st \notin Listening => Reduce(DocumentEdges, st, "SUSPENDED") = st
           /\ Reduce(DocumentEdges, st, "RESUMED") # "SUSPENDED"
           /\ st \notin Listening => Reduce(DocumentEdges, st, "RESUMED") = st
           /\ st \in Listening => /\ Reduce(DocumentEdges, st, "READY") \in Listening
                                  /\ Reduce(DocumentEdges, st, "SUSPENDED") \in Listening
                                  /\ Reduce(DocumentEdges, st, "RESUMED") \in Listening
<1>1. \A e \in DocumentEdges : /\ e[2] = "READY" => e[3] = "DOCUMENT_READY"
                               /\ e[2] = "SUSPENDED" => e[3] = "SUSPENDED" /\ e[1] \in Listening
                               /\ e[2] = "RESUMED" => e[3] = "DOCUMENT_READY" /\ e[1] \in Listening
    BY DEF DocumentEdges, Listening
<1>2. <<"SUSPENDED", "RESUMED", "DOCUMENT_READY">> \in DocumentEdges
    BY DEF DocumentEdges
<1>3. ASSUME NEW event, Legal(DocumentEdges, st, event)
      PROVE  \E e \in DocumentEdges : /\ e[1] = st /\ e[2] = event
                                      /\ Reduce(DocumentEdges, st, event) = e[3]
    BY <1>3 DEF Legal, Reduce
<1>4. ASSUME NEW event, ~Legal(DocumentEdges, st, event)
      PROVE  Reduce(DocumentEdges, st, event) = st
    BY <1>4 DEF Reduce
<1>5. Legal(DocumentEdges, "SUSPENDED", "RESUMED")
    BY <1>2 DEF Legal
<1>6. Reduce(DocumentEdges, st, "READY") \in {st, "DOCUMENT_READY"}
    BY <1>1, <1>3, <1>4
<1>7. /\ Reduce(DocumentEdges, st, "SUSPENDED") \in {st, "SUSPENDED"}
      /\ st \notin Listening => Reduce(DocumentEdges, st, "SUSPENDED") = st
    BY <1>1, <1>3, <1>4
<1>8. /\ Reduce(DocumentEdges, st, "RESUMED") \in {st, "DOCUMENT_READY"}
      /\ st \notin Listening => Reduce(DocumentEdges, st, "RESUMED") = st
    BY <1>1, <1>3, <1>4
<1>9. Reduce(DocumentEdges, st, "RESUMED") # "SUSPENDED"
    <2>1. CASE st = "SUSPENDED"
        <3>1. Reduce(DocumentEdges, st, "RESUMED") = "DOCUMENT_READY"
            BY <1>1, <1>3, <1>5, <2>1
        <3> QED BY <3>1
    <2>2. CASE st # "SUSPENDED"
        BY <1>8, <2>2
    <2> QED BY <2>1, <2>2
<1> QED BY <1>6, <1>7, <1>8, <1>9 DEF Listening

(* The client reads a message and moves its document by it. *)
LEMMA ReadHeard ==
    ASSUME NEW s \in Client, NEW ch, Heard(s, ch), s.up # <<>>, s.mode # "offering", NEW t,
           t.up = Tail(s.up), t.down = s.down, t.mode = s.mode,
           \/ Head(s.up).type \in {"READY", "SUSPENDED", "RESUMED"}
              /\ t.doc = Reduce(DocumentEdges, s.doc, Head(s.up).type)
           \/ Head(s.up).type \notin {"READY", "SUSPENDED", "RESUMED"}
              /\ (t.doc = s.doc \/ t.doc \notin Listening)
    PROVE  Heard(t, ch)
<1>1. s.up \in Seq(Messages) /\ 1 \in DOMAIN s.up /\ Head(s.up) = s.up[1]
    BY TailFacts DEF Client
<1> DEFINE type == Head(s.up).type
<1>2. Holds(s.up, type)
    BY <1>1 DEF Holds
<1> DEFINE Read(event) == Reduce(DocumentEdges, s.doc, event)
<1>3. /\ Read("READY") \in {s.doc, "DOCUMENT_READY"}
      /\ Read("SUSPENDED") \in {s.doc, "SUSPENDED"}
      /\ Read("RESUMED") # "SUSPENDED"
      /\ s.doc \notin Listening => Read("RESUMED") = s.doc
    BY DocumentHears
<1> HIDE DEF Read
<1>4. /\ type = "READY" => t.doc = Read("READY")
      /\ type = "SUSPENDED" => t.doc = Read("SUSPENDED")
      /\ type = "RESUMED" => t.doc = Read("RESUMED")
      /\ type \notin {"READY", "SUSPENDED", "RESUMED"} => t.doc = s.doc \/ t.doc \notin Listening
    BY DEF Read
<1> HIDE DEF type
<1>5. /\ Lulled(t.up) => Lulled(s.up)
      /\ type = "SUSPENDED" /\ ~Holds(t.up, "RESUMED") => Lulled(s.up)
      /\ type # "RESUMED" /\ Holds(s.up, "RESUMED") => Holds(t.up, "RESUMED")
      /\ \A x : Holds(t.up, x) => Holds(s.up, x)
    BY <1>1, SleepsTail DEF type
<1>6. Sleeps(t) => Sleeps(s)
    <2>1. CASE type = "RESUMED"
        BY <1>3, <1>4, <1>5, <2>1 DEF Sleeps
    <2>2. CASE type = "SUSPENDED"
        BY <1>5, <2>2 DEF Sleeps
    <2>3. CASE type \notin {"SUSPENDED", "RESUMED"}
        <3>1. t.doc = "SUSPENDED" => s.doc = "SUSPENDED"
            BY <1>3, <1>4, <2>3 DEF Listening
        <3> QED BY <1>5, <2>3, <3>1 DEF Sleeps
    <2> QED BY <2>1, <2>2, <2>3
<1>7. Holds(s.down, "INIT") => t.doc \notin Listening
    BY <1>2, <1>3, <1>4 DEF Heard
<1> QED BY <1>5, <1>6, <1>7 DEF Heard

(* The child says something. *)
LEMMA PostHeard ==
    ASSUME NEW s \in Client, NEW ch, Heard(s, ch), NEW m \in Messages, NEW t, NEW new,
           m.type \notin {"SUSPENDED", "READY"},
           t.up = Append(s.up, m), t.down = s.down, t.mode = s.mode, t.doc = s.doc,
           new.suspended = ch.suspended
    PROVE  Heard(t, new)
<1>1. s.up \in Seq(Messages)
    BY DEF Client
<1>2. /\ Holds(s.up, "RESUMED") => Holds(t.up, "RESUMED")
      /\ Lulled(t.up) => Lulled(s.up)
      /\ Holds(t.up, "READY") => Holds(s.up, "READY")
      /\ Holds(t.up, "SUSPENDED") => Holds(s.up, "SUSPENDED")
    BY <1>1, SleepsAppend
<1>3. Sleeps(t) => Sleeps(s)
    BY <1>2 DEF Sleeps
<1> QED BY <1>2, <1>3 DEF Heard

(* The child reads a command: then INIT is behind it, and what it answers is *)
(* heard in its turn.                                                       *)
LEMMA TakeHeard ==
    ASSUME NEW s \in Client, NEW ch, Heard(s, ch), s.down # <<>>, NEW t, NEW new,
           t.down = Tail(s.down), t.mode = s.mode, t.doc = s.doc,
           \/ /\ t.up = s.up /\ new.suspended = ch.suspended
           \/ \E m \in Messages : t.up = Append(s.up, m) /\
                \/ m.type = "SUSPENDED" /\ new.suspended
                \/ m.type = "RESUMED"
                \/ m.type = "READY" /\ Head(s.down).type = "INIT"
                \/ m.type = "DISPOSED" /\ new.suspended = ch.suspended
    PROVE  Heard(t, new)
<1>1. s.down \in Seq(Messages) /\ s.up \in Seq(Messages)
    BY DEF Client
<1>2. ~Holds(t.down, "INIT")
    <2>1. \A k \in DOMAIN Tail(s.down) :
            k \in Nat \ {0} /\ k + 1 \in DOMAIN s.down /\ Tail(s.down)[k] = s.down[k + 1]
        BY <1>1, TailFacts
    <2>2. \A k \in DOMAIN Tail(s.down) : k + 1 # 1
        BY <2>1
    <2> QED BY <2>1, <2>2 DEF Heard, Holds
<1>3. Sleeps(t) => new.suspended
    <2>1. CASE t.up = s.up /\ new.suspended = ch.suspended
        BY <2>1 DEF Sleeps, Heard
    <2>2. ASSUME NEW m \in Messages, t.up = Append(s.up, m), m.type = "RESUMED"
          PROVE  ~Sleeps(t)
        BY <1>1, <2>2, SleepsAppend DEF Sleeps
    <2>3. ASSUME NEW m \in Messages, t.up = Append(s.up, m), m.type = "DISPOSED",
                 new.suspended = ch.suspended
          PROVE  Sleeps(t) => new.suspended
        <3>1. Sleeps(t) => Sleeps(s)
            BY <1>1, <2>3, SleepsAppend DEF Sleeps
        <3> QED BY <2>3, <3>1 DEF Heard
    <2>4. ASSUME NEW m \in Messages, t.up = Append(s.up, m), m.type = "READY",
                 Head(s.down).type = "INIT"
          PROVE  ~Sleeps(t)
        <3>1. Holds(s.down, "INIT")
            <4>1. 1 \in DOMAIN s.down /\ s.down[1].type = "INIT"
                BY <1>1, <2>4, TailFacts
            <4> QED BY <4>1 DEF Holds
        <3>2. s.doc \notin Listening /\ ~Holds(s.up, "SUSPENDED")
            BY <3>1 DEF Heard
        <3>3. ~Holds(t.up, "SUSPENDED")
            BY <1>1, <2>4, <3>2, SleepsAppend
        <3> QED BY <3>2, <3>3 DEF Sleeps, Lulled, Holds, Listening
    <2> QED BY <2>1, <2>2, <2>3, <2>4
<1> QED BY <1>2, <1>3 DEF Heard, Holds

-----------------------------------------------------------------------------
(* A document that has adopted the port of a mounting epoch is woken: INIT is *)
(* on its way to it, or READY back.  Only an eviction ends a document.        *)
Roused(s, ch) ==
    /\ s.evict \in {"none", "grace"} => s.doc \notin {"DISPOSING", "EVICTED"}
    /\ s.doc = "UNMOUNTED" => s.mode \notin {"offering", "modern"}
    /\ s.mode = "modern" /\ s.doc = "MOUNTING" /\ ch.doc = s.epoch
          => Holds(s.down, "INIT") \/ Holds(s.up, "READY")

(* Most operators leave what it speaks of, or add to it. *)
Along(s, t) ==
    /\ t \in Client /\ t.mode = s.mode /\ t.epoch = s.epoch /\ t.doc = s.doc
    /\ t.evict \in {"none", "grace"} => s.evict \in {"none", "grace"}
    /\ Holds(s.down, "INIT") => Holds(t.down, "INIT")
    /\ Holds(s.up, "READY") => Holds(t.up, "READY")

LEMMA AlongKeeps ==
    ASSUME NEW s, NEW t, NEW ch, NEW new, Roused(s, ch), Along(s, t), new.doc = ch.doc
    PROVE  Roused(t, new)
BY DEF Roused, Along

LEMMA AlongChain ==
    ASSUME NEW s, NEW t, NEW u, Along(s, t), Along(t, u)
    PROVE  Along(s, u)
BY DEF Along

LEMMA AlongSame ==
    ASSUME NEW s, NEW t, Frame(s, t), t.down = s.down
    PROVE  Along(s, t)
BY DEF Frame, Along

LEMMA AlongAdds ==
    ASSUME NEW s, NEW t, NEW types, Frame(s, t), Adds(s.down, t.down, types),
           Len(s.down) <= Len(t.down), types \in {Commands, Debts}
    PROVE  Along(s, t)
<1>1. s.down \in Seq(Messages) /\ t.down \in Seq(Messages)
    BY DEF Frame, Client
<1>2. /\ Len(s.down) \in Nat /\ DOMAIN s.down = 1..Len(s.down)
      /\ Len(t.down) \in Nat /\ DOMAIN t.down = 1..Len(t.down)
    BY <1>1
<1>3. \A k \in DOMAIN s.down : k \in DOMAIN t.down /\ t.down[k] = s.down[k]
    <2> SUFFICES ASSUME NEW k \in DOMAIN s.down PROVE k \in DOMAIN t.down /\ t.down[k] = s.down[k]
        OBVIOUS
    <2>1. k \in DOMAIN t.down /\ ~(k < k)
        BY <1>2
    <2> QED BY <2>1 DEF Adds
<1>4. Holds(s.down, "INIT") => Holds(t.down, "INIT")
    BY <1>3 DEF Holds
<1> QED BY <1>4 DEF Frame, Along

LEMMA AlongDebts ==
    ASSUME NEW s \in Client, NEW t \in {Suspend(s), PayDebt(s)}
    PROVE  Along(s, t)
<1>1. Frame(s, t) /\ Adds(s.down, t.down, Debts) /\ Len(s.down) <= Len(t.down)
    BY FrameDebts
<1> QED BY <1>1, AlongAdds

LEMMA AlongRelease ==
    ASSUME NEW s \in Client
    PROVE  Along(s, Release(s))
<1> DEFINE t == Release(s)
<1>1. Frame(s, t) /\ Adds(s.down, t.down, Commands) /\ Len(s.down) <= Len(t.down)
    BY FrameRelease
<1> HIDE DEF t
<1>2. Along(s, t)
    BY <1>1, AlongAdds
<1> QED BY <1>2 DEF t

LEMMA AlongSend ==
    ASSUME NEW s \in Client, NEW m \in Messages, m.type \in Commands
    PROVE  Along(s, Send(s, m))
<1> DEFINE t == Send(s, m)
<1>1. Frame(s, t) /\ Adds(s.down, t.down, Commands) /\ Len(s.down) <= Len(t.down)
    BY FrameSend
<1> HIDE DEF t
<1>2. Along(s, t)
    BY <1>1, AlongAdds
<1> QED BY <1>2 DEF t

LEMMA ListeningRoused ==
    ASSUME NEW t, NEW ch, t.doc \in Listening
    PROVE  Roused(t, ch)
BY DEF Roused, Listening

LEMMA ActivateRoused ==
    ASSUME NEW s \in Client, NEW ch, ModernActive(s)
    PROVE  Roused(ActivateModern(s), ch)
<1>1. ActivateModern(s).doc = "DOCUMENT_READY"
    BY FrameActivate DEF Frame, ModernActive
<1> QED BY <1>1, ListeningRoused DEF Listening

LEMMA FailRoused ==
    ASSUME NEW s \in Client, NEW ch, Roused(s, ch)
    PROVE  Roused(FailModern(s), ch)
<1>1. Along(s, FailModern(s))
    BY FrameFail DEF Along
<1> QED BY <1>1, AlongKeeps

LEMMA FallBackRoused ==
    ASSUME NEW s \in Client, NEW ch
    PROVE  Roused(FallBack(s), ch)
BY FrameFallBack DEF Roused

LEMMA SettleRoused ==
    ASSUME NEW s \in Client, NEW ch, Roused(s, ch)
    PROVE  Roused(SettleEviction(s), ch)
BY FrameSettle DEF Roused

(* No edge leads back to a document that is mounting or unmounted. *)
LEMMA DocumentGoes ==
    ASSUME NEW st, NEW event \in {"READY", "SUSPENDED", "RESUMED", "DISPOSED", "DISPOSE"}
    PROVE  LET next == Reduce(DocumentEdges, st, event) IN
           /\ next = st \/ next \notin {"UNMOUNTED", "MOUNTING"}
           /\ event \in {"READY", "SUSPENDED", "RESUMED"} => next = st \/ next \in Listening
           /\ event = "READY" => next # "MOUNTING"
           /\ event = "DISPOSED" => next = st \/ st = "DISPOSING"
           /\ event = "DISPOSE" => next # "MOUNTING"
<1> DEFINE next == Reduce(DocumentEdges, st, event)
<1>1. \A e \in DocumentEdges : e[2] = event =>
         /\ e[3] \notin {"UNMOUNTED", "MOUNTING"}
         /\ event \in {"READY", "SUSPENDED", "RESUMED"} => e[3] \in Listening
         /\ event = "DISPOSED" => e[1] = "DISPOSING"
    BY DEF DocumentEdges, Listening
<1>2. Legal(DocumentEdges, "MOUNTING", "READY") /\ Legal(DocumentEdges, "MOUNTING", "DISPOSE")
    <2>1. /\ <<"MOUNTING", "READY", "DOCUMENT_READY">> \in DocumentEdges
          /\ <<"MOUNTING", "DISPOSE", "DISPOSING">> \in DocumentEdges
        BY DEF DocumentEdges
    <2> QED BY <2>1 DEF Legal
<1>3. CASE Legal(DocumentEdges, st, event)
    <2>1. PICK e \in DocumentEdges : e[1] = st /\ e[2] = event /\ next = e[3]
        BY <1>3 DEF Legal, Reduce
    <2> HIDE DEF next
    <2>2. /\ next \notin {"UNMOUNTED", "MOUNTING"}
          /\ event \in {"READY", "SUSPENDED", "RESUMED"} => next \in Listening
          /\ event = "DISPOSED" => st = "DISPOSING"
        BY <1>1, <2>1
    <2> QED BY <2>2 DEF next
<1>4. CASE ~Legal(DocumentEdges, st, event)
    <2>1. next = st
        BY <1>4 DEF Reduce
    <2> HIDE DEF next
    <2>2. event \in {"READY", "DISPOSE"} => st # "MOUNTING"
        BY <1>2, <1>4
    <2> QED BY <2>1, <2>2 DEF next
<1> QED BY <1>3, <1>4

(* A load begins an epoch, or ends one behind the back of the child. *)
LEMMA LoadRoused ==
    ASSUME NEW s \in Client, NEW ch, NEW new, Roused(s, ch), new.doc \in Nat, new.doc <= s.epoch
    PROVE  Roused(HandleFrameLoad(s), new)
<1> DEFINE b == SettleEviction(s)
<1> DEFINE a == [b EXCEPT !.timers = {}, !.owes = FALSE]
<1> DEFINE epoch == IF BreakerOpen(a) THEN a.epoch + 1 ELSE a.epoch
<1> DEFINE doc == IF a.doc = "EVICTED" THEN a.doc ELSE "MOUNTING"
<1> DEFINE e == [a EXCEPT !.act = NoActivation, !.lost = FALSE, !.v2 = FALSE,
                          !.epoch = epoch, !.doc = doc, !.up = <<>>, !.down = <<>>]
<1>1. BreakerOpen(s) <=> BreakerOpen(a)
    BY DEF SettleEviction, BreakerOpen, Document, Clear, Client
<1>2. HandleFrameLoad(s) = Open(e)
    BY <1>1 DEF HandleFrameLoad, BumpGeneration
<1>3. /\ b \in Client /\ b.epoch = s.epoch
      /\ b.evict \in {"none", "grace"} => b.doc = s.doc /\ b.evict = s.evict
    <2>1. b \in Client /\ (b.evict \in {"none", "grace"} => b = s)
        BY FrameSettle
    <2>2. b.epoch = s.epoch
        BY DEF SettleEviction, Document, Clear, Client
    <2> QED BY <2>1, <2>2
<1> HIDE DEF b
<1>4. a \in Client /\ a.epoch = b.epoch /\ a.doc = b.doc /\ a.evict = b.evict
    BY <1>3 DEF Client
<1> HIDE DEF a
<1>5. /\ e.epoch = epoch /\ e.doc = doc /\ e.evict = a.evict /\ e.strikes = a.strikes
    BY <1>4 DEF Client
<1>6. CASE BreakerOpen(a)
    <2>1. Open(e) = e
        BY <1>5, <1>6 DEF Open, BreakerOpen
    <2>2. e.epoch = s.epoch + 1 /\ s.epoch \in Nat
        BY <1>3, <1>4, <1>5, <1>6 DEF Client
    <2>3. e.doc \in {"EVICTED", "MOUNTING"} /\ (e.doc = "EVICTED" => a.doc = "EVICTED")
        BY <1>5
    <2> HIDE DEF e, doc, epoch
    <2>4. e.evict \in {"none", "grace"} => e.doc = "MOUNTING"
        BY <1>3, <1>4, <1>5, <2>3 DEF Roused
    <2>5. new.doc # e.epoch
        BY <2>2
    <2> QED BY <1>2, <2>1, <2>3, <2>4, <2>5 DEF Roused
<1>7. CASE ~BreakerOpen(a)
    <2>1. Open(e).mode = "offering" /\ Open(e).doc = "MOUNTING"
        <3>1. ~BreakerOpen(e)
            BY <1>5, <1>7 DEF BreakerOpen
        <3>2. e = [a EXCEPT !.act = NoActivation, !.lost = FALSE, !.v2 = FALSE,
                            !.epoch = epoch, !.doc = doc, !.up = <<>>, !.down = <<>>]
            OBVIOUS
        <3> HIDE DEF epoch, doc
        <3> QED BY <1>4, <3>1, <3>2 DEF Open, Client
    <2> HIDE DEF e
    <2> QED BY <1>2, <2>1 DEF Roused
<1> QED BY <1>6, <1>7

LEMMA OwnerRoused ==
    ASSUME Good(c, child), Roused(c, child), OwnerMoves \/ Load
    PROVE  Roused(c', child')
<1>1. c \in Client /\ child \in Child /\ child.doc \in Nat /\ child.doc <= c.epoch /\ c.epoch \in Nat
    BY DEF Good, Core, Sized, Client, Child
<1>2. ASSUME Enter PROVE Roused(c', child')
    <2> DEFINE p == IF c.mode = "legacy" THEN Open(c) ELSE c
    <2> DEFINE o == PayDebt(p)
    <2> DEFINE s == [o EXCEPT !.pending = TRUE, !.wanted = TRUE, !.failed = FALSE,
                              !.tainted = o.lost, !.replaced = FALSE]
    <2> DEFINE h == [s EXCEPT !.visible = FALSE]
    <2> DEFINE a == Clear(h, {"prepare"})
    <2>1. /\ c' = IF ModernActive(s) THEN ActivateModern(s)
                  ELSE IF s.mode = "legacy" THEN ActivateLegacy(s)
                  ELSE Arm(a, "handshake")
          /\ child' = child
        BY <1>2 DEF Enter
    <2>2. p \in Client /\ Roused(p, child)
        BY <1>1, FrameOpen DEF Roused
    <2> HIDE DEF p
    <2>3. Along(p, o) /\ o \in Client
        BY <2>2, AlongDebts DEF Along
    <2> HIDE DEF o
    <2>4. Along(o, s) /\ s \in Client
        BY <2>3 DEF Client, Along
    <2> HIDE DEF s
    <2>5. Along(s, h) /\ h \in Client
        BY <2>4 DEF Client, Along
    <2> HIDE DEF h
    <2>6. Along(h, a) /\ a \in Client
        BY <2>5, FrameClear, TimerSets, AlongSame DEF Frame
    <2> HIDE DEF a
    <2>7. Along(a, Arm(a, "handshake"))
        BY <2>6, FrameArm, AlongSame DEF Timers
    <2>8. Along(s, ActivateLegacy(s))
        BY <2>4, FrameLegacy, AlongSame
    <2>9. Roused(s, child) /\ Roused(a, child)
        BY <2>2, <2>3, <2>4, <2>5, <2>6, AlongKeeps
    <2> QED BY <2>1, <2>4, <2>7, <2>8, <2>9, AlongKeeps, ActivateRoused
<1>3. ASSUME Leave PROVE Roused(c', child')
    <2> DEFINE a == Clear(c, {"handshake"})
    <2> DEFINE h == [a EXCEPT !.visible = FALSE, !.pending = FALSE, !.wanted = FALSE, !.v2 = FALSE]
    <2> DEFINE b == Clear(h, {"prepare", "present"})
    <2>1. c' \in {h, Release(b)} /\ child' = child
        BY <1>3 DEF Leave, Deactivate
    <2>2. Along(c, a) /\ a \in Client
        BY <1>1, FrameClear, TimerSets, AlongSame DEF Frame
    <2> HIDE DEF a
    <2>3. Along(a, h) /\ h \in Client
        BY <2>2 DEF Client, Along
    <2> HIDE DEF h
    <2>4. Along(h, b) /\ b \in Client
        BY <2>3, FrameClear, TimerSets, AlongSame DEF Frame
    <2> HIDE DEF b
    <2>5. Along(b, Release(b))
        BY <2>4, AlongRelease
    <2> QED BY <2>1, <2>2, <2>3, <2>4, <2>5, AlongKeeps
<1>4. ASSUME Freeze PROVE Roused(c', child')
    <2> DEFINE d == Suspend(c)
    <2> DEFINE t == [d EXCEPT !.wanted = FALSE]
    <2>1. c' = t /\ child' = child
        BY <1>4 DEF Freeze
    <2>2. Along(c, d) /\ d \in Client
        BY <1>1, AlongDebts DEF Along
    <2> HIDE DEF d
    <2>3. Along(d, t)
        BY <2>2 DEF Client, Along
    <2> HIDE DEF t
    <2> QED BY <2>1, <2>2, <2>3, AlongKeeps
<1>5. ASSUME Thaw PROVE Roused(c', child')
    BY <1>1, <1>5, AlongDebts, AlongKeeps DEF Thaw
<1>6. ASSUME Reload PROVE Roused(c', child')
    <2> DEFINE h == HandleFrameLoad(c)
    <2> DEFINE t == [h EXCEPT !.reloading = TRUE]
    <2>1. c' = t /\ child' = child
        BY <1>6 DEF Reload
    <2>2. Roused(h, child) /\ h \in Client
        BY <1>1, LoadRoused, FrameLoad
    <2> HIDE DEF h
    <2>3. Along(h, t)
        BY <2>2 DEF Client, Along
    <2> HIDE DEF t
    <2> QED BY <2>1, <2>2, <2>3, AlongKeeps
<1>7. ASSUME Load PROVE Roused(c', child')
    <2> DEFINE h == HandleFrameLoad(c)
    <2> DEFINE t == [h EXCEPT !.reloading = FALSE, !.replaced = TRUE]
    <2>1. c' = t /\ child' = Blank
        BY <1>7 DEF Load
    <2>2. Blank.doc \in Nat /\ Blank.doc <= c.epoch
        BY <1>1 DEF Blank
    <2>3. Roused(h, Blank) /\ h \in Client
        BY <1>1, <2>2, LoadRoused, FrameLoad
    <2> HIDE DEF h
    <2>4. Along(h, t)
        BY <2>3 DEF Client, Along
    <2> HIDE DEF t
    <2> QED BY <2>1, <2>3, <2>4, AlongKeeps
<1>8. ASSUME Evict PROVE Roused(c', child')
    <2> DEFINE a == Clear(c, {"handshake", "prepare", "present", "context"})
    <2> DEFINE h == [a EXCEPT !.evict = "grace", !.pending = FALSE, !.visible = FALSE,
                              !.wanted = FALSE, !.v2 = FALSE]
    <2> DEFINE d == Suspend(h)
    <2> DEFINE r == Release(d)
    <2>1. c' = Arm(r, "grace") /\ child' = child /\ c.evict = "none"
        BY <1>8 DEF Evict
    <2>2. Along(c, a) /\ a \in Client /\ a.evict = "none"
        BY <1>1, <2>1, FrameClear, TimerSets, AlongSame DEF Frame
    <2> HIDE DEF a
    <2>3. Along(a, h) /\ h \in Client
        BY <2>2 DEF Client, Along, Evictions
    <2> HIDE DEF h
    <2>4. Along(h, d) /\ d \in Client
        BY <2>3, AlongDebts DEF Along
    <2> HIDE DEF d
    <2>5. Along(d, r) /\ r \in Client
        BY <2>4, AlongRelease DEF Along
    <2> HIDE DEF r
    <2>6. Along(r, Arm(r, "grace"))
        BY <2>5, FrameArm, AlongSame DEF Timers
    <2> QED BY <2>1, <2>2, <2>3, <2>4, <2>5, <2>6, AlongKeeps
<1>9. ASSUME CancelEviction PROVE Roused(c', child')
    <2> DEFINE a == Clear(c, {"grace"})
    <2> DEFINE s == [a EXCEPT !.evict = "none"]
    <2>1. c' = PayDebt(s) /\ child' = child /\ c.evict = "grace"
        BY <1>9 DEF CancelEviction
    <2>2. Along(c, a) /\ a \in Client /\ a.evict = "grace"
        BY <1>1, <2>1, FrameClear, TimerSets, AlongSame DEF Frame
    <2> HIDE DEF a
    <2>3. Along(a, s) /\ s \in Client
        BY <2>2 DEF Client, Along, Evictions
    <2> HIDE DEF s
    <2>4. Along(s, PayDebt(s))
        BY <2>3, AlongDebts
    <2> QED BY <2>1, <2>2, <2>3, <2>4, AlongKeeps
<1> QED BY <1>2, <1>3, <1>4, <1>5, <1>6, <1>7, <1>8, <1>9 DEF OwnerMoves

LEMMA TimerRoused ==
    ASSUME Good(c, child), Roused(c, child), TimerFires
    PROVE  Roused(c', child')
<1>1. c \in Client
    BY DEF Good, Core
<1>2. child' = child
    BY DEF TimerFires, HandshakeTimeout, StepTimeout, ContextTimeout, GraceOver,
           DisposeTimeout, OfferExpires, Fire
<1>3. ASSUME HandshakeTimeout \/ StepTimeout PROVE Roused(c', child)
    <2>1. c' \in {Clear(c, {"handshake"}), FailModern(c)}
        BY <1>3 DEF HandshakeTimeout, StepTimeout
    <2> QED BY <1>1, <2>1, FrameClear, TimerSets, AlongSame, AlongKeeps, FailRoused
<1>4. ASSUME ContextTimeout PROVE Roused(c', child)
    <2> DEFINE s == Clear(c, {"context"})
    <2>1. c' \in {s, FailModern(s)}
        BY <1>4 DEF ContextTimeout
    <2>2. Roused(s, child) /\ s \in Client
        BY <1>1, FrameClear, TimerSets, AlongSame, AlongKeeps DEF Frame
    <2> HIDE DEF s
    <2> QED BY <2>1, <2>2, FailRoused
<1>5. ASSUME GraceOver PROVE Roused(c', child)
    <2> DEFINE a == Clear(c, {"grace"})
    <2> DEFINE b == [a EXCEPT !.evict = "disposing"]
    <2> DEFINE s == Document(b, "DISPOSE")
    <2> DEFINE m == Plain("DISPOSE")
    <2> DEFINE d == Send(s, m)
    <2> DEFINE t == Arm(d, "dispose")
    <2>1. c' \in {t, SettleEviction(s)}
        BY <1>5 DEF GraceOver
    <2>2. Along(c, a) /\ a \in Client
        BY <1>1, FrameClear, TimerSets, AlongSame DEF Frame
    <2> HIDE DEF a
    <2>3. b \in Client /\ b.mode = a.mode /\ b.doc = a.doc /\ b.evict = "disposing"
        BY <2>2 DEF Client, Evictions
    <2> HIDE DEF b
    <2>4. /\ s \in Client /\ s.mode = b.mode /\ s.evict = b.evict
          /\ s.doc = Reduce(DocumentEdges, b.doc, "DISPOSE")
        <3>1. s \in Client /\ s.mode = b.mode /\ s.evict = b.evict
            BY <2>3, DocumentFields
        <3>2. s.doc = Reduce(DocumentEdges, b.doc, "DISPOSE")
            BY <2>3 DEF Document, Client
        <3> QED BY <3>1, <3>2
    <2> HIDE DEF s
    <2>5. (s.doc = b.doc \/ s.doc # "UNMOUNTED") /\ s.doc # "MOUNTING"
        BY <2>4, DocumentGoes
    <2>6. Roused(a, child)
        BY <2>2, AlongKeeps
    <2>7. Roused(s, child)
        BY <2>3, <2>4, <2>5, <2>6 DEF Roused
    <2>8. m \in Messages /\ m.type = "DISPOSE"
        BY PlainIs DEF Types
    <2> HIDE DEF m
    <2>9. Along(s, d) /\ d \in Client
        BY <2>4, <2>8, AlongSend DEF Along, Commands
    <2> HIDE DEF d
    <2>10. Along(d, t)
        BY <2>9, FrameArm, AlongSame DEF Timers
    <2> QED BY <2>1, <2>4, <2>7, <2>9, <2>10, AlongKeeps, SettleRoused
<1>6. ASSUME DisposeTimeout PROVE Roused(c', child)
    BY <1>1, <1>6, SettleRoused DEF DisposeTimeout
<1>7. ASSUME OfferExpires PROVE Roused(c', child)
    BY <1>1, <1>7, FallBackRoused DEF OfferExpires
<1> QED BY <1>2, <1>3, <1>4, <1>5, <1>6, <1>7 DEF TimerFires

LEMMA Received ==
    ASSUME ClientReceives
    PROVE  c.up # <<>> /\ child' = child
<1>1. \E type : Receive(type)
    BY DEF ClientReceives, OnReady, OnSuspended, OnResumed, OnDisposed, OnContextLost,
           OnContextRestored, OnApplied, OnPresented, OnError
<1> QED BY <1>1 DEF Receive

LEMMA HoldsTail ==
    ASSUME NEW q \in Seq(Messages), q # <<>>, NEW type, Holds(q, type), Head(q).type # type
    PROVE  Holds(Tail(q), type)
<1>1. PICK k \in DOMAIN q : q[k].type = type
    BY DEF Holds
<1>2. k - 1 \in DOMAIN Tail(q) /\ Tail(q)[k - 1] = q[k]
    BY <1>1, SleepsTail, TailFacts
<1> QED BY <1>1, <1>2 DEF Holds

LEMMA ReceiveRoused ==
    ASSUME Good(c, child), Roused(c, child), ClientReceives
    PROVE  Roused(c', child')
<1>1. c \in Client /\ c.up # <<>> /\ child' = child /\ c.up \in Seq(Messages)
    <2>1. c \in Client
        BY DEF Good, Core
    <2> QED BY <2>1, Received DEF Client
<1> DEFINE r == Rest
<1>2. /\ r \in Client /\ r.mode = c.mode /\ r.epoch = c.epoch /\ r.doc = c.doc
      /\ r.evict = c.evict /\ r.down = c.down /\ r.up = Tail(c.up) /\ r.act = c.act
    BY <1>1, FrameRest
<1>3. Head(c.up).type # "READY" => Along(c, r) /\ Roused(r, child)
    <2>1. Head(c.up).type # "READY" => Along(c, r)
        BY <1>1, <1>2, HoldsTail DEF Along
    <2> QED BY <2>1, AlongKeeps
<1>4. ASSUME NEW event \in {"READY", "SUSPENDED", "RESUMED", "DISPOSED"}, Head(c.up).type = event
      PROVE  Document(r, event) \in Client /\ Roused(Document(r, event), child)
    <2> DEFINE d == Document(r, event)
    <2>1. /\ d \in Client /\ d.mode = c.mode /\ d.epoch = c.epoch /\ d.evict = c.evict
          /\ d.down = r.down /\ d.up = r.up
        BY <1>2, DocumentFields DEF Ports
    <2>2. d.doc = Reduce(DocumentEdges, c.doc, event)
        BY <1>2 DEF Document, Client
    <2> HIDE DEF d, r
    <2>3. /\ d.doc = c.doc \/ d.doc \notin {"UNMOUNTED", "MOUNTING"}
          /\ event \in {"READY", "SUSPENDED", "RESUMED"} => d.doc = c.doc \/ d.doc \in Listening
          /\ event = "READY" => d.doc # "MOUNTING"
          /\ event = "DISPOSED" => d.doc = c.doc \/ c.doc = "DISPOSING"
        BY <2>2, DocumentGoes
    <2>4. ASSUME event = "READY" PROVE Roused(d, child)
        BY <2>1, <2>3, <2>4 DEF Roused, Listening
    <2>5. ASSUME event # "READY" PROVE Roused(d, child)
        <3>1. Roused(r, child)
            BY <1>3, <1>4, <2>5
        <3>2. /\ d.evict \in {"none", "grace"} => d.doc \notin {"DISPOSING", "EVICTED"}
              /\ d.doc = "UNMOUNTED" => d.mode \notin {"offering", "modern"}
            BY <2>1, <2>3 DEF Roused, Listening
        <3>3. d.doc = "MOUNTING" => r.doc = "MOUNTING"
            BY <1>2, <2>3
        <3> QED BY <1>2, <2>1, <3>1, <3>2, <3>3 DEF Roused
    <2> QED BY <2>1, <2>4, <2>5 DEF d
<1>5. ASSUME OnReady \/ OnSuspended \/ OnResumed \/ OnDisposed PROVE Roused(c', child)
    <2> DEFINE D(event) == Document(r, event)
    <2>1. PICK event \in {"READY", "SUSPENDED", "RESUMED", "DISPOSED"} :
             /\ Head(c.up).type = event
             /\ c' \in {Redrive(D(event)), D(event), SettleEviction(D(event))}
        BY <1>5 DEF OnReady, OnSuspended, OnResumed, OnDisposed, Receive
    <2>2. D(event) \in Client /\ Roused(D(event), child)
        BY <1>4, <2>1
    <2> HIDE DEF D
    <2>3. Roused(Redrive(D(event)), child)
        BY <2>2, ActivateRoused DEF Redrive
    <2> QED BY <2>1, <2>2, <2>3, SettleRoused
<1> HIDE DEF r
<1>6. ASSUME OnContextLost PROVE Roused(c', child)
    <2> DEFINE a == Activation(r, "CONTEXT_LOST")
    <2> DEFINE lost == c.doc \in {"DOCUMENT_READY", "SUSPENDED"} \/ a.lost
    <2> DEFINE t == [a EXCEPT !.lost = lost, !.visible = FALSE]
    <2>1. c' = Arm(t, "context") /\ Head(c.up).type # "READY"
        BY <1>6 DEF OnContextLost, Receive, r
    <2>2. Along(r, a) /\ a \in Client
        BY <1>2, FrameActivation, AlongSame DEF Events, Frame
    <2> HIDE DEF a
    <2>3. lost \in BOOLEAN
        BY <2>2 DEF Client
    <2> HIDE DEF lost
    <2>4. Along(a, t) /\ t \in Client
        BY <2>2, <2>3 DEF Client, Along
    <2> HIDE DEF t
    <2>5. Along(t, Arm(t, "context"))
        BY <2>4, FrameArm, AlongSame DEF Timers
    <2> QED BY <1>3, <2>1, <2>2, <2>4, <2>5, AlongKeeps
<1>7. ASSUME OnContextRestored PROVE Roused(c', child)
    <2> DEFINE s == Clear(r, {"context"})
    <2> DEFINE lost == s.lost /\ c.doc \notin {"DOCUMENT_READY", "SUSPENDED"}
    <2> DEFINE t == [s EXCEPT !.lost = lost, !.tainted = TRUE]
    <2>1. c' = t /\ Head(c.up).type # "READY"
        BY <1>7 DEF OnContextRestored, Receive, r
    <2>2. Along(r, s) /\ s \in Client
        BY <1>2, FrameClear, TimerSets, AlongSame DEF Frame
    <2> HIDE DEF s
    <2>3. lost \in BOOLEAN
        BY <2>2 DEF Client
    <2> HIDE DEF lost
    <2>4. Along(s, t)
        BY <2>2, <2>3 DEF Client, Along
    <2> HIDE DEF t
    <2> QED BY <1>3, <2>1, <2>2, <2>4, AlongKeeps
<1>8. ASSUME OnApplied PROVE Roused(c', child)
    <2> DEFINE s == Clear(r, PrepareTimer)
    <2> DEFINE a == Activation(s, "APPLIED")
    <2> DEFINE u == [s EXCEPT !.tainted = @ \/ "handshake" \in c.timers]
    <2>1. c' \in {r, u, SendPresent(a)} /\ Head(c.up).type # "READY"
        BY <1>8 DEF OnApplied, Receive, r
    <2>2. Along(r, s) /\ s \in Client
        BY <1>2, FrameClear, TimerSets, AlongSame DEF Frame
    <2> HIDE DEF s
    <2>3. Along(s, u)
        BY <2>2 DEF Client, Along
    <2> HIDE DEF u
    <2>4. Along(s, a) /\ a \in Client
        BY <2>2, FrameActivation, AlongSame DEF Events, Frame
    <2> HIDE DEF a
    <2>5. Along(a, SendPresent(a))
        BY <2>4, FramePresent, AlongAdds
    <2> QED BY <1>3, <2>1, <2>2, <2>3, <2>4, <2>5, AlongKeeps
<1>9. ASSUME OnPresented PROVE Roused(c', child)
    <2> DEFINE s == Clear(r, {"present"})
    <2> DEFINE a == Activation(s, "PRESENTED")
    <2> DEFINE t == [a EXCEPT !.act.proof = <<c.epoch, Head(c.up).id>>, !.strikes = 0,
                              !.failed = FALSE]
    <2>1. c' \in {r, s, Reveal(t)} /\ Head(c.up).type # "READY"
        BY <1>9 DEF OnPresented, Receive, r
    <2>2. Along(r, s) /\ s \in Client
        BY <1>2, FrameClear, TimerSets, AlongSame DEF Frame
    <2> HIDE DEF s
    <2>3. Along(s, a) /\ a \in Client
        BY <2>2, FrameActivation, AlongSame DEF Events, Frame
    <2> HIDE DEF a
    <2>4. Along(a, t) /\ t \in Client
        <3> DEFINE proof == <<c.epoch, Head(c.up).id>>
        <3>1. proof \in Nat \X Nat
            <4>1. Head(c.up) \in Messages
                BY <1>1, TailFacts
            <4> QED BY <1>1, <4>1 DEF Client, Messages
        <3>2. t = [a EXCEPT !.act.proof = proof, !.strikes = 0, !.failed = FALSE]
            OBVIOUS
        <3> HIDE DEF proof
        <3> DEFINE act == [a.act EXCEPT !.proof = proof]
        <3>3. act \in Act
            BY <2>3, <3>1 DEF Client, Act
        <3>4. t = [a EXCEPT !.act = act, !.strikes = 0, !.failed = FALSE]
            BY <2>3, <3>2 DEF Client, Act
        <3>5. 0 \in 0..Threshold
            BY BoundsAssumption
        <3> HIDE DEF act, t
        <3> QED BY <2>3, <3>3, <3>4, <3>5 DEF Client, Along
    <2> HIDE DEF t
    <2>5. Along(t, Reveal(t))
        BY <2>4, FrameReveal, AlongSame
    <2> QED BY <1>3, <2>1, <2>2, <2>3, <2>4, <2>5, AlongKeeps
<1>10. ASSUME OnError PROVE Roused(c', child)
    <2>1. c' \in {r, FailModern(r)} /\ Head(c.up).type # "READY"
        BY <1>10 DEF OnError, Receive, r
    <2> QED BY <1>2, <1>3, <2>1, FailRoused
<1> QED BY <1>1, <1>5, <1>6, <1>7, <1>8, <1>9, <1>10 DEF ClientReceives

(* INIT is read, and READY is the answer. *)
LEMMA ChildReceiveRoused ==
    ASSUME Good(c, child), Roused(c, child), ChildReceives, c' \in Client
    PROVE  Roused(c', child')
<1>1. /\ c \in Client /\ child \in Child /\ c.down # <<>>
      /\ c.down \in Seq(Messages) /\ c.up \in Seq(Messages)
    <2>1. c \in Client /\ child \in Child
        BY DEF Good, Core
    <2>2. c.down # <<>>
        BY DEF ChildReceives, OnInit, OnSuspendDocument, OnResumeDocument, OnPrepare,
               OnPresent, OnRelease, OnDispose, Command
    <2> QED BY <2>1, <2>2 DEF Client
<1>2. /\ c'.mode = c.mode /\ c'.epoch = c.epoch /\ c'.evict = c.evict /\ c'.doc = c.doc
      /\ c'.down = Tail(c.down)
    BY <1>1 DEF ChildReceives, OnInit, OnSuspendDocument, OnResumeDocument, OnPrepare,
                OnPresent, OnRelease, OnDispose, Answer, Client
<1>3. Head(c.down).type # "INIT" /\ Holds(c.down, "INIT") => Holds(c'.down, "INIT")
    BY <1>1, <1>2, HoldsTail
<1>4. \A type \in {"READY", "SUSPENDED", "RESUMED", "DISPOSED"} :
         Plain(type) \in Messages /\ Plain(type).type = type
    BY PlainIs DEF Types
<1>5. \A m \in Messages : Answer(m) => c'.up = Append(c.up, m)
    BY <1>1 DEF Answer, Client
<1>6. Holds(c.up, "READY") => Holds(c'.up, "READY")
    <2>1. c'.up = c.up \/ \E m \in Messages : c'.up = Append(c.up, m)
        <3>1. ASSUME OnPrepare \/ OnPresent \/ OnRelease PROVE c'.up = c.up
            BY <1>1, <3>1 DEF OnPrepare, OnPresent, OnRelease, Client
        <3> QED BY <1>4, <1>5, <3>1 DEF ChildReceives, OnInit, OnSuspendDocument,
                   OnResumeDocument, OnDispose
    <2>2. \A m \in Messages : Holds(c.up, "READY") => Holds(Append(c.up, m), "READY")
        BY <1>1, SleepsAppend
    <2> QED BY <2>1, <2>2
<1>7. CASE OnInit
    <2>1. c'.up = Append(c.up, Plain("READY")) /\ Plain("READY") \in Messages
        BY <1>4, <1>5, <1>7 DEF OnInit
    <2>2. Holds(c'.up, "READY")
        <3>1. Plain("READY").type = "READY"
            BY <1>4
        <3> HIDE DEF Plain
        <3> QED BY <1>1, <2>1, <3>1, SleepsAppend
    <2> QED BY <1>2, <2>2 DEF Roused
<1>8. CASE OnDispose
    <2>1. child'.doc = 0 /\ c.epoch # 0
        BY <1>1, <1>8 DEF OnDispose, Empty, Child, Client
    <2> QED BY <1>2, <2>1 DEF Roused
<1>9. CASE ~OnInit /\ ~OnDispose
    <2>1. child'.doc = child.doc /\ Head(c.down).type # "INIT"
        BY <1>1, <1>9 DEF ChildReceives, OnSuspendDocument, OnResumeDocument, OnPrepare,
               OnPresent, OnRelease, Command, Empty, Child
    <2>2. Along(c, c')
        BY <1>2, <1>3, <1>6, <2>1 DEF Along
    <2> QED BY <2>1, <2>2, AlongKeeps
<1> QED BY <1>7, <1>8, <1>9

LEMMA OtherRoused ==
    ASSUME Good(c, child), Roused(c, child), c' \in Client,
           ChildActs \/ Painted \/ LegacyReveal \/ SendFails
    PROVE  Roused(c', child')
<1>1. c \in Client /\ child \in Child /\ c.up \in Seq(Messages) /\ c.down \in Seq(Messages)
    BY DEF Good, Core, Client
<1>2. CASE Adopt
    <2>1. /\ c'.mode = "modern" /\ c'.doc = c.doc /\ c'.evict = c.evict
          /\ c'.down = <<Plain("INIT")>> /\ c.mode = "offering"
        BY <1>1, <1>2 DEF Adopt, Client
    <2>2. Holds(c'.down, "INIT")
        <3>1. DOMAIN c'.down = {1} /\ c'.down[1].type = "INIT"
            BY <2>1, PlainIs DEF Types
        <3> QED BY <3>1 DEF Holds
    <2> QED BY <2>1, <2>2 DEF Roused
<1>3. CASE ChildActs /\ ~Adopt
    <2>1. /\ c'.mode = c.mode /\ c'.epoch = c.epoch /\ c'.evict = c.evict /\ c'.doc = c.doc
          /\ c'.down = c.down /\ child'.doc = child.doc
        BY <1>1, <1>3 DEF ChildActs, Applied, Presented, Progress, SectionFails, LoseContext,
                          RestoreContext, Post, Client, Child
    <2>2. \E m \in Messages : c'.up = Append(c.up, m)
        <3>1. \A type \in {"APPLIED", "PRESENTED", "ERROR", "CONTEXT_LOST", "CONTEXT_RESTORED"} :
                 Plain(type) \in Messages /\ Message(type, child.cur) \in Messages
            BY <1>1 DEF Child, Plain, Message, Messages, Types
        <3>2. \A m : Post(m) => c'.up = Append(c.up, m)
            BY <1>1 DEF Post, Client
        <3> QED BY <1>3, <3>1, <3>2 DEF ChildActs, Applied, Presented, Progress, SectionFails,
                          LoseContext, RestoreContext
    <2>3. Holds(c.up, "READY") => Holds(c'.up, "READY")
        BY <1>1, <2>2, SleepsAppend
    <2>4. Along(c, c')
        BY <2>1, <2>3 DEF Along
    <2> QED BY <2>1, <2>4, AlongKeeps
<1>4. CASE Painted
    BY <1>1, <1>4, FrameReveal, AlongSame, AlongKeeps DEF Painted
<1>5. CASE LegacyReveal
    <2>1. Along(c, c') /\ child' = child
        BY <1>1, <1>5 DEF LegacyReveal, Client, Along
    <2> QED BY <2>1, AlongKeeps
<1>6. CASE SendFails
    BY <1>1, <1>6, FallBackRoused DEF SendFails
<1> QED BY <1>2, <1>3, <1>4, <1>5, <1>6

LEMMA AllRoused == Spec => []Roused(c, child)
<1>1. ASSUME Init PROVE Roused(c, child)
    BY <1>1 DEF Init, Roused
<1>2. ASSUME IInv, IInv', Roused(c, child), [Next]_vars PROVE Roused(c, child)'
    <2>1. Good(c, child) /\ c' \in Client
        BY <1>2 DEF IInv, Good, Core
    <2>2. CASE UNCHANGED vars
        BY <1>2, <2>2 DEF vars, Roused, Holds
    <2> QED BY <1>2, <2>1, <2>2, OwnerRoused, TimerRoused, ReceiveRoused, ChildReceiveRoused,
               OtherRoused DEF Next
<1>3. IInv /\ IInv' /\ Roused(c, child) /\ [Next]_vars => Roused(c, child)'
    BY <1>2
<1> QED BY <1>1, <1>3, Invariant, PTL DEF Spec

-----------------------------------------------------------------------------
(* What the owner wants, and the steps that are under way.                   *)
Intent(s) ==
    /\ s.wanted => s.evict = "none" /\ ~s.owes
    /\ s.wanted /\ ~s.failed => s.pending
    /\ s.failed => ~s.pending /\ s.act.state \notin Live
    /\ "handshake" \in s.timers => s.pending /\ ~ModernActive(s)
    /\ s.wanted /\ s.visible /\ ~s.replaced /\ s.mode # "legacy"
          => s.mode = "modern" /\ s.doc \in Listening
    /\ s.wanted /\ ~s.failed /\ ~s.tainted /\ ~s.replaced /\ s.mode # "legacy" /\ s.lost
          => "context" \in s.timers

(* Nothing wakes the document behind the PRESENT of the present section, nor  *)
(* behind its picture: neither the child nor the client meets a resume, or    *)
(* the first command of an epoch, between the two.                            *)
Orderly(s, ch) ==
    /\ \A j \in DOMAIN s.down : s.down[j].type \in Wakes =>
          /\ ~(ch.cur = s.act.id /\ ch.stage \in Shows)
          /\ \A k \in DOMAIN s.down :
                k < j /\ s.down[k].type = "PRESENT" => s.down[k].id # s.act.id
    /\ \A j, k \in DOMAIN s.up :
          k < j /\ s.up[j].type \in Woken /\ s.up[k].type = "PRESENTED"
             => s.up[k].id # s.act.id

Waiting(s) ==
    s.wanted /\ ~s.visible /\ ~s.failed /\ ~s.tainted /\ ~s.replaced /\ s.mode # "legacy"

Bounded(s, ch) == Waiting(s) =>
    \/ "handshake" \in s.timers
    \/ s.lost /\ "context" \in s.timers
    \/ s.timers \cap Steps # {} /\ s.mode = "modern" /\ Orderly(s, ch)

Waits(s, ch) == Heard(s, ch) /\ Intent(s) /\ Bounded(s, ch)

LEMMA OrderlyAdds ==
    ASSUME NEW s \in Client, NEW t \in Client, NEW ch, Orderly(s, ch),
           t.act.id = s.act.id, t.up = s.up, Adds(s.down, t.down, Commands)
    PROVE  Orderly(t, ch)
<1>1. \A x \in Wakes : x \notin Commands
    BY DEF Commands, Wakes
<1>2. /\ \A k \in DOMAIN s.down : k \in Nat
      /\ \A k \in DOMAIN t.down : k \in Nat
    BY DEF Client
<1>3. \A j \in DOMAIN t.down : t.down[j].type \in Wakes =>
         j \in DOMAIN s.down /\ s.down[j] = t.down[j]
    BY <1>1 DEF Adds
<1>4. \A j \in DOMAIN s.down : \A k \in DOMAIN t.down : k < j =>
         k \in DOMAIN s.down /\ s.down[k] = t.down[k]
    BY <1>2 DEF Adds
<1>5. ASSUME NEW j \in DOMAIN t.down, t.down[j].type \in Wakes
      PROVE  /\ ~(ch.cur = t.act.id /\ ch.stage \in Shows)
             /\ \A k \in DOMAIN t.down :
                   k < j /\ t.down[k].type = "PRESENT" => t.down[k].id # t.act.id
    <2>1. j \in DOMAIN s.down /\ s.down[j].type \in Wakes
        BY <1>3, <1>5
    <2>2. /\ ~(ch.cur = s.act.id /\ ch.stage \in Shows)
          /\ \A k \in DOMAIN s.down :
                k < j /\ s.down[k].type = "PRESENT" => s.down[k].id # s.act.id
        BY <2>1 DEF Orderly
    <2> QED BY <1>4, <2>1, <2>2
<1>6. \A j, k \in DOMAIN t.up :
          k < j /\ t.up[j].type \in Woken /\ t.up[k].type = "PRESENTED"
             => t.up[k].id # t.act.id
    BY DEF Orderly
<1> QED BY <1>5, <1>6 DEF Orderly

(* Nothing on its way bears the number of a new activation. *)
LEMMA OrderlyNew ==
    ASSUME NEW s \in Client, NEW t \in Client, NEW ch \in Child, Sized(s, ch),
           t.act.id = s.serial + 1, t.up = s.up, Adds(s.down, t.down, Commands)
    PROVE  Orderly(t, ch)
<1>1. \A x \in Wakes : x \notin Commands
    BY DEF Commands, Wakes
<1>2. /\ \A k \in DOMAIN s.down : k \in Nat
      /\ \A k \in DOMAIN t.down : k \in Nat
    BY DEF Client
<1>3. /\ s.serial \in Nat /\ ch.cur \in Nat /\ ch.cur <= s.serial
      /\ \A k \in DOMAIN s.down : s.down[k].id \in Nat /\ s.down[k].id <= s.serial
      /\ \A k \in DOMAIN s.up : s.up[k].id \in Nat /\ s.up[k].id <= s.serial
    <2>1. s.serial \in Nat /\ ch.cur \in Nat /\ s.down \in Seq(Messages) /\ s.up \in Seq(Messages)
        BY DEF Client, Child
    <2>2. /\ \A k \in DOMAIN s.down : s.down[k] \in Messages
          /\ \A k \in DOMAIN s.up : s.up[k] \in Messages
        BY <2>1
    <2>3. \A m \in Messages : m.id \in Nat
        BY DEF Messages
    <2> QED BY <2>1, <2>2, <2>3 DEF Sized
<1>4. /\ ch.cur # t.act.id
      /\ \A k \in DOMAIN s.down : s.down[k].id # t.act.id
      /\ \A k \in DOMAIN s.up : s.up[k].id # t.act.id
    BY <1>3
<1>5. \A j \in DOMAIN t.down : t.down[j].type \in Wakes => j \in DOMAIN s.down
    BY <1>1 DEF Adds
<1>6. \A j \in DOMAIN s.down : \A k \in DOMAIN t.down : k < j =>
         k \in DOMAIN s.down /\ s.down[k] = t.down[k]
    BY <1>2 DEF Adds
<1> QED BY <1>4, <1>5, <1>6 DEF Orderly

(* Of a section that is still to be prepared nothing was asked or drawn. *)
LEMMA OrderlyFresh ==
    ASSUME NEW s, NEW ch, Core(s, ch), s.act.state = "PREPARING", s.act.id # 0
    PROVE  Orderly(s, ch)
<1>1. /\ ~Has(s.down, "PRESENT", s.act.id)
      /\ ch.cur = s.act.id => ch.stage \notin Shows
      /\ ~Has(s.up, "PRESENTED", s.act.id)
    BY DEF Core, Linked, Drawn, Shows, Live
<1>2. /\ \A k \in DOMAIN s.down : s.down[k].type = "PRESENT" => s.down[k].id # s.act.id
      /\ \A k \in DOMAIN s.up : s.up[k].type = "PRESENTED" => s.up[k].id # s.act.id
    BY <1>1 DEF Has
<1> QED BY <1>1, <1>2 DEF Orderly

LEMMA OrderlyRead ==
    ASSUME NEW s \in Client, NEW t \in Client, NEW ch, Orderly(s, ch), s.up # <<>>,
           t.act.id = s.act.id, t.up = Tail(s.up), t.down = s.down
    PROVE  Orderly(t, ch)
<1>1. s.up \in Seq(Messages)
    BY DEF Client
<1>2. \A k \in DOMAIN t.up : k \in Nat /\ k + 1 \in DOMAIN s.up /\ t.up[k] = s.up[k + 1]
    BY <1>1, TailFacts
<1>3. ASSUME NEW j \in DOMAIN t.up, NEW k \in DOMAIN t.up, k < j,
             t.up[j].type \in Woken, t.up[k].type = "PRESENTED"
      PROVE  t.up[k].id # t.act.id
    <2>1. /\ j + 1 \in DOMAIN s.up /\ k + 1 \in DOMAIN s.up /\ k + 1 < j + 1
          /\ t.up[j] = s.up[j + 1] /\ t.up[k] = s.up[k + 1]
        BY <1>2, <1>3
    <2> QED BY <1>3, <2>1 DEF Orderly
<1>4. \A j \in DOMAIN t.down : t.down[j].type \in Wakes =>
          /\ ~(ch.cur = t.act.id /\ ch.stage \in Shows)
          /\ \A k \in DOMAIN t.down :
                k < j /\ t.down[k].type = "PRESENT" => t.down[k].id # t.act.id
    BY DEF Orderly
<1> QED BY <1>3, <1>4 DEF Orderly

(* The child says something, that it woke only while the client has heard      *)
(* nothing of the picture of the present section.                             *)
LEMMA OrderlyPost ==
    ASSUME NEW s \in Client, NEW t \in Client, NEW ch, NEW new, Orderly(s, ch),
           NEW m \in Messages, t.up = Append(s.up, m), t.down = s.down,
           t.act.id = s.act.id, new.cur = ch.cur, new.stage \in Shows => ch.stage \in Shows,
           m.type \in Woken => ~Has(s.up, "PRESENTED", s.act.id)
    PROVE  Orderly(t, new)
<1>1. s.up \in Seq(Messages)
    BY DEF Client
<1>2. /\ \A k \in DOMAIN t.up : \/ k \in DOMAIN s.up /\ t.up[k] = s.up[k]
                                \/ k = Len(s.up) + 1 /\ t.up[k] = m
      /\ \A k \in DOMAIN s.up : k \in Nat /\ k < Len(s.up) + 1
      /\ Len(s.up) \in Nat
    BY <1>1, AppendFacts
<1>3. ASSUME NEW j \in DOMAIN t.up, NEW k \in DOMAIN t.up, k < j,
             t.up[j].type \in Woken, t.up[k].type = "PRESENTED"
      PROVE  t.up[k].id # t.act.id
    <2>1. k \in DOMAIN s.up /\ t.up[k] = s.up[k]
        BY <1>2, <1>3
    <2>2. CASE j \in DOMAIN s.up /\ t.up[j] = s.up[j]
        BY <1>3, <2>1, <2>2 DEF Orderly
    <2>3. CASE t.up[j] = m
        BY <1>3, <2>1, <2>3 DEF Has
    <2> QED BY <1>2, <2>2, <2>3
<1>4. \A j \in DOMAIN t.down : t.down[j].type \in Wakes =>
          /\ ~(new.cur = t.act.id /\ new.stage \in Shows)
          /\ \A k \in DOMAIN t.down :
                k < j /\ t.down[k].type = "PRESENT" => t.down[k].id # t.act.id
    BY DEF Orderly
<1> QED BY <1>3, <1>4 DEF Orderly

(* The child reads a command: what it then shows it showed before, or was just *)
(* asked to.                                                                  *)
LEMMA OrderlyTake ==
    ASSUME NEW s \in Client, NEW t \in Client, NEW ch, NEW new, Orderly(s, ch),
           s.down # <<>>, t.down = Tail(s.down), t.up = s.up, t.act.id = s.act.id,
           \/ new.cur = ch.cur /\ new.stage = ch.stage
           \/ new.stage \notin Shows
           \/ Head(s.down).type = "PRESENT" /\ new.cur = Head(s.down).id
    PROVE  Orderly(t, new)
<1>1. s.down \in Seq(Messages)
    BY DEF Client
<1>2. /\ 1 \in DOMAIN s.down /\ Head(s.down) = s.down[1]
      /\ \A k \in DOMAIN t.down :
            k \in Nat \ {0} /\ k + 1 \in DOMAIN s.down /\ t.down[k] = s.down[k + 1]
    BY <1>1, TailFacts
<1>3. ASSUME NEW j \in DOMAIN t.down, t.down[j].type \in Wakes
      PROVE  /\ ~(new.cur = t.act.id /\ new.stage \in Shows)
             /\ \A k \in DOMAIN t.down :
                   k < j /\ t.down[k].type = "PRESENT" => t.down[k].id # t.act.id
    <2>1. j + 1 \in DOMAIN s.down /\ s.down[j + 1].type \in Wakes /\ 1 < j + 1
        BY <1>2, <1>3
    <2>2. /\ ~(ch.cur = s.act.id /\ ch.stage \in Shows)
          /\ \A k \in DOMAIN s.down :
                k < j + 1 /\ s.down[k].type = "PRESENT" => s.down[k].id # s.act.id
        BY <2>1 DEF Orderly
    <2>3. ~(new.cur = t.act.id /\ new.stage \in Shows)
        BY <1>2, <2>1, <2>2
    <2>4. ASSUME NEW k \in DOMAIN t.down, k < j, t.down[k].type = "PRESENT"
          PROVE  t.down[k].id # t.act.id
        <3>1. k + 1 \in DOMAIN s.down /\ k + 1 < j + 1 /\ t.down[k] = s.down[k + 1]
            BY <1>2, <2>4
        <3> QED BY <2>2, <2>4, <3>1
    <2> QED BY <2>3, <2>4
<1>4. \A j, k \in DOMAIN t.up :
          k < j /\ t.up[j].type \in Woken /\ t.up[k].type = "PRESENTED"
             => t.up[k].id # t.act.id
    BY DEF Orderly
<1> QED BY <1>3, <1>4 DEF Orderly

-----------------------------------------------------------------------------
(* What each callback leaves of it.                                          *)
LEMMA IntentKept ==
    ASSUME NEW s, NEW t, Frame(s, t), Rests(s, t), Intent(s),
           t.act.state \in Live => s.act.state \in Live,
           "handshake" \in t.timers => "handshake" \in s.timers,
           "context" \in s.timers => "context" \in t.timers
    PROVE  Intent(t)
<1>1. ModernActive(t) <=> ModernActive(s)
    BY DEF Frame, ModernActive
<1> QED BY <1>1 DEF Frame, Rests, Intent

LEMMA BoundedKept ==
    ASSUME NEW s, NEW t, NEW ch, NEW new, Frame(s, t), Rests(s, t), Bounded(s, ch),
           "handshake" \in s.timers => "handshake" \in t.timers,
           "context" \in s.timers => "context" \in t.timers,
           s.timers \cap Steps # {} => t.timers \cap Steps # {},
           Orderly(s, ch) => Orderly(t, new)
    PROVE  Bounded(t, new)
BY DEF Frame, Rests, Bounded, Waiting

LEMMA UnwantedWaits ==
    ASSUME NEW t, NEW ch, ~t.wanted, Heard(t, ch),
           t.failed => ~t.pending /\ t.act.state \notin Live,
           "handshake" \in t.timers => t.pending /\ ~ModernActive(t)
    PROVE  Waits(t, ch)
BY DEF Waits, Intent, Bounded, Waiting

LEMMA FailWaits ==
    ASSUME NEW s \in Client, NEW ch, Heard(s, ch), s.wanted => s.evict = "none" /\ ~s.owes
    PROVE  Waits(FailModern(s), ch)
<1> DEFINE t == FailModern(s)
<1>1. /\ t \in Client /\ t.failed /\ ~t.pending /\ ~t.visible /\ t.owes = s.owes
      /\ t.wanted = s.wanted /\ t.evict = s.evict /\ t.mode = s.mode /\ t.doc = s.doc
      /\ t.act.state \notin Live /\ t.up = s.up /\ t.down = s.down
      /\ t.timers = s.timers \ {"handshake", "prepare", "present"}
    BY FrameFail
<1> HIDE DEF t
<1>2. Heard(t, ch)
    BY <1>1, FrameHeard, AddsNone
<1>3. Intent(t) /\ Bounded(t, ch)
    BY <1>1 DEF Intent, Bounded, Waiting
<1> QED BY <1>2, <1>3 DEF Waits, t

LEMMA ActivateWaits ==
    ASSUME NEW s \in Client, NEW ch \in Child, Sized(s, ch), Heard(s, ch), ModernActive(s),
           s.pending, ~s.failed, s.wanted => s.evict = "none" /\ ~s.owes,
           s.wanted /\ ~s.tainted /\ ~s.replaced /\ s.lost => "context" \in s.timers
    PROVE  Waits(ActivateModern(s), ch)
<1> DEFINE t == ActivateModern(s)
<1>1. /\ Frame(s, t) /\ t.pending = s.pending /\ t.owes = s.owes /\ ~t.visible
      /\ t.act.id = s.serial + 1
      /\ t.timers = (s.timers \ {"handshake", "prepare", "present"}) \cup {"prepare"}
      /\ Adds(s.down, t.down, Commands)
    BY FrameActivate
<1> HIDE DEF t
<1>2. Heard(t, ch)
    BY <1>1, FrameHeard DEF Frame
<1>3. Orderly(t, ch)
    BY <1>1, OrderlyNew DEF Frame
<1>4. t.mode = "modern" /\ t.doc = "DOCUMENT_READY"
    BY <1>1 DEF Frame, ModernActive
<1>5. /\ "handshake" \notin t.timers /\ "prepare" \in t.timers
      /\ "context" \in s.timers => "context" \in t.timers
    BY <1>1
<1>6. Intent(t)
    BY <1>1, <1>4, <1>5 DEF Frame, Intent
<1>7. Bounded(t, ch)
    BY <1>3, <1>4, <1>5 DEF Bounded, Steps, Listening
<1> QED BY <1>2, <1>6, <1>7 DEF Waits, t

LEMMA FallBackWaits ==
    ASSUME NEW s \in Client, NEW ch, Waits(s, ch)
    PROVE  Waits(FallBack(s), ch)
<1> DEFINE t == FallBack(s)
<1>1. /\ t \in Client /\ t.mode = "legacy" /\ t.doc = "UNMOUNTED"
      /\ t.wanted = s.wanted /\ t.failed = s.failed /\ t.evict = s.evict
      /\ t.pending = s.pending /\ (t.owes => s.owes) /\ t.act = s.act
      /\ t.up = <<>> /\ t.down = <<>>
      /\ t.timers \subseteq s.timers
      /\ t.pending => "handshake" \notin t.timers
    BY FrameFallBack
<1> HIDE DEF t
<1>2. Heard(t, ch)
    BY <1>1, SilentHeard DEF Listening
<1>3. "handshake" \notin t.timers
    BY <1>1 DEF Waits, Intent
<1>4. Intent(t)
    BY <1>1, <1>3 DEF Waits, Intent
<1>5. Bounded(t, ch)
    BY <1>1 DEF Bounded, Waiting
<1> QED BY <1>2, <1>4, <1>5 DEF Waits, t

LEMMA SettleWaits ==
    ASSUME NEW s \in Client, NEW ch, s.evict \in {"grace", "disposing"}, ~s.wanted,
           "handshake" \notin s.timers, s.failed => ~s.pending
    PROVE  Waits(SettleEviction(s), ch)
<1> DEFINE t == SettleEviction(s)
<1>1. /\ t \in Client /\ t.mode = "closed" /\ t.doc \notin Listening
      /\ t.wanted = s.wanted /\ t.failed = s.failed /\ t.pending = s.pending
      /\ t.act = NoActivation /\ t.up = <<>> /\ t.down = <<>>
      /\ t.timers \subseteq s.timers
    BY FrameSettle
<1> HIDE DEF t
<1>2. Heard(t, ch)
    BY <1>1, SilentHeard
<1>3. t.act.state \notin Live
    BY <1>1, NoneIs DEF Live
<1> QED BY <1>1, <1>2, <1>3, UnwantedWaits DEF t

(* A message that says nothing of the document is read. *)
LEMMA RestWaits ==
    ASSUME c \in Client, c.up # <<>>, c.mode = "modern", Waits(c, child),
           Head(c.up).type \notin {"READY", "SUSPENDED", "RESUMED"}
    PROVE  Waits(Rest, child)
<1> DEFINE t == Rest
<1>1. /\ t \in Client /\ Rests(c, t)
      /\ t.wanted = c.wanted /\ t.failed = c.failed /\ t.tainted = c.tainted
      /\ t.replaced = c.replaced /\ t.mode = c.mode /\ t.epoch = c.epoch
      /\ t.doc = c.doc /\ t.lost = c.lost /\ t.evict = c.evict
      /\ t.up = Tail(c.up) /\ t.act = c.act /\ t.down = c.down /\ t.timers = c.timers
    BY FrameRest
<1> HIDE DEF t
<1>2. Heard(t, child)
    BY <1>1, ReadHeard DEF Waits
<1>3. ModernActive(t) <=> ModernActive(c)
    BY <1>1 DEF ModernActive
<1>4. Intent(t)
    BY <1>1, <1>3 DEF Waits, Intent, Rests
<1>5. Orderly(c, child) => Orderly(t, child)
    BY <1>1, OrderlyRead
<1>6. Waiting(t) <=> Waiting(c)
    BY <1>1 DEF Waiting, Rests
<1>7. Bounded(t, child)
    BY <1>1, <1>5, <1>6 DEF Waits, Bounded
<1> QED BY <1>2, <1>4, <1>7 DEF Waits, t

(* A message about the document is read, and a deferred activation runs. *)
LEMMA DocumentWaits ==
    ASSUME Good(c, child), c.up # <<>>, c.mode = "modern", Waits(c, child),
           NEW event \in {"READY", "SUSPENDED", "RESUMED"}, Head(c.up).type = event,
           NEW d, d = Document(Rest, event)
    PROVE  /\ event # "SUSPENDED" => Waits(Redrive(d), child)
           /\ event = "SUSPENDED" => Waits(d, child)
<1>1. c \in Client
    BY DEF Good, Core
<1> DEFINE r == Rest
<1>2. /\ r \in Client /\ Rests(c, r)
      /\ r.wanted = c.wanted /\ r.failed = c.failed /\ r.tainted = c.tainted
      /\ r.replaced = c.replaced /\ r.mode = c.mode /\ r.epoch = c.epoch
      /\ r.doc = c.doc /\ r.lost = c.lost /\ r.evict = c.evict
      /\ r.up = Tail(c.up) /\ r.act = c.act /\ r.serial = c.serial
      /\ r.down = c.down /\ r.timers = c.timers
    BY <1>1, FrameRest
<1>3. Good(r, child)
    BY GoodRead DEF Rest
<1>4. d = Document(r, event)
    OBVIOUS
<1> HIDE DEF r
<1>5. Good(d, child)
    BY <1>3, <1>4, GoodDocument
<1>6. d \in Client /\ child \in Child /\ Sized(d, child)
    BY <1>5 DEF Good, Core
<1>7. /\ d.up = r.up /\ d.down = r.down /\ d.act = r.act /\ d.timers = r.timers
      /\ d.mode = r.mode /\ d.lost = r.lost /\ d.evict = r.evict
      /\ d.pending = r.pending /\ d.owes = r.owes /\ d.visible = r.visible
    BY <1>2, <1>4, DocumentFields DEF Ports
<1>8. /\ d.wanted = r.wanted /\ d.failed = r.failed /\ d.tainted = r.tainted
      /\ d.replaced = r.replaced /\ d.doc = Reduce(DocumentEdges, r.doc, event)
    BY <1>2, <1>4 DEF Document, Client
<1>9. /\ d.wanted = c.wanted /\ d.failed = c.failed /\ d.tainted = c.tainted
      /\ d.replaced = c.replaced /\ d.mode = c.mode /\ d.lost = c.lost
      /\ d.evict = c.evict /\ d.up = Tail(c.up) /\ d.act = c.act
      /\ d.down = c.down /\ d.timers = c.timers
      /\ d.pending = c.pending /\ d.owes = c.owes /\ d.visible = c.visible
      /\ d.doc = Reduce(DocumentEdges, c.doc, event)
    BY <1>2, <1>7, <1>8 DEF Rests
<1>10. /\ event = "SUSPENDED" => d.doc \in {c.doc, "SUSPENDED"}
       /\ c.doc \in Listening => d.doc \in Listening
    BY <1>9, DocumentHears
<1>11. Heard(d, child)
    BY <1>1, <1>9, ReadHeard DEF Waits
<1>12. Bounded(d, child)
    <2>1. Orderly(c, child) => Orderly(d, child)
        BY <1>1, <1>6, <1>9, OrderlyRead
    <2>2. Waiting(d) <=> Waiting(c)
        BY <1>9 DEF Waiting
    <2> QED BY <1>9, <1>10, <2>1, <2>2 DEF Waits, Bounded
<1>13. ASSUME "handshake" \in d.timers => ~ModernActive(d) PROVE Intent(d)
    BY <1>9, <1>10, <1>13 DEF Waits, Intent
<1>14. CASE event = "SUSPENDED"
    <2>1. ModernActive(d) => ModernActive(c)
        BY <1>9, <1>10, <1>14 DEF ModernActive
    <2>2. "handshake" \in d.timers => ~ModernActive(d)
        BY <1>9, <2>1 DEF Waits, Intent
    <2> QED BY <1>11, <1>12, <1>13, <1>14, <2>2 DEF Waits
<1>15. CASE event # "SUSPENDED" /\ ~(d.pending /\ ModernActive(d))
    <2>1. "handshake" \in d.timers => ~ModernActive(d)
        BY <1>9, <1>15 DEF Waits, Intent
    <2> QED BY <1>11, <1>12, <1>13, <1>15, <2>1 DEF Waits, Redrive
<1>16. CASE event # "SUSPENDED" /\ d.pending /\ ModernActive(d)
    <2>1. /\ ~d.failed /\ (d.wanted => d.evict = "none" /\ ~d.owes)
          /\ d.wanted /\ ~d.tainted /\ ~d.replaced /\ d.lost => "context" \in d.timers
        BY <1>9, <1>16 DEF Waits, Intent
    <2>2. Waits(ActivateModern(d), child)
        BY <1>6, <1>11, <1>16, <2>1, ActivateWaits
    <2> QED BY <1>16, <2>2 DEF Redrive
<1> QED BY <1>14, <1>15, <1>16

-----------------------------------------------------------------------------
(* The owner. *)
LEMMA EnterWaits ==
    ASSUME Good(c, child), Waits(c, child), Enter
    PROVE  Waits(c', child')
<1> DEFINE p == IF c.mode = "legacy" THEN Open(c) ELSE c
<1> DEFINE o == PayDebt(p)
<1> DEFINE s == [o EXCEPT !.pending = TRUE, !.wanted = TRUE, !.failed = FALSE,
                          !.tainted = o.lost, !.replaced = FALSE]
<1> DEFINE h == [s EXCEPT !.visible = FALSE]
<1> DEFINE a == Clear(h, {"prepare"})
<1> DEFINE t == Arm(a, "handshake")
<1>1. /\ c.evict = "none" /\ child' = child
      /\ c' = IF ModernActive(s) THEN ActivateModern(s)
              ELSE IF s.mode = "legacy" THEN ActivateLegacy(s) ELSE t
    BY DEF Enter
<1>2. Core(c, child) /\ c \in Client /\ child \in Child /\ Heard(c, child)
    BY DEF Good, Core, Waits
<1>3. Core(p, child) /\ p \in Client /\ p.evict = "none"
    BY <1>1, <1>2, OpenCore DEF Core
<1>4. Heard(p, child)
    <2>1. Heard(Open(c), child)
        <3>1. "MOUNTING" \notin Listening
            BY DEF Listening
        <3> QED BY <1>2, <3>1, FrameOpen, SilentHeard
    <2> QED BY <1>2, <2>1
<1> HIDE DEF p
<1>5. /\ Core(o, child) /\ Frame(p, o) /\ Adds(p.down, o.down, Debts)
    BY <1>3, PayDebtCore, FrameDebts
<1>6. ~o.owes
    <2>1. Send(p, Plain("RESUME")) \in Client
        BY <1>3, PlainIs, SendFields DEF Body, Types
    <2>2. p.owes => ~o.owes
        BY <2>1 DEF PayDebt, Client
    <2>3. ~p.owes => o = p
        BY DEF PayDebt
    <2> QED BY <2>2, <2>3
<1>7. Heard(o, child)
    BY <1>4, <1>5, FrameHeard DEF Frame
<1> HIDE DEF o
<1>8. /\ s \in Client /\ s.pending /\ s.wanted /\ ~s.failed /\ s.tainted = o.lost /\ ~s.replaced
      /\ s.mode = o.mode /\ s.doc = o.doc /\ s.lost = o.lost /\ s.evict = o.evict
      /\ s.owes = o.owes /\ s.up = o.up /\ s.down = o.down /\ s.act = o.act
      /\ s.serial = o.serial /\ s.epoch = o.epoch /\ s.timers = o.timers
    <2>1. o \in Client /\ o.lost \in BOOLEAN
        BY <1>5 DEF Core, Client
    <2>2. s \in Client
        BY <2>1 DEF Client
    <2>3. /\ s.pending /\ s.wanted /\ ~s.failed /\ s.tainted = o.lost /\ ~s.replaced
          /\ s.mode = o.mode /\ s.doc = o.doc /\ s.lost = o.lost /\ s.evict = o.evict
          /\ s.owes = o.owes /\ s.up = o.up /\ s.down = o.down /\ s.act = o.act
          /\ s.serial = o.serial /\ s.epoch = o.epoch /\ s.timers = o.timers
        BY <2>1 DEF Client
    <2> QED BY <2>2, <2>3
<1> HIDE DEF s
<1>9. s.evict = "none" /\ ~s.owes
    BY <1>3, <1>5, <1>6, <1>8 DEF Frame
<1>10. Sized(s, child)
    BY <1>5, <1>8 DEF Core, Sized
<1>11. Heard(s, child)
    BY <1>7, <1>8, FrameHeard, AddsNone
<1>12. CASE ModernActive(s)
    <2>1. Waits(ActivateModern(s), child)
        BY <1>2, <1>8, <1>9, <1>10, <1>11, <1>12, ActivateWaits
    <2> QED BY <1>1, <1>12, <2>1
<1>13. CASE ~ModernActive(s) /\ s.mode = "legacy"
    <2> DEFINE u == ActivateLegacy(s)
    <2>1. /\ Frame(s, u) /\ u.pending = s.pending /\ u.owes = s.owes /\ u.act = s.act
          /\ u.down = s.down /\ u.timers = s.timers \ {"handshake"}
        BY <1>8, FrameLegacy
    <2>2. c' = u
        BY <1>1, <1>13
    <2> HIDE DEF u
    <2>3. u.mode = "legacy" /\ "handshake" \notin u.timers
        BY <1>13, <2>1 DEF Frame
    <2>4. Heard(u, child)
        BY <1>11, <2>1, FrameHeard, AddsNone DEF Frame
    <2>5. Intent(u)
        BY <1>8, <1>9, <2>1, <2>3 DEF Intent, Frame
    <2>6. Bounded(u, child)
        BY <2>3 DEF Bounded, Waiting
    <2> QED BY <1>1, <2>2, <2>4, <2>5, <2>6 DEF Waits
<1>14. CASE ~ModernActive(s) /\ s.mode # "legacy"
    <2>1. /\ h \in Client /\ ~h.visible /\ h.pending /\ h.wanted /\ ~h.failed
          /\ h.tainted = s.tainted /\ ~h.replaced
          /\ h.mode = s.mode /\ h.doc = s.doc /\ h.lost = s.lost /\ h.evict = s.evict
          /\ h.owes = s.owes /\ h.up = s.up /\ h.down = s.down
        BY <1>8 DEF Client
    <2>2. c' = t
        BY <1>1, <1>14
    <2> HIDE DEF h
    <2>3. Frame(h, a) /\ Rests(h, a) /\ a.down = h.down
        BY <2>1, TimerSets, FrameClear
    <2> HIDE DEF a
    <2>4. Frame(a, t) /\ Rests(a, t) /\ t.down = a.down /\ t.timers = a.timers \cup {"handshake"}
        BY <2>3, FrameArm DEF Timers, Frame
    <2> HIDE DEF t
    <2>5. /\ ~t.visible /\ t.pending /\ t.wanted /\ ~t.failed /\ t.tainted = s.lost /\ ~t.replaced
          /\ t.mode = s.mode /\ t.doc = s.doc /\ t.lost = s.lost /\ t.evict = "none"
          /\ ~t.owes /\ t.up = s.up /\ t.down = s.down /\ "handshake" \in t.timers
        BY <1>8, <1>9, <2>1, <2>3, <2>4 DEF Frame, Rests
    <2>6. Heard(t, child)
        BY <1>11, <2>5, FrameHeard, AddsNone
    <2>7. ~ModernActive(t)
        BY <1>14, <2>5 DEF ModernActive
    <2>8. Intent(t)
        BY <2>5, <2>7 DEF Intent
    <2>9. Bounded(t, child)
        BY <2>5 DEF Bounded
    <2> QED BY <1>1, <2>2, <2>6, <2>8, <2>9 DEF Waits
<1> QED BY <1>12, <1>13, <1>14

LEMMA LeaveWaits ==
    ASSUME c \in Client, Waits(c, child), Leave
    PROVE  Waits(c', child')
<1> DEFINE a == Clear(c, {"handshake"})
<1> DEFINE h == [a EXCEPT !.visible = FALSE, !.pending = FALSE, !.wanted = FALSE, !.v2 = FALSE]
<1> DEFINE b == Clear(h, {"prepare", "present"})
<1> DEFINE r == Release(b)
<1>1. c' \in {h, r} /\ child' = child
    BY DEF Leave, Deactivate
<1>2. Frame(c, a) /\ a.act = c.act /\ a.down = c.down /\ a.timers = c.timers \ {"handshake"}
    BY TimerSets, FrameClear
<1> HIDE DEF a
<1>3. /\ h \in Client /\ ~h.wanted /\ ~h.pending /\ h.failed = a.failed /\ h.act = a.act
      /\ h.mode = a.mode /\ h.doc = a.doc /\ h.up = a.up /\ h.down = a.down
      /\ h.timers = a.timers
    <2>1. a \in Client
        BY <1>2 DEF Frame
    <2> QED BY <2>1 DEF Client
<1> HIDE DEF h
<1>4. Waits(h, child)
    <2>1. Heard(h, child)
        BY <1>2, <1>3, FrameHeard, AddsNone DEF Waits, Frame
    <2> QED BY <1>2, <1>3, <2>1, UnwantedWaits DEF Waits, Intent, Frame
<1>5. Waits(r, child)
    <2>1. Frame(h, b) /\ Rests(h, b) /\ b.down = h.down /\ b.timers \subseteq h.timers
        BY <1>3, TimerSets, FrameClear
    <2> HIDE DEF b
    <2>2. /\ Frame(b, r) /\ Rests(b, r) /\ r.act.state \notin Live /\ r.timers = b.timers
          /\ Adds(b.down, r.down, Commands)
        BY <2>1, FrameRelease DEF Frame
    <2> HIDE DEF r
    <2>3. Frame(h, r) /\ Rests(h, r)
        BY <2>1, <2>2, FrameChain
    <2>4. Heard(r, child)
        BY <1>4, <2>1, <2>2, <2>3, FrameHeard DEF Waits, Frame
    <2>5. ~r.wanted /\ ~r.pending
        BY <1>3, <2>3 DEF Frame, Rests
    <2>6. "handshake" \notin r.timers
        BY <1>2, <1>3, <2>1, <2>2
    <2> QED BY <2>2, <2>4, <2>5, <2>6, UnwantedWaits
<1> QED BY <1>1, <1>4, <1>5

LEMMA FreezeWaits ==
    ASSUME c \in Client, Waits(c, child), Freeze
    PROVE  Waits(c', child')
<1> DEFINE d == Suspend(c)
<1> DEFINE t == [d EXCEPT !.wanted = FALSE]
<1>1. c' = t /\ child' = child
    BY DEF Freeze
<1>2. /\ Frame(c, d) /\ d.pending = c.pending /\ d.act = c.act /\ d.timers = c.timers
      /\ Adds(c.down, d.down, Debts)
    BY FrameDebts
<1> HIDE DEF d
<1>3. /\ ~t.wanted /\ t.failed = d.failed /\ t.pending = d.pending /\ t.act = d.act
      /\ t.mode = d.mode /\ t.doc = d.doc /\ t.up = d.up /\ t.down = d.down
      /\ t.timers = d.timers
    <2>1. d \in Client
        BY <1>2 DEF Frame
    <2> QED BY <2>1 DEF Client
<1> HIDE DEF t
<1>4. Heard(t, child)
    BY <1>2, <1>3, FrameHeard DEF Waits, Frame
<1>5. ModernActive(t) <=> ModernActive(c)
    BY <1>2, <1>3 DEF Frame, ModernActive
<1>6. Waits(t, child)
    BY <1>2, <1>3, <1>4, <1>5, UnwantedWaits DEF Waits, Intent, Frame
<1> QED BY <1>1, <1>6

LEMMA DebtWaits ==
    ASSUME NEW s \in Client, Heard(s, child), ~s.wanted,
           s.failed => ~s.pending /\ s.act.state \notin Live,
           "handshake" \in s.timers => s.pending /\ ~ModernActive(s)
    PROVE  Waits(PayDebt(s), child)
<1> DEFINE t == PayDebt(s)
<1>1. /\ Frame(s, t) /\ t.pending = s.pending /\ t.act = s.act /\ t.timers = s.timers
      /\ Adds(s.down, t.down, Debts)
    BY FrameDebts
<1> HIDE DEF t
<1>2. Heard(t, child)
    BY <1>1, FrameHeard DEF Frame
<1>3. ModernActive(t) <=> ModernActive(s)
    BY <1>1 DEF Frame, ModernActive
<1> QED BY <1>1, <1>2, <1>3, UnwantedWaits DEF Frame, t

LEMMA ThawWaits ==
    ASSUME c \in Client, Waits(c, child), Thaw
    PROVE  Waits(c', child')
<1>1. c' = PayDebt(c) /\ child' = child
    BY DEF Thaw
<1>2. CASE c.wanted
    <2>1. c' = c
        BY <1>1, <1>2 DEF Waits, Intent, PayDebt
    <2> QED BY <1>1, <2>1
<1>3. CASE ~c.wanted
    BY <1>1, <1>3, DebtWaits DEF Waits, Intent
<1> QED BY <1>2, <1>3

LEMMA CancelWaits ==
    ASSUME c \in Client, Waits(c, child), CancelEviction
    PROVE  Waits(c', child')
<1> DEFINE a == Clear(c, {"grace"})
<1> DEFINE s == [a EXCEPT !.evict = "none"]
<1>1. c' = PayDebt(s) /\ child' = child /\ c.evict = "grace"
    BY DEF CancelEviction
<1>2. Frame(c, a) /\ Rests(c, a) /\ a.act = c.act /\ a.down = c.down /\ a.timers = c.timers \ {"grace"}
    BY TimerSets, FrameClear
<1> HIDE DEF a
<1>3. /\ s \in Client /\ s.wanted = a.wanted /\ s.failed = a.failed /\ s.pending = a.pending
      /\ s.act = a.act /\ s.mode = a.mode /\ s.doc = a.doc /\ s.up = a.up
      /\ s.down = a.down /\ s.timers = a.timers
    <2>1. a \in Client
        BY <1>2 DEF Frame
    <2>2. s \in Client
        BY <2>1 DEF Client, Evictions
    <2>3. /\ s.wanted = a.wanted /\ s.failed = a.failed /\ s.pending = a.pending
          /\ s.act = a.act /\ s.mode = a.mode /\ s.doc = a.doc /\ s.up = a.up
          /\ s.down = a.down /\ s.timers = a.timers
        BY <2>1 DEF Client
    <2> QED BY <2>2, <2>3
<1> HIDE DEF s
<1>4. Heard(s, child)
    BY <1>2, <1>3, FrameHeard, AddsNone DEF Waits, Frame
<1>5. ModernActive(s) <=> ModernActive(c)
    BY <1>2, <1>3 DEF Frame, ModernActive
<1>6. /\ ~s.wanted /\ (s.failed => ~s.pending /\ s.act.state \notin Live)
      /\ "handshake" \in s.timers => s.pending /\ ~ModernActive(s)
    BY <1>1, <1>2, <1>3, <1>5 DEF Waits, Intent, Frame, Rests
<1> QED BY <1>1, <1>3, <1>4, <1>6, DebtWaits

LEMMA EvictWaits ==
    ASSUME c \in Client, Waits(c, child), Evict
    PROVE  Waits(c', child')
<1> DEFINE a == Clear(c, {"handshake", "prepare", "present", "context"})
<1> DEFINE h == [a EXCEPT !.evict = "grace", !.pending = FALSE, !.visible = FALSE,
                          !.wanted = FALSE, !.v2 = FALSE]
<1> DEFINE d == Suspend(h)
<1> DEFINE r == Release(d)
<1> DEFINE t == Arm(r, "grace")
<1>1. c' = t /\ child' = child
    BY DEF Evict
<1>2. /\ Frame(c, a) /\ Rests(c, a) /\ a.down = c.down
      /\ a.timers = c.timers \ {"handshake", "prepare", "present", "context"}
    BY TimerSets, FrameClear
<1> HIDE DEF a
<1>3. /\ h \in Client /\ ~h.wanted /\ ~h.pending /\ h.mode = a.mode /\ h.doc = a.doc
      /\ h.up = a.up /\ h.down = a.down /\ h.timers = a.timers
    <2>1. a \in Client
        BY <1>2 DEF Frame
    <2>2. h \in Client
        BY <2>1 DEF Client, Evictions
    <2>3. /\ ~h.wanted /\ ~h.pending /\ h.mode = a.mode /\ h.doc = a.doc
          /\ h.up = a.up /\ h.down = a.down /\ h.timers = a.timers
        BY <2>1 DEF Client
    <2> QED BY <2>2, <2>3
<1> HIDE DEF h
<1>4. /\ Frame(h, d) /\ d.pending = h.pending /\ d.timers = h.timers
      /\ Adds(h.down, d.down, Debts)
    BY <1>3, FrameDebts
<1> HIDE DEF d
<1>5. /\ Frame(d, r) /\ Rests(d, r) /\ r.act.state \notin Live /\ r.timers = d.timers
      /\ Adds(d.down, r.down, Commands)
    BY <1>4, FrameRelease DEF Frame
<1> HIDE DEF r
<1>6. Frame(r, t) /\ Rests(r, t) /\ t.act = r.act /\ t.down = r.down
      /\ t.timers = r.timers \cup {"grace"}
    BY <1>5, FrameArm DEF Frame, Timers
<1> HIDE DEF t
<1>7. Heard(d, child)
    <2>1. Heard(h, child)
        BY <1>2, <1>3, FrameHeard, AddsNone DEF Waits, Frame
    <2> QED BY <1>4, <2>1, FrameHeard DEF Frame
<1>8. Heard(t, child)
    <2>1. Heard(r, child)
        BY <1>5, <1>7, FrameHeard DEF Frame
    <2> QED BY <1>6, <2>1, FrameHeard, AddsNone DEF Frame
<1>9. /\ ~t.wanted /\ ~t.pending /\ t.act.state \notin Live /\ "handshake" \notin t.timers
    BY <1>2, <1>3, <1>4, <1>5, <1>6 DEF Frame, Rests
<1> QED BY <1>1, <1>8, <1>9, UnwantedWaits

LEMMA LoadWaits ==
    ASSUME c \in Client, Waits(c, child), Reload \/ Load
    PROVE  Waits(c', child')
<1> DEFINE t == HandleFrameLoad(c)
<1>1. /\ t \in Client /\ t.doc \notin Listening
      /\ t.up = <<>> /\ t.down = <<>> /\ t.timers = {}
      /\ t.wanted = c.wanted /\ t.failed = c.failed /\ t.pending = c.pending
      /\ ~t.owes /\ t.act = NoActivation
      /\ c.evict = "none" => t.evict = "none"
    BY FrameLoad
<1>2. NoActivation.state \notin Live
    BY NoneIs DEF Live
<1>3. CASE Reload
    <2> DEFINE u == [t EXCEPT !.reloading = TRUE]
    <2>1. c' = u /\ ~c.wanted
        BY <1>3 DEF Reload
    <2> HIDE DEF t
    <2>2. /\ u.doc = t.doc /\ u.up = t.up /\ u.down = t.down /\ u.timers = t.timers
          /\ u.wanted = t.wanted /\ u.failed = t.failed /\ u.pending = t.pending
          /\ u.act = t.act
        BY <1>1 DEF Client
    <2> HIDE DEF u
    <2>3. Heard(u, child')
        BY <1>1, <2>2, SilentHeard
    <2>4. ~u.wanted /\ (u.failed => ~u.pending) /\ "handshake" \notin u.timers
        BY <1>1, <2>1, <2>2 DEF Waits, Intent
    <2> QED BY <1>1, <1>2, <2>1, <2>2, <2>3, <2>4, UnwantedWaits
<1>4. CASE Load
    <2> DEFINE u == [t EXCEPT !.reloading = FALSE, !.replaced = TRUE]
    <2>1. c' = u
        BY <1>4 DEF Load
    <2> HIDE DEF t
    <2>2. /\ u.doc = t.doc /\ u.up = t.up /\ u.down = t.down /\ u.timers = t.timers
          /\ u.wanted = t.wanted /\ u.failed = t.failed /\ u.pending = t.pending
          /\ u.act = t.act /\ u.owes = t.owes /\ u.evict = t.evict /\ u.replaced
        BY <1>1 DEF Client
    <2> HIDE DEF u
    <2>3. Heard(u, child')
        BY <1>1, <2>2, SilentHeard
    <2>4. Intent(u)
        BY <1>1, <1>2, <2>2 DEF Waits, Intent
    <2>5. Bounded(u, child')
        BY <2>2 DEF Bounded, Waiting
    <2> QED BY <2>1, <2>3, <2>4, <2>5 DEF Waits
<1> QED BY <1>3, <1>4

-----------------------------------------------------------------------------
(* Timers. *)
LEMMA HandshakeWaits ==
    ASSUME c \in Client, Waits(c, child), HandshakeTimeout \/ StepTimeout
    PROVE  Waits(c', child')
<1>1. c' = FailModern(c) /\ child' = child
    BY DEF HandshakeTimeout, StepTimeout, Fire, Waits, Intent
<1> QED BY <1>1, FailWaits DEF Waits, Intent

LEMMA ContextWaits ==
    ASSUME c \in Client, Waits(c, child), ContextTimeout
    PROVE  Waits(c', child')
<1> DEFINE s == Clear(c, {"context"})
<1>1. c' = (IF s.lost THEN FailModern(s) ELSE s) /\ child' = child
    BY DEF ContextTimeout, Fire
<1>2. /\ Frame(c, s) /\ Rests(c, s) /\ s.act = c.act /\ s.serial = c.serial
      /\ s.down = c.down /\ s.timers = c.timers \ {"context"}
    BY TimerSets, FrameClear
<1> HIDE DEF s
<1>3. Heard(s, child)
    BY <1>2, FrameHeard, AddsNone DEF Waits, Frame
<1>4. CASE s.lost
    <2>1. s.wanted => s.evict = "none" /\ ~s.owes
        BY <1>2 DEF Waits, Intent, Frame, Rests
    <2>2. Waits(FailModern(s), child)
        BY <1>2, <1>3, <2>1, FailWaits DEF Frame
    <2> QED BY <1>1, <1>4, <2>2
<1>5. CASE ~s.lost
    <2>1. ModernActive(s) <=> ModernActive(c)
        BY <1>2 DEF Frame, ModernActive
    <2>2. Intent(s)
        BY <1>2, <1>5, <2>1 DEF Waits, Intent, Frame, Rests
    <2>3. Orderly(c, child) => Orderly(s, child)
        BY <1>2, OrderlyAdds, AddsNone DEF Frame
    <2>4. s.timers \cap Steps = c.timers \cap Steps
        BY <1>2 DEF Steps
    <2>5. Bounded(s, child)
        BY <1>2, <1>5, <2>3, <2>4 DEF Waits, Bounded, Waiting, Frame, Rests
    <2> QED BY <1>1, <1>3, <1>5, <2>2, <2>5 DEF Waits
<1> QED BY <1>4, <1>5

LEMMA GraceWaits ==
    ASSUME Good(c, child), Waits(c, child), GraceOver
    PROVE  Waits(c', child')
<1> DEFINE a == Clear(c, {"grace"})
<1> DEFINE b == [a EXCEPT !.evict = "disposing"]
<1> DEFINE s == Document(b, "DISPOSE")
<1> DEFINE m == Plain("DISPOSE")
<1> DEFINE d == Send(s, m)
<1> DEFINE t == Arm(d, "dispose")
<1>1. /\ child' = child /\ "grace" \in c.timers
      /\ c' = IF s.mode = "modern" THEN t ELSE SettleEviction(s)
    BY DEF GraceOver, Fire
<1>2. /\ c \in Client /\ c.evict = "grace" /\ ~c.wanted /\ ~c.pending
      /\ c.act.state \notin Live /\ "handshake" \notin c.timers
    BY <1>1 DEF Good, Core, Timed, Evicted, Waits, Intent
<1>3. /\ Frame(c, a) /\ Rests(c, a) /\ a.act = c.act /\ a.down = c.down
      /\ a.timers = c.timers \ {"grace"}
    BY <1>2, TimerSets, FrameClear
<1> HIDE DEF a
<1>4. /\ b \in Client /\ ~b.wanted /\ ~b.pending /\ b.act = a.act /\ b.evict = "disposing"
      /\ b.mode = a.mode /\ b.doc = a.doc /\ b.up = a.up /\ b.down = a.down
      /\ b.timers = a.timers
    <2>1. a \in Client
        BY <1>3 DEF Frame
    <2>2. b \in Client
        BY <2>1 DEF Client, Evictions
    <2>3. /\ b.wanted = a.wanted /\ b.pending = a.pending /\ b.act = a.act /\ b.evict = "disposing"
          /\ b.mode = a.mode /\ b.doc = a.doc /\ b.up = a.up /\ b.down = a.down
          /\ b.timers = a.timers
        BY <2>1 DEF Client
    <2> QED BY <1>2, <1>3, <2>2, <2>3 DEF Frame, Rests
<1> HIDE DEF b
<1>5. /\ s \in Client /\ s.up = b.up /\ s.down = b.down /\ s.act = b.act /\ s.timers = b.timers
      /\ s.mode = b.mode /\ s.pending = b.pending /\ s.evict = b.evict /\ s.wanted = b.wanted
      /\ s.doc \notin Listening
    <2>1. /\ s \in Client /\ Ports(b, s) /\ s.act = b.act /\ s.timers = b.timers
          /\ s.mode = b.mode /\ s.pending = b.pending /\ s.evict = b.evict
        BY <1>4, DocumentFields
    <2>2. s.wanted = b.wanted /\ s.doc = Reduce(DocumentEdges, b.doc, "DISPOSE")
        BY <1>4 DEF Document, Client
    <2> QED BY <2>1, <2>2, DocumentEnds DEF Ports
<1> HIDE DEF s
<1>6. Heard(s, child)
    <2>1. Heard(c, child) /\ s.up = c.up /\ s.down = c.down /\ s.mode = c.mode
        BY <1>3, <1>4, <1>5 DEF Waits, Frame
    <2>2. Sleeps(s) => Sleeps(c)
        BY <1>5, <2>1 DEF Sleeps, Listening
    <2> QED BY <1>5, <2>1, <2>2 DEF Heard
<1>7. "handshake" \notin s.timers
    BY <1>2, <1>3, <1>4, <1>5
<1>8. Waits(SettleEviction(s), child)
    BY <1>4, <1>5, <1>7, SettleWaits
<1>9. Waits(t, child)
    <2>1. m \in Messages /\ m.type = "DISPOSE"
        BY PlainIs DEF Types
    <2> HIDE DEF m
    <2>2. /\ Frame(s, d) /\ Rests(s, d) /\ d.act = s.act /\ d.timers = s.timers
          /\ Adds(s.down, d.down, Commands)
        BY <1>5, <2>1, FrameSend DEF Commands
    <2> HIDE DEF d
    <2>3. /\ Frame(d, t) /\ Rests(d, t) /\ t.act = d.act /\ t.down = d.down
          /\ t.timers = d.timers \cup {"dispose"}
        BY <2>2, FrameArm DEF Timers, Frame
    <2> HIDE DEF t
    <2>4. Frame(s, t) /\ Rests(s, t)
        BY <2>2, <2>3, FrameChain
    <2>5. Heard(t, child)
        BY <1>6, <2>2, <2>3, <2>4, FrameHeard DEF Frame
    <2>6. ~t.wanted /\ ~t.pending /\ t.act.state \notin Live /\ "handshake" \notin t.timers
        BY <1>2, <1>3, <1>4, <1>5, <1>7, <2>2, <2>3, <2>4 DEF Frame, Rests
    <2> QED BY <2>5, <2>6, UnwantedWaits
<1> QED BY <1>1, <1>8, <1>9

LEMMA TimerWaits ==
    ASSUME Good(c, child), Waits(c, child), TimerFires
    PROVE  Waits(c', child')
<1>1. c \in Client
    BY DEF Good, Core
<1>2. ASSUME DisposeTimeout PROVE Waits(c', child')
    <2>1. c' = SettleEviction(c) /\ child' = child
        BY <1>2 DEF DisposeTimeout, Fire
    <2>2. CASE c.evict \in {"grace", "disposing"}
        <3>1. ~c.wanted /\ "handshake" \notin c.timers /\ (c.failed => ~c.pending)
            BY <2>2 DEF Good, Evicted, Waits, Intent
        <3> QED BY <1>1, <2>1, <2>2, <3>1, SettleWaits
    <2>3. CASE c.evict \notin {"grace", "disposing"}
        BY <2>1, <2>3 DEF SettleEviction
    <2> QED BY <2>2, <2>3
<1>3. ASSUME OfferExpires PROVE Waits(c', child')
    BY <1>1, <1>3, FallBackWaits DEF OfferExpires
<1> QED BY <1>1, <1>2, <1>3, HandshakeWaits, ContextWaits, GraceWaits DEF TimerFires

-----------------------------------------------------------------------------
(* Messages of the child. *)
LEMMA DisposedWaits ==
    ASSUME Good(c, child), Waits(c, child), OnDisposed
    PROVE  Waits(c', child')
<1> DEFINE r == Rest
<1> DEFINE d == Document(r, "DISPOSED")
<1>1. /\ c' = SettleEviction(d) /\ child' = child
      /\ c.up # <<>> /\ Head(c.up).type = "DISPOSED"
    BY DEF OnDisposed, Receive
<1>2. c \in Client /\ c.mode = "modern"
    BY <1>1 DEF Good, Core, Queued
<1>3. Waits(r, child)
    BY <1>1, <1>2, RestWaits
<1>4. /\ r \in Client /\ Rests(c, r) /\ r.wanted = c.wanted /\ r.failed = c.failed
      /\ r.evict = c.evict /\ r.act = c.act /\ r.timers = c.timers /\ r.mode = c.mode
    BY <1>1, <1>2, FrameRest
<1> HIDE DEF r
<1>5. /\ d \in Client /\ d.up = r.up /\ d.down = r.down /\ d.act = r.act /\ d.timers = r.timers
      /\ d.mode = r.mode /\ d.lost = r.lost /\ d.epoch = r.epoch /\ d.evict = r.evict
      /\ d.pending = r.pending /\ d.owes = r.owes /\ d.visible = r.visible
      /\ d.wanted = r.wanted /\ d.failed = r.failed /\ d.tainted = r.tainted
      /\ d.replaced = r.replaced /\ d.doc = Reduce(DocumentEdges, r.doc, "DISPOSED")
    <2>1. /\ d \in Client /\ Ports(r, d) /\ d.act = r.act /\ d.timers = r.timers
          /\ d.mode = r.mode /\ d.lost = r.lost /\ d.epoch = r.epoch /\ d.evict = r.evict
          /\ d.pending = r.pending /\ d.owes = r.owes /\ d.visible = r.visible
        BY <1>4, DocumentFields
    <2>2. /\ d.wanted = r.wanted /\ d.failed = r.failed /\ d.tainted = r.tainted
          /\ d.replaced = r.replaced /\ d.doc = Reduce(DocumentEdges, r.doc, "DISPOSED")
        BY <1>4 DEF Document, Client
    <2> QED BY <2>1, <2>2 DEF Ports
<1> HIDE DEF d
<1>6. CASE d.evict \in {"grace", "disposing"}
    <2>1. ~d.wanted /\ "handshake" \notin d.timers /\ (d.failed => ~d.pending)
        BY <1>4, <1>5, <1>6 DEF Good, Evicted, Waits, Intent, Rests
    <2> QED BY <1>1, <1>5, <1>6, <2>1, SettleWaits
<1>7. CASE d.evict \notin {"grace", "disposing"}
    <2>1. c' = d
        BY <1>1, <1>7 DEF SettleEviction
    <2>2. /\ d.doc \in Listening => d.doc = r.doc
          /\ r.doc \in Listening => d.doc = r.doc
        <3>1. ~Legal(DocumentEdges, "DOCUMENT_READY", "DISPOSED")
            BY DEF Legal, DocumentEdges
        <3>2. ~Legal(DocumentEdges, "SUSPENDED", "DISPOSED")
            BY DEF Legal, DocumentEdges
        <3>3. r.doc \in Listening => d.doc = r.doc
            BY <1>5, <3>1, <3>2 DEF Reduce, Listening
        <3> QED BY <1>5, <3>3, DocumentEnds
    <2>3. Heard(d, child)
        <3>1. Sleeps(d) => Sleeps(r)
            BY <1>5, <2>2 DEF Sleeps, Listening
        <3> QED BY <1>3, <1>5, <2>2, <3>1 DEF Waits, Heard
    <2>4. ModernActive(d) <=> ModernActive(r)
        BY <1>5, <2>2 DEF ModernActive, Listening
    <2>5. Intent(d)
        BY <1>3, <1>5, <2>2, <2>4 DEF Waits, Intent
    <2>6. Orderly(r, child) => Orderly(d, child)
        BY <1>4, <1>5, OrderlyAdds, AddsNone
    <2>7. Waiting(d) <=> Waiting(r)
        BY <1>5 DEF Waiting
    <2>8. Bounded(d, child)
        BY <1>3, <1>5, <2>2, <2>6, <2>7 DEF Waits, Bounded
    <2> QED BY <1>1, <2>1, <2>3, <2>5, <2>8 DEF Waits
<1> QED BY <1>6, <1>7

LEMMA LostWaits ==
    ASSUME Good(c, child), Waits(c, child), OnContextLost
    PROVE  Waits(c', child')
<1> DEFINE r == Rest
<1> DEFINE a == Activation(r, "CONTEXT_LOST")
<1> DEFINE b == [a EXCEPT !.lost = c.doc \in {"DOCUMENT_READY", "SUSPENDED"} \/ @,
                          !.visible = FALSE]
<1> DEFINE t == Arm(b, "context")
<1>1. /\ c' = t /\ child' = child
      /\ c.up # <<>> /\ Head(c.up).type = "CONTEXT_LOST"
    BY DEF OnContextLost, Receive
<1>2. c \in Client /\ c.mode = "modern"
    BY <1>1 DEF Good, Core, Queued
<1>3. Waits(r, child)
    BY <1>1, <1>2, RestWaits
<1>4. r \in Client /\ r.doc = c.doc /\ r.mode = "modern"
    BY <1>1, <1>2, FrameRest
<1> HIDE DEF r
<1>5. /\ Frame(r, a) /\ Rests(r, a) /\ a.act.id = r.act.id
      /\ a.down = r.down /\ a.timers = r.timers
      /\ a.act.state \in Live => r.act.state \in Live
    BY <1>4, FrameActivation DEF Events
<1> HIDE DEF a
<1>6. /\ b \in Client /\ ~b.visible /\ b.lost = (c.doc \in Listening \/ a.lost)
      /\ b.wanted = a.wanted /\ b.failed = a.failed /\ b.tainted = a.tainted
      /\ b.replaced = a.replaced /\ b.mode = a.mode /\ b.epoch = a.epoch /\ b.doc = a.doc
      /\ b.evict = a.evict /\ b.up = a.up /\ b.down = a.down /\ b.act = a.act
      /\ b.timers = a.timers /\ b.pending = a.pending /\ b.owes = a.owes
    <2>1. a \in Client /\ a.lost \in BOOLEAN
        BY <1>5 DEF Frame, Client
    <2>2. (c.doc \in {"DOCUMENT_READY", "SUSPENDED"} \/ a.lost) \in BOOLEAN
        OBVIOUS
    <2>3. b \in Client
        BY <2>1, <2>2 DEF Client
    <2>4. /\ ~b.visible /\ b.lost = (c.doc \in {"DOCUMENT_READY", "SUSPENDED"} \/ a.lost)
          /\ b.wanted = a.wanted /\ b.failed = a.failed /\ b.tainted = a.tainted
          /\ b.replaced = a.replaced /\ b.mode = a.mode /\ b.epoch = a.epoch /\ b.doc = a.doc
          /\ b.evict = a.evict /\ b.up = a.up /\ b.down = a.down /\ b.act = a.act
          /\ b.timers = a.timers /\ b.pending = a.pending /\ b.owes = a.owes
        BY <2>1 DEF Client
    <2> QED BY <2>3, <2>4 DEF Listening
<1> HIDE DEF b
<1>7. /\ Frame(b, t) /\ Rests(b, t) /\ t.act = b.act /\ t.down = b.down
      /\ t.timers = b.timers \cup {"context"}
    BY <1>6, FrameArm DEF Timers
<1> HIDE DEF t
<1>8. /\ t \in Client /\ ~t.visible /\ t.lost = (r.doc \in Listening \/ r.lost)
      /\ t.wanted = r.wanted /\ t.failed = r.failed /\ t.tainted = r.tainted
      /\ t.replaced = r.replaced /\ t.mode = r.mode /\ t.epoch = r.epoch /\ t.doc = r.doc
      /\ t.evict = r.evict /\ t.up = r.up /\ t.down = r.down /\ t.act.id = r.act.id
      /\ t.act.state \in Live => r.act.state \in Live
      /\ t.timers = r.timers \cup {"context"} /\ t.pending = r.pending /\ t.owes = r.owes
    BY <1>4, <1>5, <1>6, <1>7 DEF Frame, Rests
<1>9. Heard(t, child)
    BY <1>3, <1>8, FrameHeard, AddsNone DEF Waits
<1>10. Intent(t)
    <2>1. ModernActive(t) <=> ModernActive(r)
        BY <1>8 DEF ModernActive
    <2> QED BY <1>3, <1>8, <2>1 DEF Waits, Intent
<1>11. Bounded(t, child)
    <2> SUFFICES ASSUME Waiting(t)
                 PROVE  \/ "handshake" \in t.timers
                        \/ t.lost /\ "context" \in t.timers
                        \/ t.timers \cap Steps # {} /\ t.mode = "modern" /\ Orderly(t, child)
        BY DEF Bounded
    <2>1. CASE r.visible
        <3>1. r.doc \in Listening
            BY <1>3, <1>8, <2>1 DEF Waits, Intent, Waiting
        <3> QED BY <1>8, <3>1
    <2>2. CASE ~r.visible
        <3>1. Waiting(r)
            BY <1>8, <2>2 DEF Waiting
        <3>2. Orderly(r, child) => Orderly(t, child)
            BY <1>4, <1>8, OrderlyAdds, AddsNone
        <3> QED BY <1>3, <1>8, <3>1, <3>2 DEF Waits, Bounded
    <2> QED BY <2>1, <2>2
<1> QED BY <1>1, <1>9, <1>10, <1>11 DEF Waits

LEMMA RestoredWaits ==
    ASSUME Good(c, child), Waits(c, child), OnContextRestored
    PROVE  Waits(c', child')
<1> DEFINE r == Rest
<1> DEFINE a == Clear(r, {"context"})
<1> DEFINE t == [a EXCEPT !.lost = @ /\ c.doc \notin {"DOCUMENT_READY", "SUSPENDED"},
                          !.tainted = TRUE]
<1>1. /\ c' = t /\ child' = child
      /\ c.up # <<>> /\ Head(c.up).type = "CONTEXT_RESTORED"
    BY DEF OnContextRestored, Receive
<1>2. c \in Client /\ c.mode = "modern"
    BY <1>1 DEF Good, Core, Queued
<1>3. Waits(r, child) /\ r \in Client
    BY <1>1, <1>2, RestWaits, FrameRest
<1> HIDE DEF r
<1>4. /\ Frame(r, a) /\ Rests(r, a) /\ a.act = r.act /\ a.down = r.down
      /\ a.timers = r.timers \ {"context"}
    BY <1>3, TimerSets, FrameClear
<1> HIDE DEF a
<1>5. /\ t.tainted /\ t.wanted = a.wanted /\ t.failed = a.failed /\ t.replaced = a.replaced
      /\ t.mode = a.mode /\ t.doc = a.doc /\ t.evict = a.evict /\ t.up = a.up
      /\ t.down = a.down /\ t.act = a.act /\ t.timers = a.timers /\ t.pending = a.pending
      /\ t.owes = a.owes /\ t.visible = a.visible
    <2>1. a \in Client
        BY <1>4 DEF Frame
    <2> QED BY <2>1 DEF Client
<1> HIDE DEF t
<1>6. Heard(t, child)
    BY <1>3, <1>4, <1>5, FrameHeard, AddsNone DEF Waits, Frame
<1>7. Intent(t)
    <2>1. ModernActive(t) <=> ModernActive(r)
        BY <1>4, <1>5 DEF ModernActive, Frame
    <2> QED BY <1>3, <1>4, <1>5, <2>1 DEF Waits, Intent, Frame, Rests
<1>8. Bounded(t, child)
    BY <1>5 DEF Bounded, Waiting
<1> QED BY <1>1, <1>6, <1>7, <1>8 DEF Waits

(* The answer that is accepted is the first of a section to be prepared: then *)
(* the bound of its picture takes the place of the one that is cleared.  The   *)
(* answer that is refused leaves the entry a bound, or tainted.               *)
LEMMA AppliedWaits ==
    ASSUME Good(c, child), Waits(c, child), OnApplied
    PROVE  Waits(c', child')
<1> DEFINE r == Rest
<1> DEFINE s == Clear(r, PrepareTimer)
<1> DEFINE a == Activation(s, "APPLIED")
<1> DEFINE t == SendPresent(a)
<1> DEFINE u == [s EXCEPT !.tainted = @ \/ "handshake" \in c.timers]
<1>1. /\ child' = child /\ c.up # <<>> /\ Head(c.up).type = "APPLIED"
      /\ \/ c' = r
         \/ c' = t /\ c.act.state = "PREPARING" /\ c.act.id # 0
         \/ c' = u /\ c.act.state # "PREPARING"
    BY DEF OnApplied, Receive, MatchesActivation
<1>2. c \in Client /\ c.mode = "modern" /\ Timed(c) /\ c.timers \subseteq Timers
    BY <1>1 DEF Good, Core, Queued, Client
<1>3. /\ Waits(r, child) /\ r \in Client /\ r.act = c.act /\ r.timers = c.timers
      /\ r.mode = "modern"
    BY <1>1, <1>2, RestWaits, FrameRest
<1>4. Good(r, child)
    BY <1>1, GoodRead DEF Rest
<1> HIDE DEF r
<1>5. /\ Frame(r, s) /\ Rests(r, s) /\ s.act = r.act /\ s.down = r.down
      /\ s.timers = r.timers \ PrepareTimer
    BY <1>3, TimerSets, FrameClear
<1>6. Heard(s, child)
    BY <1>3, <1>5, FrameHeard, AddsNone DEF Waits, Frame
<1> HIDE DEF s
<1>7. CASE c' = r
    BY <1>1, <1>3, <1>7
<1>8. CASE c' = u /\ c.act.state # "PREPARING"
    <2>1. /\ u.wanted = r.wanted /\ u.failed = r.failed /\ u.replaced = r.replaced
          /\ u.mode = r.mode /\ u.doc = r.doc /\ u.lost = r.lost /\ u.evict = r.evict
          /\ u.up = r.up /\ u.down = r.down /\ u.act = r.act
          /\ u.pending = r.pending /\ u.owes = r.owes /\ u.visible = r.visible
          /\ u.timers = r.timers \ PrepareTimer
          /\ "handshake" \in r.timers => u.tainted
          /\ "handshake" \notin r.timers => u.tainted = r.tainted
          /\ u \in Client
        <3>1. s \in Client /\ s.tainted \in BOOLEAN
            BY <1>5 DEF Frame, Client
        <3>2. /\ u.wanted = s.wanted /\ u.failed = s.failed /\ u.replaced = s.replaced
              /\ u.mode = s.mode /\ u.doc = s.doc /\ u.lost = s.lost /\ u.evict = s.evict
              /\ u.up = s.up /\ u.down = s.down /\ u.act = s.act
              /\ u.pending = s.pending /\ u.owes = s.owes /\ u.visible = s.visible
              /\ u.timers = s.timers
              /\ u.tainted = (s.tainted \/ "handshake" \in c.timers)
            BY <3>1 DEF Client
        <3>3. u \in Client
            <4>1. (s.tainted \/ "handshake" \in c.timers) \in BOOLEAN
                OBVIOUS
            <4> QED BY <3>1, <4>1 DEF Client
        <3> HIDE DEF u
        <3>4. "handshake" \notin r.timers => u.tainted = r.tainted
            BY <1>3, <1>5, <3>1, <3>2 DEF Frame
        <3> QED BY <1>3, <1>5, <3>2, <3>3, <3>4 DEF Frame, Rests
    <2> HIDE DEF u
    <2>2. Heard(u, child)
        BY <1>3, <2>1, FrameHeard, AddsNone DEF Waits
    <2>3. "handshake" \notin u.timers /\ ("context" \in r.timers => "context" \in u.timers)
        BY <2>1 DEF PrepareTimer
    <2>4. Intent(u)
        <3>1. u.tainted \/ u.tainted = r.tainted
            BY <2>1
        <3> QED BY <1>3, <2>1, <2>3, <3>1 DEF Waits, Intent
    <2>5. Bounded(u, child)
        <3>1. CASE "handshake" \in r.timers
            BY <2>1, <3>1 DEF Bounded, Waiting
        <3>2. CASE "handshake" \notin r.timers
            <4>1. u.timers = r.timers
                BY <1>2, <1>3, <1>8, <2>1, <3>2 DEF Timed, PrepareTimer
            <4>2. Orderly(r, child) => Orderly(u, child)
                BY <1>3, <2>1, OrderlyAdds, AddsNone
            <4>3. Waiting(u) => Waiting(r)
                BY <2>1, <3>2 DEF Waiting
            <4> QED BY <1>3, <2>1, <4>1, <4>2, <4>3 DEF Waits, Bounded
        <3> QED BY <3>1, <3>2
    <2> QED BY <1>1, <1>8, <2>2, <2>4, <2>5 DEF Waits
<1>9. CASE c' = t /\ c.act.state = "PREPARING" /\ c.act.id # 0
    <2>1. /\ Frame(s, a) /\ Rests(s, a) /\ a.act.id = s.act.id /\ a.down = s.down
          /\ a.timers = s.timers /\ (a.act.state \in Live => s.act.state \in Live)
        BY <1>5, FrameActivation DEF Events, Frame
    <2> HIDE DEF a
    <2>2. /\ Frame(a, t) /\ Rests(a, t) /\ t.act.id = a.act.id
          /\ t.act.state \in Live => a.act.state \in Live
          /\ t.timers = a.timers \cup {"present"}
          /\ Adds(a.down, t.down, Commands)
        BY <2>1, FramePresent DEF Frame
    <2> HIDE DEF t
    <2>3. /\ Frame(r, t) /\ Rests(r, t) /\ t.act.id = r.act.id
          /\ t.act.state \in Live => r.act.state \in Live
          /\ Adds(r.down, t.down, Commands)
        BY <1>5, <2>1, <2>2, FrameChain
    <2>4. /\ "handshake" \in t.timers => "handshake" \in r.timers
          /\ "context" \in r.timers => "context" \in t.timers
          /\ t.timers \cap Steps # {}
        BY <1>5, <2>1, <2>2 DEF PrepareTimer, Steps
    <2>5. Heard(t, child)
        BY <1>3, <2>3, FrameHeard DEF Waits, Frame
    <2>6. Intent(t)
        BY <1>3, <2>3, <2>4, IntentKept DEF Waits
    <2>7. Orderly(t, child)
        <3>1. Orderly(r, child)
            BY <1>3, <1>4, <1>9, OrderlyFresh DEF Good
        <3> QED BY <2>3, <3>1, OrderlyAdds DEF Frame
    <2>8. t.mode = "modern"
        BY <1>3, <2>3 DEF Frame
    <2>9. Bounded(t, child)
        BY <2>4, <2>7, <2>8 DEF Bounded
    <2> QED BY <1>1, <1>9, <2>5, <2>6, <2>9 DEF Waits
<1> QED BY <1>1, <1>7, <1>8, <1>9

(* An acknowledgement leaves no frame covered that is not lost: the document   *)
(* accepts commands by then.  What would still wake one that is suspended or  *)
(* mounting is on its way to the client, before the picture, or on its way to *)
(* the child, which then draws nothing first.                                 *)
LEMMA PresentedAwake ==
    ASSUME Good(c, child), Owed(c, child), Roused(c, child), Waits(c, child), c.up # <<>>,
           c.mode = "modern", Head(c.up).type = "PRESENTED", Head(c.up).id = c.act.id,
           c.act.id # 0, c.act.state = "RENDERING", c.wanted, Orderly(c, child)
    PROVE  c.doc = "DOCUMENT_READY"
<1>1. c \in Client /\ child \in Child /\ c.up \in Seq(Messages) /\ c.down \in Seq(Messages)
    BY DEF Good, Core, Client
<1>2. /\ 1 \in DOMAIN c.up /\ Head(c.up) = c.up[1]
      /\ \A k \in DOMAIN c.up : k = 1 \/ 1 < k
    <2>1. Len(c.up) \in Nat /\ DOMAIN c.up = 1..Len(c.up)
        BY <1>1
    <2>2. \A k \in DOMAIN c.up : k = 1 \/ 1 < k
        BY <2>1
    <2> QED BY <1>1, <2>2, TailFacts
<1>3. ~Holds(c.up, "RESUMED") /\ ~Holds(c.up, "READY")
    <2> SUFFICES ASSUME NEW j \in DOMAIN c.up, c.up[j].type \in Woken PROVE FALSE
        BY DEF Holds, Woken
    <2>1. 1 < j
        BY <1>2 DEF Woken
    <2> QED BY <1>2, <2>1 DEF Orderly
<1>4. Drawn(c, child)
    <2>1. Has(c.up, "PRESENTED", c.act.id)
        BY <1>2 DEF Has
    <2> QED BY <2>1 DEF Good, Core, Linked, Live
<1>5. \A k \in DOMAIN c.down : c.down[k].type \notin {"RESUME", "INIT"}
    BY <1>4 DEF Orderly, Drawn, Wakes, Shows
<1>6. c.evict = "none" /\ ~c.owes
    BY DEF Waits, Intent
<1>7. CASE c.doc = "SUSPENDED"
    <2>1. child.suspended
        BY <1>3, <1>7 DEF Waits, Heard, Sleeps
    <2>2. ~Quiesced(child.suspended, c.down)
        BY <1>4, <1>6 DEF Owed, Agrees, Drawn
    <2> QED BY <1>5, <2>1, <2>2 DEF Quiesced
<1>8. CASE c.doc = "MOUNTING"
    <2>1. Holds(c.down, "INIT") \/ Holds(c.up, "READY")
        BY <1>4, <1>8 DEF Roused, Drawn
    <2> QED BY <1>3, <1>5, <2>1 DEF Holds
<1>9. c.doc \notin {"UNMOUNTED", "DISPOSING", "EVICTED"}
    BY <1>6 DEF Roused
<1> QED BY <1>1, <1>7, <1>8, <1>9 DEF Client, DocumentStates

LEMMA RevealWaits ==
    ASSUME NEW s \in Client, NEW ch, Waits(s, ch) \/ (Heard(s, ch) /\ Intent(s) /\ ModernActive(s) /\ MayReveal(s))
    PROVE  Waits(Reveal(s), ch)
<1> DEFINE t == Reveal(s)
<1>1. /\ Frame(s, t) /\ t.pending = s.pending /\ t.owes = s.owes
      /\ t.act.state \in Live => s.act.state \in Live
      /\ t.down = s.down /\ t.timers = s.timers
      /\ ModernActive(s) /\ MayReveal(s) => t.visible
      /\ ~(ModernActive(s) /\ MayReveal(s)) => t = s
    BY FrameReveal
<1> HIDE DEF t
<1>2. CASE ~(ModernActive(s) /\ MayReveal(s))
    BY <1>1, <1>2 DEF t
<1>3. CASE ModernActive(s) /\ MayReveal(s)
    <2>1. Heard(t, ch)
        BY <1>1, FrameHeard, AddsNone DEF Frame, Waits
    <2>2. ModernActive(t) <=> ModernActive(s)
        BY <1>1 DEF Frame, ModernActive
    <2>3. t.mode = "modern" /\ t.doc \in Listening
        BY <1>1, <1>3 DEF Frame, ModernActive, Listening
    <2>4. Intent(s)
        BY <1>3 DEF Waits
    <2>5. Intent(t)
        BY <1>1, <2>2, <2>3, <2>4 DEF Intent, Frame
    <2>6. Bounded(t, ch)
        BY <1>1, <1>3 DEF Bounded, Waiting
    <2> QED BY <2>1, <2>5, <2>6 DEF Waits, t
<1> QED BY <1>2, <1>3

LEMMA PresentedWaits ==
    ASSUME Good(c, child), Owed(c, child), Roused(c, child), Waits(c, child), OnPresented
    PROVE  Waits(c', child')
<1> DEFINE r == Rest
<1> DEFINE s == Clear(r, {"present"})
<1> DEFINE a == Activation(s, "PRESENTED")
<1> DEFINE proof == <<c.epoch, Head(c.up).id>>
<1> DEFINE b == [a EXCEPT !.act.proof = proof, !.strikes = 0, !.failed = FALSE]
<1>1. /\ child' = child /\ c.up # <<>> /\ Head(c.up).type = "PRESENTED"
      /\ c' = IF ~MatchesActivation THEN r
              ELSE IF c.act.state = "RENDERING" THEN Reveal(b) ELSE s
    BY DEF OnPresented, Receive
<1>2. c \in Client /\ c.mode = "modern" /\ Timed(c) /\ Head(c.up) \in Messages
    <2>1. c \in Client /\ c.up \in Seq(Messages)
        BY DEF Good, Core, Client
    <2> QED BY <1>1, <2>1, TailFacts DEF Good, Core, Queued
<1>3. /\ Waits(r, child) /\ r \in Client /\ Rests(c, r) /\ r.act = c.act /\ r.timers = c.timers
      /\ r.wanted = c.wanted /\ r.failed = c.failed /\ r.tainted = c.tainted
      /\ r.replaced = c.replaced /\ r.mode = c.mode /\ r.epoch = c.epoch /\ r.doc = c.doc
      /\ r.lost = c.lost /\ r.evict = c.evict
    BY <1>1, <1>2, RestWaits, FrameRest
<1> HIDE DEF r
<1>4. /\ Frame(r, s) /\ Rests(r, s) /\ s.act = r.act /\ s.down = r.down
      /\ s.timers = r.timers \ {"present"}
    BY <1>3, TimerSets, FrameClear
<1> HIDE DEF s
<1>5. CASE ~MatchesActivation
    BY <1>1, <1>3, <1>5
<1>6. CASE MatchesActivation /\ c.act.state # "RENDERING"
    <2>1. s.timers = r.timers
        BY <1>2, <1>3, <1>4, <1>6 DEF Timed
    <2>2. Heard(s, child)
        BY <1>3, <1>4, FrameHeard, AddsNone DEF Waits, Frame
    <2>3. Intent(s)
        BY <1>3, <1>4, <2>1, IntentKept DEF Waits
    <2>4. Orderly(r, child) => Orderly(s, child)
        BY <1>4, OrderlyAdds, AddsNone DEF Frame
    <2>5. Bounded(s, child)
        BY <1>3, <1>4, <2>1, <2>4, BoundedKept DEF Waits
    <2> QED BY <1>1, <1>6, <2>2, <2>3, <2>5 DEF Waits
<1>7. CASE MatchesActivation /\ c.act.state = "RENDERING"
    <2>1. c.act.id # 0 /\ Head(c.up).id = c.act.id
        BY <1>7 DEF MatchesActivation
    <2>2. /\ Frame(s, a) /\ Rests(s, a) /\ a.act.id = s.act.id /\ a.down = s.down
          /\ a.timers = s.timers /\ (a.act.state \in Live => s.act.state \in Live)
          /\ a.act.state = Reduce(ActivationEdges, s.act.state, "PRESENTED")
        BY <1>4, FrameActivation DEF Events, Frame
    <2>3. a.act.state = "PRESENTED"
        <3>1. Legal(ActivationEdges, "RENDERING", "PRESENTED")
            BY Edges DEF Legal
        <3> QED BY <1>3, <1>4, <1>7, <2>2, <3>1, ActivationStep, EdgesOf
    <2> HIDE DEF a
    <2>4. proof \in Nat \X Nat /\ proof = <<a.epoch, a.act.id>>
        <3>1. c.epoch \in Nat /\ Head(c.up).id \in Nat
            BY <1>2 DEF Client, Messages
        <3> QED BY <1>3, <1>4, <2>1, <2>2, <3>1 DEF Frame
    <2> HIDE DEF proof
    <2>5. a.failed = FALSE
        <3>1. ~a.failed
            BY <1>3, <1>4, <1>7, <2>2 DEF Waits, Intent, Frame, Live
        <3> QED BY <2>2, <3>1 DEF Frame, Client
    <2>6. /\ b \in Client /\ b.act.id = a.act.id /\ b.act.state = a.act.state /\ b.act.proof = proof
          /\ b.failed = FALSE /\ b.wanted = a.wanted /\ b.tainted = a.tainted /\ b.replaced = a.replaced
          /\ b.mode = a.mode /\ b.epoch = a.epoch /\ b.doc = a.doc /\ b.lost = a.lost
          /\ b.evict = a.evict /\ b.up = a.up /\ b.down = a.down /\ b.timers = a.timers
          /\ b.pending = a.pending /\ b.owes = a.owes /\ b.visible = a.visible
        <3> DEFINE act == [a.act EXCEPT !.proof = proof]
        <3>1. a \in Client /\ a.act \in Act
            BY <2>2 DEF Frame, Client
        <3>2. act \in Act /\ act.id = a.act.id /\ act.state = a.act.state /\ act.proof = proof
            BY <2>4, <3>1 DEF Act
        <3>3. b = [a EXCEPT !.act = act, !.strikes = 0, !.failed = FALSE]
            BY <3>1 DEF Client
        <3> HIDE DEF act
        <3> DEFINE u == [a EXCEPT !.act = act, !.strikes = 0, !.failed = FALSE]
        <3>4. u \in Client
            <4>1. 0 \in 0..Threshold /\ FALSE \in BOOLEAN
                BY BoundsAssumption
            <4> QED BY <3>1, <3>2, <4>1 DEF Client
        <3>5. /\ u.act = act
              /\ u.failed = FALSE /\ u.wanted = a.wanted /\ u.tainted = a.tainted /\ u.replaced = a.replaced
              /\ u.mode = a.mode /\ u.epoch = a.epoch /\ u.doc = a.doc /\ u.lost = a.lost
              /\ u.evict = a.evict /\ u.up = a.up /\ u.down = a.down /\ u.timers = a.timers
              /\ u.pending = a.pending /\ u.owes = a.owes /\ u.visible = a.visible
            BY <3>1 DEF Client
        <3>6. b = u
            BY <3>3
        <3> HIDE DEF u
        <3> QED BY <3>2, <3>4, <3>5, <3>6
    <2> HIDE DEF b
    <2>7. Frame(r, b) /\ Rests(r, b) /\ b.act.id = c.act.id /\ b.down = r.down
        BY <1>3, <1>4, <2>2, <2>5, <2>6 DEF Frame, Rests
    <2>8. Heard(b, child)
        BY <1>3, <2>7, FrameHeard, AddsNone DEF Waits, Frame
    <2>9. /\ "handshake" \in b.timers <=> "handshake" \in r.timers
          /\ "context" \in b.timers <=> "context" \in r.timers
        BY <1>4, <2>2, <2>6
    <2>10. Intent(b)
        BY <1>3, <1>4, <2>2, <2>6, <2>7, <2>9, IntentKept DEF Waits
    <2>11. CASE ModernActive(b) /\ MayReveal(b)
        BY <1>1, <1>7, <2>6, <2>8, <2>10, <2>11, RevealWaits
    <2>12. CASE ~(ModernActive(b) /\ MayReveal(b))
        <3>1. c' = b
            BY <1>1, <1>7, <2>12 DEF Reveal
        <3>2. Bounded(b, child)
            <4> SUFFICES ASSUME Waiting(b)
                         PROVE  \/ "handshake" \in b.timers
                                \/ b.lost /\ "context" \in b.timers
                BY DEF Bounded
            <4>1. CASE b.lost
                BY <2>10, <4>1 DEF Intent, Waiting
            <4>2. CASE ~b.lost
                <5>1. ~ModernActive(b)
                    BY <2>3, <2>4, <2>6, <2>12, <4>2 DEF MayReveal
                <5>2. c.doc # "DOCUMENT_READY"
                    BY <1>2, <1>3, <2>7, <5>1 DEF ModernActive, Frame
                <5>3. Waiting(c)
                    BY <1>3, <2>7 DEF Waiting, Frame, Rests
                <5>4. ~Orderly(c, child)
                    BY <1>1, <1>2, <1>7, <2>1, <5>2, <5>3, PresentedAwake DEF Waiting
                <5> QED BY <1>3, <2>7, <2>9, <5>3, <5>4 DEF Waits, Bounded, Frame
            <4> QED BY <4>1, <4>2
        <3> QED BY <1>1, <2>8, <2>10, <3>1, <3>2 DEF Waits
    <2> QED BY <2>11, <2>12
<1> QED BY <1>5, <1>6, <1>7

LEMMA ReceiveWaits ==
    ASSUME Good(c, child), Owed(c, child), Roused(c, child), Waits(c, child), ClientReceives
    PROVE  Waits(c', child')
<1>1. /\ c.up # <<>> /\ child' = child /\ c \in Client /\ c.mode = "modern"
    BY Received DEF Good, Core, Queued
<1>2. ASSUME OnReady PROVE Waits(c', child')
    BY <1>1, <1>2, DocumentWaits DEF OnReady, Receive
<1>3. ASSUME OnSuspended PROVE Waits(c', child')
    BY <1>1, <1>3, DocumentWaits DEF OnSuspended, Receive
<1>4. ASSUME OnResumed PROVE Waits(c', child')
    BY <1>1, <1>4, DocumentWaits DEF OnResumed, Receive
<1>5. ASSUME OnError PROVE Waits(c', child')
    <2>1. Waits(Rest, child) /\ Rest \in Client
        BY <1>1, <1>5, RestWaits, FrameRest DEF OnError, Receive
    <2>2. Waits(FailModern(Rest), child)
        BY <2>1, FailWaits DEF Waits, Intent
    <2> QED BY <1>1, <1>5, <2>1, <2>2 DEF OnError
<1> QED BY <1>2, <1>3, <1>4, <1>5, DisposedWaits, LostWaits, RestoredWaits, AppliedWaits,
           PresentedWaits DEF ClientReceives

LEMMA OtherWaits ==
    ASSUME c \in Client, Waits(c, child), Painted \/ LegacyReveal \/ SendFails
    PROVE  Waits(c', child')
<1>1. ASSUME Painted PROVE Waits(c', child')
    BY <1>1, RevealWaits DEF Painted
<1>2. ASSUME LegacyReveal PROVE Waits(c', child')
    <2> DEFINE t == [c EXCEPT !.visible = TRUE]
    <2>1. c' = t /\ child' = child /\ c.mode = "legacy"
        BY <1>2 DEF LegacyReveal
    <2>2. /\ t.wanted = c.wanted /\ t.failed = c.failed /\ t.mode = c.mode /\ t.doc = c.doc
          /\ t.evict = c.evict /\ t.up = c.up /\ t.down = c.down /\ t.act = c.act
          /\ t.timers = c.timers /\ t.pending = c.pending /\ t.owes = c.owes
        BY DEF Client
    <2> HIDE DEF t
    <2>3. Heard(t, child)
        BY <2>2, FrameHeard, AddsNone DEF Waits
    <2>4. Intent(t)
        BY <2>1, <2>2 DEF Waits, Intent, ModernActive
    <2>5. Bounded(t, child)
        BY <2>1, <2>2 DEF Bounded, Waiting
    <2> QED BY <2>1, <2>3, <2>4, <2>5 DEF Waits
<1>3. ASSUME SendFails PROVE Waits(c', child')
    BY <1>3, FallBackWaits DEF SendFails
<1> QED BY <1>1, <1>2, <1>3

-----------------------------------------------------------------------------
(* The child. *)
LEMMA StepIs ==
    ASSUME NEW s, NEW ch, Core(s, ch), s.timers \cap Steps # {}
    PROVE  s.act.state \in Live /\ s.act.id # 0
<1>1. s.act.state \in {"PREPARING", "RENDERING"}
    BY DEF Core, Timed, Steps
<1> QED BY <1>1, NoneIs DEF Core, Sized, Live

(* The queues of the port are all that changes of the client. *)
LEMMA PortWaits ==
    ASSUME NEW s \in Client, NEW t \in Client, NEW ch, NEW new, Intent(s), Bounded(s, ch),
           Heard(t, new), t.wanted = s.wanted, t.failed = s.failed, t.tainted = s.tainted,
           t.replaced = s.replaced, t.mode = s.mode, t.doc = s.doc, t.lost = s.lost,
           t.evict = s.evict, t.pending = s.pending, t.owes = s.owes, t.visible = s.visible,
           t.act = s.act, t.timers = s.timers,
           s.timers \cap Steps # {} /\ Orderly(s, ch) => Orderly(t, new)
    PROVE  Waits(t, new)
<1>1. ModernActive(t) <=> ModernActive(s)
    BY DEF ModernActive
<1>2. Intent(t)
    BY <1>1 DEF Intent
<1>3. Bounded(t, new)
    BY DEF Bounded, Waiting
<1> QED BY <1>2, <1>3 DEF Waits

LEMMA PostWaits ==
    ASSUME c \in Client, c' \in Client, Waits(c, child), NEW m \in Messages, Post(m),
           m.type \notin {"SUSPENDED", "READY", "RESUMED"},
           child'.cur = child.cur, child'.stage \in Shows => child.stage \in Shows,
           child'.suspended = child.suspended
    PROVE  Waits(c', child')
<1> DEFINE t == c'
<1>1. /\ t.up = Append(c.up, m) /\ t.down = c.down
      /\ t.wanted = c.wanted /\ t.failed = c.failed /\ t.tainted = c.tainted
      /\ t.replaced = c.replaced /\ t.mode = c.mode /\ t.doc = c.doc /\ t.lost = c.lost
      /\ t.evict = c.evict /\ t.pending = c.pending /\ t.owes = c.owes /\ t.visible = c.visible
      /\ t.act = c.act /\ t.timers = c.timers
    BY DEF Post, Client
<1>2. t \in Client
    OBVIOUS
<1> HIDE DEF t
<1>3. Heard(t, child')
    BY <1>1, PostHeard DEF Waits
<1>4. Orderly(c, child) => Orderly(t, child')
    <2>1. m.type \notin Woken
        BY DEF Woken
    <2> QED BY <1>1, <1>2, <2>1, OrderlyPost
<1>5. Waits(t, child')
    BY <1>1, <1>2, <1>3, <1>4, PortWaits DEF Waits
<1> QED BY <1>5 DEF t

LEMMA ActWaits ==
    ASSUME Good(c, child), c' \in Client, Waits(c, child), ChildActs
    PROVE  Waits(c', child')
<1>1. c \in Client /\ child \in Child
    BY DEF Good, Core
<1>2. ASSUME Adopt PROVE Waits(c', child')
    <2> DEFINE t == [c EXCEPT !.mode = "modern", !.down = <<Plain("INIT")>>]
    <2>1. c' = t /\ c.mode = "offering"
        BY <1>2 DEF Adopt
    <2>2. /\ t.mode = "modern" /\ t.down = <<Plain("INIT")>> /\ t.up = c.up
          /\ t.wanted = c.wanted /\ t.failed = c.failed /\ t.tainted = c.tainted
          /\ t.replaced = c.replaced /\ t.doc = c.doc /\ t.lost = c.lost
          /\ t.evict = c.evict /\ t.pending = c.pending /\ t.owes = c.owes
          /\ t.visible = c.visible /\ t.act = c.act /\ t.timers = c.timers
        BY <1>1 DEF Client
    <2> HIDE DEF t
    <2>3. c.up = <<>> /\ c.doc \notin Listening
        BY <2>1 DEF Good, Core, Queued, Waits, Heard
    <2>4. Heard(t, child')
        <3>1. ~Sleeps(t)
            BY <2>2, <2>3 DEF Sleeps, Lulled, Listening
        <3>2. DOMAIN t.down = {1}
            BY <2>2
        <3>3. ~Holds(t.up, "READY") /\ ~Holds(t.up, "SUSPENDED")
            BY <2>2, <2>3 DEF Holds
        <3> QED BY <2>2, <2>3, <3>1, <3>2, <3>3 DEF Heard
    <2>5. Intent(t)
        BY <2>1, <2>2, <2>3 DEF Waits, Intent, ModernActive, Listening
    <2>6. Bounded(t, child')
        BY <2>1, <2>2 DEF Waits, Bounded, Waiting
    <2> QED BY <2>1, <2>4, <2>5, <2>6 DEF Waits
<1>3. \A type \in {"APPLIED", "PRESENTED", "ERROR"} :
         /\ Message(type, child.cur) \in Messages
         /\ Message(type, child.cur).type = type
    BY <1>1 DEF Child, Message, Messages, Types
<1>4. \A type \in {"CONTEXT_LOST", "CONTEXT_RESTORED"} :
         Plain(type) \in Messages /\ Plain(type).type = type
    BY PlainIs DEF Types
<1>5. ASSUME Applied \/ Presented PROVE Waits(c', child')
    <2>1. /\ child'.cur = child.cur /\ child'.suspended = child.suspended
          /\ child'.stage \in Shows => child.stage \in Shows
        BY <1>1, <1>5 DEF Applied, Presented, Progress, Child, Shows
    <2>2. Post(Message("APPLIED", child.cur)) \/ Post(Message("PRESENTED", child.cur))
        BY <1>5 DEF Applied, Presented, Progress
    <2> QED BY <1>1, <1>3, <2>1, <2>2, PostWaits
<1>6. ASSUME SectionFails PROVE Waits(c', child')
    BY <1>1, <1>3, <1>6, PostWaits DEF SectionFails
<1>7. ASSUME LoseContext \/ RestoreContext PROVE Waits(c', child')
    <2>1. /\ child'.cur = child.cur /\ child'.suspended = child.suspended
          /\ child'.stage = child.stage
        BY <1>1, <1>7 DEF LoseContext, RestoreContext, Child
    <2>2. Post(Plain("CONTEXT_LOST")) \/ Post(Plain("CONTEXT_RESTORED"))
        BY <1>7 DEF LoseContext, RestoreContext
    <2> QED BY <1>1, <1>4, <2>1, <2>2, PostWaits
<1> QED BY <1>2, <1>5, <1>6, <1>7 DEF ChildActs

(* A command without an answer. *)
LEMMA TakeWaits ==
    ASSUME Good(c, child), c' \in Client, Waits(c, child), c.down # <<>>,
           c' = [c EXCEPT !.down = Tail(@)], child'.suspended = child.suspended,
           \/ child'.cur = child.cur /\ child'.stage = child.stage
           \/ child'.stage \notin Shows
           \/ Head(c.down).type = "PRESENT" /\ child'.cur = Head(c.down).id
    PROVE  Waits(c', child')
<1> DEFINE t == c'
<1>1. c \in Client /\ Core(c, child)
    BY DEF Good, Core
<1>2. /\ t.up = c.up /\ t.down = Tail(c.down)
      /\ t.wanted = c.wanted /\ t.failed = c.failed /\ t.tainted = c.tainted
      /\ t.replaced = c.replaced /\ t.mode = c.mode /\ t.doc = c.doc /\ t.lost = c.lost
      /\ t.evict = c.evict /\ t.pending = c.pending /\ t.owes = c.owes /\ t.visible = c.visible
      /\ t.act = c.act /\ t.timers = c.timers
    BY <1>1 DEF Client
<1>3. t \in Client
    OBVIOUS
<1> HIDE DEF t
<1>4. Heard(t, child')
    BY <1>1, <1>2, TakeHeard DEF Waits
<1>5. c.timers \cap Steps # {} /\ Orderly(c, child) => Orderly(t, child')
    BY <1>1, <1>2, <1>3, OrderlyTake
<1>6. Waits(t, child')
    BY <1>1, <1>2, <1>3, <1>4, <1>5, PortWaits DEF Waits
<1> QED BY <1>6 DEF t

(* A command that is answered. *)
LEMMA AnswerWaits ==
    ASSUME Good(c, child), c' \in Client, Waits(c, child), c.down # <<>>,
           NEW m \in Messages, Answer(m),
           \/ child'.cur = child.cur /\ child'.stage = child.stage
           \/ child'.stage = "none",
           \/ m.type = "SUSPENDED" /\ child'.suspended
           \/ m.type = "RESUMED" /\ Head(c.down).type = "RESUME"
           \/ m.type = "READY" /\ Head(c.down).type = "INIT"
           \/ m.type = "DISPOSED" /\ child'.suspended = child.suspended
    PROVE  Waits(c', child')
<1> DEFINE t == c'
<1> DEFINE u == [c EXCEPT !.down = Tail(@)]
<1>1. c \in Client /\ Core(c, child)
    BY DEF Good, Core
<1>2. /\ t.up = Append(c.up, m) /\ t.down = Tail(c.down)
      /\ t.wanted = c.wanted /\ t.failed = c.failed /\ t.tainted = c.tainted
      /\ t.replaced = c.replaced /\ t.mode = c.mode /\ t.doc = c.doc /\ t.lost = c.lost
      /\ t.evict = c.evict /\ t.pending = c.pending /\ t.owes = c.owes /\ t.visible = c.visible
      /\ t.act = c.act /\ t.timers = c.timers
    BY <1>1 DEF Client, Answer
<1>3. t \in Client
    OBVIOUS
<1> HIDE DEF t
<1>4. u \in Client /\ u.up = c.up /\ u.down = Tail(c.down) /\ u.act = c.act
    BY TakeCore DEF Body
<1> HIDE DEF u
<1>5. Heard(t, child')
    BY <1>1, <1>2, TakeHeard DEF Waits
<1>6. ASSUME c.timers \cap Steps # {}, Orderly(c, child) PROVE Orderly(t, child')
    <2>1. c.act.state \in Live /\ c.act.id # 0
        BY <1>1, <1>6, StepIs
    <2>2. Orderly(u, child')
        BY <1>1, <1>4, <1>6, OrderlyTake DEF Shows
    <2>3. ASSUME m.type \in Woken PROVE ~Has(c.up, "PRESENTED", c.act.id)
        <3>1. Head(c.down).type \in Wakes /\ 1 \in DOMAIN c.down /\ Head(c.down) = c.down[1]
            BY <2>3, TakeCore DEF Woken, Wakes
        <3>2. ~Drawn(c, child)
            BY <1>6, <3>1 DEF Orderly, Drawn, Shows
        <3> QED BY <1>1, <2>1, <3>2 DEF Core, Linked
    <2> QED BY <1>2, <1>3, <1>4, <2>2, <2>3, OrderlyPost
<1>7. Waits(t, child')
    BY <1>1, <1>2, <1>3, <1>5, <1>6, PortWaits DEF Waits
<1> QED BY <1>7 DEF t

LEMMA ChildReceiveWaits ==
    ASSUME Good(c, child), c' \in Client, Waits(c, child), ChildReceives
    PROVE  Waits(c', child')
<1>1. child \in Child /\ c.down # <<>>
    BY DEF Good, Core, ChildReceives, OnInit, OnSuspendDocument, OnResumeDocument, OnPrepare,
           OnPresent, OnRelease, OnDispose, Command
<1>2. \A type \in {"READY", "SUSPENDED", "RESUMED", "DISPOSED"} :
         Plain(type) \in Messages /\ Plain(type).type = type
    BY PlainIs DEF Types
<1>3. ASSUME OnInit PROVE Waits(c', child')
    <2>1. /\ Answer(Plain("READY")) /\ Head(c.down).type = "INIT" /\ child'.cur = child.cur
          /\ child'.stage = child.stage
        BY <1>1, <1>3 DEF OnInit, Command, Child
    <2> QED BY <1>1, <1>2, <2>1, AnswerWaits
<1>4. ASSUME OnSuspendDocument PROVE Waits(c', child')
    <2>1. /\ Answer(Plain("SUSPENDED")) /\ child'.cur = child.cur /\ child'.suspended
          /\ child'.stage = child.stage
        BY <1>1, <1>4 DEF OnSuspendDocument, Child
    <2> QED BY <1>1, <1>2, <2>1, AnswerWaits
<1>5. ASSUME OnResumeDocument PROVE Waits(c', child')
    <2>1. /\ Answer(Plain("RESUMED")) /\ Head(c.down).type = "RESUME" /\ child'.cur = child.cur
          /\ child'.stage = child.stage
        BY <1>1, <1>5 DEF OnResumeDocument, Command, Child
    <2> QED BY <1>1, <1>2, <2>1, AnswerWaits
<1>6. ASSUME OnDispose PROVE Waits(c', child')
    <2>1. /\ Answer(Plain("DISPOSED")) /\ child'.stage = "none" /\ child'.suspended = child.suspended
        BY <1>1, <1>6 DEF OnDispose, Empty, Child
    <2> QED BY <1>1, <1>2, <2>1, AnswerWaits
<1>7. ASSUME OnPrepare PROVE Waits(c', child')
    <2>1. /\ c' = [c EXCEPT !.down = Tail(@)]
          /\ child'.stage \notin Shows /\ child'.suspended = child.suspended
        BY <1>1, <1>7 DEF OnPrepare, Child, Shows
    <2> QED BY <1>1, <2>1, TakeWaits
<1>8. ASSUME OnPresent \/ OnRelease PROVE Waits(c', child')
    <2>1. /\ c' = [c EXCEPT !.down = Tail(@)] /\ child'.suspended = child.suspended
          /\ \/ child'.cur = child.cur /\ child'.stage = child.stage
             \/ child'.stage \notin Shows
             \/ Head(c.down).type = "PRESENT" /\ child'.cur = Head(c.down).id
        BY <1>1, <1>8 DEF OnPresent, OnRelease, Command, Empty, Child, Shows
    <2> QED BY <1>1, <2>1, TakeWaits
<1> QED BY <1>3, <1>4, <1>5, <1>6, <1>7, <1>8 DEF ChildReceives

LEMMA NextWaits ==
    ASSUME IInv, IInv', Roused(c, child), Waits(c, child), [Next]_vars
    PROVE  Waits(c', child')
<1>1. /\ Good(c, child) /\ Owed(c, child) /\ c \in Client /\ c' \in Client
    BY DEF IInv, Good, Core
<1>2. CASE UNCHANGED vars
    BY <1>2 DEF vars
<1>3. ASSUME OwnerMoves \/ Load PROVE Waits(c', child')
    BY <1>1, <1>3, EnterWaits, LeaveWaits, FreezeWaits, ThawWaits, LoadWaits, EvictWaits,
       CancelWaits DEF OwnerMoves
<1> QED BY <1>1, <1>2, <1>3, TimerWaits, ReceiveWaits, ChildReceiveWaits, ActWaits, OtherWaits
        DEF Next

LEMMA AllWait == Spec => []Waits(c, child)
<1>1. ASSUME Init PROVE Waits(c, child)
    <2>1. /\ c.doc = "MOUNTING" /\ c.up = <<>> /\ c.down = <<>> /\ ~c.wanted /\ ~c.failed
          /\ c.timers = {}
        BY <1>1 DEF Init
    <2>2. Heard(c, child)
        BY <2>1, SilentHeard DEF Listening
    <2> QED BY <2>1, <2>2, UnwantedWaits
<1>2. IInv /\ IInv' /\ Roused(c, child) /\ Waits(c, child) /\ [Next]_vars => Waits(c, child)'
    BY NextWaits
<1> QED BY <1>1, <1>2, Invariant, AllRoused, PTL DEF Spec

-----------------------------------------------------------------------------
(* While a section waits a timer is armed behind it: for the document to      *)
(* answer, for the lost context to come back, or for the section's next step. *)
WaitIsArmed ==
    Waiting(c) => \/ "handshake" \in c.timers
                  \/ c.lost /\ "context" \in c.timers
                  \/ c.timers \cap Steps # {}

(* simFailurePolicy.ts promises a bound behind every wait.  Of a wait that    *)
(* nothing of what EveryWaitEnds names disturbs (a context lost before it or  *)
(* restored after it, a document replaced under it, a late answer that        *)
(* disarmed the bound of its deferral) this is so at each moment, also where  *)
(* a child that was suspended meets the commands of the next section and its  *)
(* own late answers.                                                          *)
THEOREM WaitsAreArmed == Spec => []WaitIsArmed
<1>1. Waits(c, child) => WaitIsArmed
    BY DEF Waits, Bounded, WaitIsArmed
<1> QED BY <1>1, AllWait, PTL

(* What goes on while a section waits and is not entered again: the bound of  *)
(* a lost context stays armed, that of a handshake is not armed again.        *)
Outlives(s, t) ==
    /\ s.lost /\ "context" \in s.timers => t.lost /\ "context" \in t.timers
    /\ "handshake" \in t.timers => "handshake" \in s.timers

LEMMA OutlivesFrame ==
    ASSUME NEW s, NEW t, Frame(s, t), "context" \in s.timers => "context" \in t.timers,
           "handshake" \in t.timers => "handshake" \in s.timers
    PROVE  Outlives(s, t)
BY DEF Frame, Outlives

LEMMA OutlivesChain ==
    ASSUME NEW s, NEW t, NEW u, Outlives(s, t), Outlives(t, u)
    PROVE  Outlives(s, u)
BY DEF Outlives

LEMMA OwnerOutlives ==
    ASSUME c \in Client, Intent(c), Waiting(c), Waiting(c'), OwnerMoves \/ Load, ~Enter
    PROVE  Outlives(c, c')
<1>1. c.wanted /\ c.evict = "none" /\ ~c.owes
    BY DEF Intent, Waiting
<1>2. ASSUME Leave PROVE FALSE
    <2> DEFINE a == Clear(c, {"handshake"})
    <2> DEFINE h == [a EXCEPT !.visible = FALSE, !.pending = FALSE, !.wanted = FALSE, !.v2 = FALSE]
    <2> DEFINE b == Clear(h, {"prepare", "present"})
    <2>1. c' \in {h, Release(b)}
        BY <1>2 DEF Leave, Deactivate
    <2>2. a \in Client
        BY TimerSets, FrameClear DEF Frame
    <2> HIDE DEF a
    <2>3. h \in Client /\ ~h.wanted
        BY <2>2 DEF Client
    <2> HIDE DEF h
    <2>4. Frame(h, b)
        BY <2>3, TimerSets, FrameClear
    <2> HIDE DEF b
    <2>5. Frame(b, Release(b))
        BY <2>4, FrameRelease DEF Frame
    <2> QED BY <2>1, <2>3, <2>4, <2>5 DEF Waiting, Frame
<1>3. ASSUME Freeze PROVE FALSE
    <2>1. Suspend(c) \in Client
        BY FrameDebts DEF Frame
    <2> QED BY <1>3, <2>1 DEF Freeze, Waiting, Client
<1>4. ASSUME Thaw PROVE Outlives(c, c')
    BY <1>1, <1>4 DEF Thaw, PayDebt, Outlives
<1>5. ASSUME Reload \/ CancelEviction PROVE FALSE
    BY <1>1, <1>5 DEF Reload, CancelEviction
<1>6. ASSUME Load PROVE FALSE
    <2>1. HandleFrameLoad(c) \in Client
        BY FrameLoad
    <2> QED BY <1>6, <2>1 DEF Load, Waiting, Client
<1>7. ASSUME Evict PROVE FALSE
    <2> DEFINE a == Clear(c, {"handshake", "prepare", "present", "context"})
    <2> DEFINE h == [a EXCEPT !.evict = "grace", !.pending = FALSE, !.visible = FALSE,
                              !.wanted = FALSE, !.v2 = FALSE]
    <2> DEFINE d == Suspend(h)
    <2> DEFINE r == Release(d)
    <2> DEFINE t == Arm(r, "grace")
    <2>1. c' = t
        BY <1>7 DEF Evict
    <2>2. a \in Client
        BY TimerSets, FrameClear DEF Frame
    <2> HIDE DEF a
    <2>3. h \in Client /\ ~h.wanted
        <3>1. h \in Client
            BY <2>2 DEF Client, Evictions
        <3> QED BY <2>2, <3>1 DEF Client
    <2> HIDE DEF h
    <2>4. Frame(h, d)
        BY <2>3, FrameDebts
    <2> HIDE DEF d
    <2>5. Frame(d, r)
        BY <2>4, FrameRelease DEF Frame
    <2> HIDE DEF r
    <2>6. Frame(r, t)
        BY <2>5, FrameArm DEF Frame, Timers
    <2> HIDE DEF t
    <2> QED BY <2>1, <2>3, <2>4, <2>5, <2>6 DEF Frame, Waiting
<1> QED BY <1>2, <1>3, <1>4, <1>5, <1>6, <1>7 DEF OwnerMoves

LEMMA TimerOutlives ==
    ASSUME c \in Client, Intent(c), Timed(c), Waiting(c), Waiting(c'), TimerFires
    PROVE  Outlives(c, c') /\ ~HandshakeTimeout /\ ~StepTimeout /\ ~(ContextTimeout /\ c.lost)
<1>1. c.wanted /\ c.evict = "none"
    BY DEF Intent, Waiting
<1>2. c' # FailModern(c)
    BY FrameFail DEF Waiting
<1>3. ~HandshakeTimeout /\ ~StepTimeout
    BY <1>2 DEF HandshakeTimeout, StepTimeout, Fire, Intent
<1>4. ASSUME ContextTimeout PROVE Outlives(c, c') /\ ~c.lost
    <2> DEFINE s == Clear(c, {"context"})
    <2>1. c' = IF s.lost THEN FailModern(s) ELSE s
        BY <1>4 DEF ContextTimeout
    <2>2. Frame(c, s) /\ s.timers = c.timers \ {"context"}
        BY TimerSets, FrameClear
    <2> HIDE DEF s
    <2>3. c' # FailModern(s)
        BY <2>2, FrameFail DEF Waiting, Frame
    <2>4. ~s.lost /\ c' = s
        BY <2>1, <2>3
    <2> QED BY <2>2, <2>4 DEF Outlives, Frame
<1>5. ~GraceOver
    BY <1>1 DEF GraceOver, Fire, Timed
<1>6. ASSUME DisposeTimeout PROVE Outlives(c, c')
    BY <1>1, <1>6 DEF DisposeTimeout, SettleEviction, Outlives
<1>7. ~OfferExpires
    BY FrameFallBack DEF OfferExpires, Waiting
<1> QED BY <1>3, <1>4, <1>5, <1>6, <1>7 DEF TimerFires

LEMMA ReceiveOutlives ==
    ASSUME c \in Client, Intent(c), Waiting(c), Waiting(c'), ClientReceives
    PROVE  Outlives(c, c')
<1> DEFINE r == Rest
<1>1. c.up # <<>> /\ c.wanted /\ c.evict = "none"
    BY Received DEF Intent, Waiting
<1>2. r \in Client /\ r.timers = c.timers /\ r.lost = c.lost /\ r.evict = c.evict
    BY <1>1, FrameRest
<1>3. r = Rest
    OBVIOUS
<1> HIDE DEF r
<1>4. Outlives(c, r)
    BY <1>2 DEF Outlives
<1>5. ASSUME NEW event PROVE /\ Document(r, event) \in Client
                             /\ Outlives(c, Document(r, event))
                             /\ Document(r, event).evict = "none"
    <2>1. LET d == Document(r, event) IN
          d \in Client /\ d.timers = r.timers /\ d.lost = r.lost /\ d.evict = r.evict
        BY <1>2, DocumentFields
    <2> QED BY <1>1, <1>2, <2>1 DEF Outlives
<1>6. ASSUME NEW s \in Client PROVE Outlives(s, Redrive(s))
    <2> DEFINE t == ActivateModern(s)
    <2>1. /\ Frame(s, t)
          /\ t.timers = (s.timers \ {"handshake", "prepare", "present"}) \cup {"prepare"}
        BY FrameActivate
    <2> HIDE DEF t
    <2>2. Outlives(s, t)
        BY <2>1, OutlivesFrame
    <2>3. Outlives(s, s)
        BY DEF Outlives
    <2> QED BY <2>2, <2>3 DEF Redrive, t
<1>7. ASSUME OnReady \/ OnResumed PROVE Outlives(c, c')
    <2>1. PICK event \in {"READY", "RESUMED"} : c' = Redrive(Document(r, event))
        BY <1>3, <1>7 DEF OnReady, OnResumed
    <2> QED BY <1>5, <1>6, <2>1, OutlivesChain
<1>8. ASSUME OnSuspended PROVE Outlives(c, c')
    BY <1>3, <1>5, <1>8 DEF OnSuspended
<1>9. ASSUME OnDisposed PROVE Outlives(c, c')
    <2>1. c' = SettleEviction(Document(r, "DISPOSED"))
        BY <1>3, <1>9 DEF OnDisposed
    <2>2. c' = Document(r, "DISPOSED")
        BY <1>5, <2>1 DEF SettleEviction
    <2> QED BY <1>5, <2>2
<1>10. ASSUME OnContextLost PROVE Outlives(c, c')
    <2> DEFINE a == Activation(r, "CONTEXT_LOST")
    <2> DEFINE b == [a EXCEPT !.lost = c.doc \in {"DOCUMENT_READY", "SUSPENDED"} \/ @,
                              !.visible = FALSE]
    <2> DEFINE t == Arm(b, "context")
    <2>1. c' = t
        BY <1>3, <1>10 DEF OnContextLost
    <2>2. Frame(r, a) /\ a.timers = r.timers
        BY <1>2, FrameActivation DEF Events
    <2> HIDE DEF a
    <2>3. (a.lost => b.lost) /\ b.timers = a.timers /\ b \in Client
        <3>1. a \in Client /\ a.lost \in BOOLEAN
            BY <2>2 DEF Frame, Client
        <3>2. b \in Client
            BY <3>1 DEF Client
        <3> QED BY <3>1, <3>2 DEF Client
    <2> HIDE DEF b
    <2>4. Frame(b, t) /\ t.timers = b.timers \cup {"context"}
        BY <2>3, FrameArm DEF Timers
    <2> HIDE DEF t
    <2> QED BY <1>2, <2>1, <2>2, <2>3, <2>4 DEF Outlives, Frame
<1>11. ASSUME OnContextRestored PROVE FALSE
    <2>1. Clear(r, {"context"}) \in Client
        BY <1>2, TimerSets, FrameClear DEF Frame
    <2> QED BY <1>3, <1>11, <2>1 DEF OnContextRestored, Waiting, Client
<1>12. ASSUME OnApplied PROVE Outlives(c, c')
    <2> DEFINE s == Clear(r, PrepareTimer)
    <2> DEFINE a == Activation(s, "APPLIED")
    <2> DEFINE t == SendPresent(a)
    <2> DEFINE u == [s EXCEPT !.tainted = @ \/ "handshake" \in c.timers]
    <2>1. c' \in {r, u, t}
        BY <1>3, <1>12 DEF OnApplied
    <2>2. Frame(r, s) /\ s.timers = r.timers \ PrepareTimer /\ "context" \notin PrepareTimer
        BY <1>2, TimerSets, FrameClear DEF PrepareTimer
    <2> HIDE DEF s
    <2>6. Outlives(s, u)
        BY <2>2 DEF Frame, Client, Outlives
    <2> HIDE DEF u
    <2>3. Frame(s, a) /\ a.timers = s.timers
        BY <2>2, FrameActivation DEF Events, Frame
    <2> HIDE DEF a
    <2>4. Frame(a, t) /\ t.timers = a.timers \cup {"present"}
        BY <2>3, FramePresent DEF Frame
    <2> HIDE DEF t
    <2>5. Outlives(r, s) /\ Outlives(s, a) /\ Outlives(a, t)
        BY <2>2, <2>3, <2>4, OutlivesFrame
    <2> QED BY <1>4, <2>1, <2>5, <2>6, OutlivesChain
<1>13. ASSUME OnPresented PROVE Outlives(c, c')
    <2> DEFINE s == Clear(r, {"present"})
    <2> DEFINE a == Activation(s, "PRESENTED")
    <2> DEFINE proof == <<c.epoch, Head(c.up).id>>
    <2> DEFINE b == [a EXCEPT !.act.proof = proof, !.strikes = 0, !.failed = FALSE]
    <2>1. c' \in {r, s, Reveal(b)}
        BY <1>3, <1>13 DEF OnPresented
    <2>2. Frame(r, s) /\ s.timers = r.timers \ {"present"}
        BY <1>2, TimerSets, FrameClear
    <2> HIDE DEF s
    <2>3. Frame(s, a) /\ a.timers = s.timers
        BY <2>2, FrameActivation DEF Events, Frame
    <2> HIDE DEF a
    <2>4. b.lost = a.lost /\ b.timers = a.timers
        BY <2>3 DEF Frame, Client
    <2>5. Reveal(b).lost = b.lost /\ Reveal(b).timers = b.timers
        BY <2>3 DEF Frame, Client, Reveal, Activation
    <2> HIDE DEF b
    <2>6. Outlives(r, s) /\ Outlives(s, a)
        BY <2>2, <2>3, OutlivesFrame
    <2>7. Outlives(a, Reveal(b))
        BY <2>4, <2>5 DEF Outlives
    <2> QED BY <1>4, <2>1, <2>6, <2>7, OutlivesChain
<1>14. ASSUME OnError PROVE Outlives(c, c')
    <2>1. c' # FailModern(r)
        BY <1>2, FrameFail DEF Waiting
    <2> QED BY <1>3, <1>4, <1>14, <2>1 DEF OnError
<1> QED BY <1>7, <1>8, <1>9, <1>10, <1>11, <1>12, <1>13, <1>14 DEF ClientReceives

LEMMA WaitGoesOn ==
    ASSUME IInv, IInv', Intent(c), Waiting(c), Waiting(c'), [Next]_vars, [~Enter]_vars
    PROVE  Outlives(c, c')
<1>1. c \in Client /\ c' \in Client /\ Timed(c) /\ Core(c, child)
    BY DEF IInv, Good, Core
<1>2. CASE UNCHANGED vars
    BY <1>2 DEF vars, Outlives
<1>3. CASE Next /\ ~Enter
    <2>1. ASSUME ChildReceives \/ ChildActs PROVE Outlives(c, c')
        <3>1. \E down, up : \/ c' = [c EXCEPT !.down = down]
                            \/ c' = [c EXCEPT !.up = up]
                            \/ c' = [c EXCEPT !.up = up, !.down = down]
                            \/ c' = [c EXCEPT !.mode = "modern", !.down = down]
            <4>1. CASE ChildReceives
                BY <4>1 DEF ChildReceives, OnInit, OnSuspendDocument, OnResumeDocument,
                   OnPrepare, OnPresent, OnRelease, OnDispose, Answer
            <4>2. CASE ChildActs
                BY <4>2 DEF ChildActs, Adopt, Applied, Presented, Progress, SectionFails,
                   LoseContext, RestoreContext, Post
            <4> QED BY <2>1, <4>1, <4>2
        <3>2. c'.lost = c.lost /\ c'.timers = c.timers
            BY <1>1, <3>1 DEF Client
        <3> QED BY <3>2 DEF Outlives
    <2>2. ASSUME Painted PROVE Outlives(c, c')
        <3>1. Frame(c, c') /\ c'.timers = c.timers
            BY <1>1, <2>2, FrameReveal DEF Painted
        <3> QED BY <3>1, OutlivesFrame
    <2>3. ~LegacyReveal /\ ~SendFails
        BY <1>1, FrameFallBack DEF LegacyReveal, SendFails, Waiting
    <2> QED BY <1>1, <1>3, <2>1, <2>2, <2>3, OwnerOutlives, TimerOutlives, ReceiveOutlives
            DEF Next
<1> QED BY <1>2, <1>3 DEF vars

(* What fairness of these timers asks of ENABLED, as above. *)
WaitingTimersCanFire ==
    /\ "handshake" \in c.timers => ENABLED <<HandshakeTimeout>>_vars
    /\ "context" \in c.timers => ENABLED <<ContextTimeout>>_vars
    /\ c.timers \cap {"prepare", "present"} # {} => ENABLED <<StepTimeout>>_vars

(* Every entry into a section ends, the child being silent for as long as it  *)
(* likes, once the owner enters no more: the handshake runs out or gives way  *)
(* to the steps of an activation, the lost context runs out, and a step that  *)
(* is not answered fails.                                                     *)
THEOREM WaitsEnd ==
    FairSpec /\ []WaitingTimersCanFire /\ <>[][~Enter]_vars => EveryWaitEnds
<1> DEFINE W == Waiting(c)
           H == "handshake" \in c.timers
           X == c.lost /\ "context" \in c.timers
           S == c.timers \cap Steps # {}
           I == IInv /\ Waits(c, child)
<1>1. I /\ I' /\ W /\ W' /\ [Next]_vars /\ [~Enter]_vars => (X => X') /\ (H' => H)
    BY WaitGoesOn DEF Waits, Outlives
<1>2. I /\ W /\ W' /\ [Next]_vars
      => ~<<HandshakeTimeout>>_vars /\ ~<<StepTimeout>>_vars /\ (X => ~<<ContextTimeout>>_vars)
    BY TimerOutlives DEF IInv, Good, Core, Waits, TimerFires
<1>3. I /\ W => H \/ X \/ S
    BY DEF Waits, Bounded
<1>4. WaitingTimersCanFire
      => /\ H => ENABLED <<HandshakeTimeout>>_vars
         /\ X => ENABLED <<ContextTimeout>>_vars
         /\ S => ENABLED <<StepTimeout>>_vars
    BY DEF WaitingTimersCanFire, Steps
<1>5. W <=> Unanswered /\ ~c.tainted /\ ~c.replaced
    BY DEF Waiting, Unanswered
<1>6. Spec => []I
    BY Invariant, AllWait, PTL
<1> HIDE DEF W, H, X, S, I
<1>7. FairSpec /\ []WaitingTimersCanFire /\ <>[][~Enter]_vars => []<>~W
    BY <1>1, <1>2, <1>3, <1>4, <1>6, PTL DEF FairSpec, Spec, Fairness
<1> QED BY <1>5, <1>7, PTL DEF EveryWaitEnds
=============================================================================
