---------------------------- MODULE CopyPromise ----------------------------
(***************************************************************************)
(* What a request to duplicate a project is promised: it is answered once, *)
(* "ready" in the very step that makes its one copy, or "failed" with      *)
(* nothing made; the answer goes with the source project and no sooner.    *)
(***************************************************************************)
EXTENDS Naturals

CONSTANT Job

VARIABLES
    answer,    \* what the poll of each request is told
    made       \* the projects each request has made

promise == <<answer, made>>

Init == answer = [j \in Job |-> "none"] /\ made = [j \in Job |-> 0]

Answer(j, from, to) == answer[j] = from /\ answer' = [answer EXCEPT ![j] = to]

Ask(j) == Answer(j, "none", "open") /\ UNCHANGED made
Decline(j) == Answer(j, "open", "failed") /\ UNCHANGED made
Keep(j) == Answer(j, "open", "ready") /\ made' = [made EXCEPT ![j] = @ + 1]
Forget == answer' = [j \in Job |-> "gone"] /\ UNCHANGED made

Next == Forget \/ \E j \in Job : Ask(j) \/ Decline(j) \/ Keep(j)

Spec == Init /\ [][Next]_promise

(* A request makes at most one project, and none while it is open or once it *)
(* has failed: the user may ask again without a second copy appearing.       *)
OneCopyPerRequest ==
    \A j \in Job : made[j] = CASE answer[j] = "ready" -> 1
                               [] answer[j] = "gone" -> IF made[j] = 0 THEN 0 ELSE 1
                               [] OTHER -> 0
=============================================================================
