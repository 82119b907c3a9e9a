----------------------------- MODULE OncePerKey -----------------------------
(***************************************************************************)
(* What an operation with required idempotency promises its callers,       *)
(* without claims, leases or transactions: the operation is performed at   *)
(* most once for each key, and an answer is never wrong about it.          *)
(***************************************************************************)
CONSTANTS Calls, Keys, KeyOf

VARIABLES
    done,       \* the calls that have performed the operation of each key
    answer      \* what each caller was told

vars == <<done, answer>>

Init ==
    /\ done = [k \in Keys |-> {}]
    /\ answer = [c \in Calls |-> "none"]

Perform(c) ==
    /\ done[KeyOf[c]] = {}
    /\ done' = [done EXCEPT ![KeyOf[c]] = {c}]
    /\ UNCHANGED answer

\* The caller that performed it.
AnswerOK(c) ==
    /\ answer[c] = "none"
    /\ done[KeyOf[c]] = {c}
    /\ answer' = [answer EXCEPT ![c] = "ok"]
    /\ UNCHANGED done

\* A caller that came after it was performed.
AnswerCompleted(c) ==
    /\ answer[c] = "none"
    /\ done[KeyOf[c]] # {}
    /\ c \notin done[KeyOf[c]]
    /\ answer' = [answer EXCEPT ![c] = "completed"]
    /\ UNCHANGED done

\* Busy, failed, or the connection broke: the caller learns nothing.
AnswerUnknown(c) ==
    /\ answer[c] = "none"
    /\ \E a \in {"in-progress", "error", "lost"} :
          answer' = [answer EXCEPT ![c] = a]
    /\ UNCHANGED done

Next ==
    \E c \in Calls :
        Perform(c) \/ AnswerOK(c) \/ AnswerCompleted(c) \/ AnswerUnknown(c)

Spec == Init /\ [][Next]_vars
=============================================================================
