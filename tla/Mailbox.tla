------------------------------ MODULE Mailbox -------------------------------
(***************************************************************************)
(* What the human-in-the-loop gate promises its callers, whatever maps and *)
(* timers it keeps (src/agent/hitl.ts): a decision is an answer to one key *)
(* and settles at most one caller of it; a caller is left waiting only     *)
(* when there is no answer for it, an answer is kept only when there is no *)
(* caller for it; closing settles all that wait.  A key that two callers   *)
(* have waited on at once is shared, and less is promised on it.           *)
(***************************************************************************)
CONSTANTS Keys, Waits, Decisions, None

VARIABLES status,  \* of a caller: "new", "open", "answered" or "failed"
          key,     \* what a caller asked about
          got,     \* the decision a caller was given
          made,    \* the key a decision is about, None: not made yet
          live,    \* decisions made that may still answer somebody
          shared   \* keys that two callers have waited on at once

mailbox == <<status, key, got, made, live, shared>>

Waiting(k) == {w \in Waits : status[w] = "open" /\ key[w] = k}
For(k) == {d \in live : made[d] = k}

Init ==
    /\ status = [w \in Waits |-> "new"]
    /\ key = [w \in Waits |-> None] /\ got = [w \in Waits |-> None]
    /\ made = [d \in Decisions |-> None]
    /\ live = {} /\ shared = {}

Settle(w, d) ==
    /\ status' = [status EXCEPT ![w] = "answered"]
    /\ got' = [got EXCEPT ![w] = d]

AskAnswered(w, k) ==
    /\ status[w] = "new"
    /\ key' = [key EXCEPT ![w] = k]
    /\ \E d \in For(k) : Settle(w, d) /\ live' = live \ {d}
    /\ UNCHANGED <<made, shared>>
AskWaits(w, k) ==
    /\ status[w] = "new" /\ For(k) = {}
    /\ key' = [key EXCEPT ![w] = k]
    /\ status' = [status EXCEPT ![w] = "open"]
    /\ shared' = IF Waiting(k) = {} THEN shared ELSE shared \cup {k}
    /\ UNCHANGED <<got, made, live>>

DecideAnswers(d, k) ==
    /\ made[d] = None
    /\ made' = [made EXCEPT ![d] = k]
    /\ \E w \in Waiting(k) : Settle(w, d)
    /\ UNCHANGED <<key, live, shared>>
DecideKept(d, k) ==
    /\ made[d] = None /\ (Waiting(k) = {} \/ k \in shared)
    /\ made' = [made EXCEPT ![d] = k]
    /\ live' = (live \ For(k)) \cup {d}
    /\ UNCHANGED <<status, key, got, shared>>

Fail(callers) == status' = [w \in Waits |-> IF w \in callers THEN "failed" ELSE status[w]]

Expire(w) ==
    /\ status[w] = "open" /\ Fail({w})
    /\ UNCHANGED <<key, got, made, live, shared>>
Close ==
    /\ \E callers \in SUBSET Waits :
          /\ \A w \in callers : status[w] = "open"
          /\ \A w \in Waits : status[w] = "open" => w \in callers \/ key[w] \in shared
          /\ Fail(callers)
    /\ live' = {}
    /\ UNCHANGED <<key, got, made, shared>>
Forget ==
    /\ live' = {}
    /\ UNCHANGED <<status, key, got, made, shared>>

Next ==
    \/ \E w \in Waits, k \in Keys : AskAnswered(w, k) \/ AskWaits(w, k)
    \/ \E d \in Decisions, k \in Keys : DecideAnswers(d, k) \/ DecideKept(d, k)
    \/ \E w \in Waits : Expire(w)
    \/ Close \/ Forget

Spec == Init /\ [][Next]_mailbox
=============================================================================
