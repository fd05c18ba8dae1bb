----------------------------- MODULE OutboxLog -----------------------------
(***************************************************************************)
(* What the outbox promises its consumers: one log per partition key.  A   *)
(* commit appends records at the end of its key's log; a record is         *)
(* delivered for the first time only after everything before it in its     *)
(* log.  A redelivery changes nothing here.                                *)
(***************************************************************************)
EXTENDS Integers

CONSTANTS Keys, MaxId

VARIABLES
    log,  \* the committed records, <<key, position>>
    out   \* the records delivered at least once

logVars == <<log, out>>

Before(r, s) == r[1] = s[1] /\ r[2] < s[2]

Init == log = {} /\ out = {}

Append(k, S) ==
    /\ \A n \in S : \A r \in log : r[1] = k => r[2] < n
    /\ log' = log \cup {<<k, n>> : n \in S}
    /\ UNCHANGED out

Deliver(r) ==
    /\ \A s \in log : Before(s, r) => s \in out
    /\ out' = out \cup {r}
    /\ UNCHANGED log

Next ==
    \/ \E k \in Keys, S \in SUBSET (1 .. MaxId) : Append(k, S)
    \/ \E r \in log : Deliver(r)

Spec == Init /\ [][Next]_logVars
=============================================================================
