----------------------------- MODULE NetTryJoin -----------------------------
(***************************************************************************)
(* net_try_join: two nodes each produce Ok(T), or the first error ends     *)
(* both (net_try_join.rs, and net_join.rs, whose futures cannot fail).     *)
(* The initiator has the preference: it alone resolves, when a state of    *)
(* the receiver reaches it.                                                *)
(***************************************************************************)
EXTENDS Naturals, Sequences

Node == {"initiator", "receiver"}

Peer(n) == IF n = "initiator" THEN "receiver" ELSE "initiator"

Ret == {"none", "ok", "err"}

Resolution == {"Resolved", "ResolvedBothFail"}

VARIABLES
    ret,    \* the result of each node's future
    value,  \* what each call has returned: None, or the result of the future
    chan    \* the states on their way to each node

vars == <<ret, value, chan>>

Init ==
    /\ ret = [n \in Node |-> "none"]
    /\ value = [n \in Node |-> "pending"]
    /\ chan = [n \in Node |-> <<>>]

implies_success(packet) == packet \in {"ObtainedValidResult", "PingingTrue"}
implies_failure(packet) == packet \in {"Error", "PingingFalse"}

Pinging(r) == CASE r = "ok"  -> "PingingTrue"
                [] r = "err" -> "PingingFalse"
                [] OTHER     -> "PingingNone"

Answer(n, packets) ==
    chan' = [m \in Node |-> IF m = n THEN Tail(chan[m]) ELSE chan[m] \o packets]

Complete(n, r) ==
    /\ value[n] = "pending"
    /\ ret[n] = "none"
    /\ ret' = [ret EXCEPT ![n] = r]
    /\ chan' = [chan EXCEPT ![Peer(n)] =
                  Append(@, IF r = "ok" THEN "ObtainedValidResult" ELSE "Error")]
    /\ UNCHANGED value

\* If any node fails both do; if both succeed both are resolved.
Resolves(mine, packet) ==
    CASE implies_failure(packet) \/ mine = "err" -> "ResolvedBothFail"
      [] implies_success(packet) /\ mine = "ok"  -> "Resolved"
      [] OTHER -> "Pending"

EvaluatePreferred ==
    LET n == "initiator"
        outcome == Resolves(ret[n], Head(chan[n]))
    IN  /\ value[n] = "pending"
        /\ chan[n] # <<>>
        /\ \/ /\ outcome \in Resolution
              /\ value' = [value EXCEPT ![n] = ret[n]]
              /\ Answer(n, <<outcome>>)
           \/ /\ outcome \notin Resolution
              /\ Answer(n, <<Pinging(ret[n])>>)
              /\ UNCHANGED value
        /\ UNCHANGED ret

EvaluateOther ==
    LET n == "receiver"
    IN  /\ value[n] = "pending"
        /\ chan[n] # <<>>
        /\ \/ /\ Head(chan[n]) \in Resolution
              /\ value' = [value EXCEPT ![n] = ret[n]]
              /\ Answer(n, <<>>)
           \/ /\ Head(chan[n]) \notin Resolution
              /\ Answer(n, <<Pinging(ret[n])>>)
              /\ UNCHANGED value
        /\ UNCHANGED ret

Next ==
    \/ \E n \in Node : \E r \in {"ok", "err"} : Complete(n, r)
    \/ EvaluatePreferred
    \/ EvaluateOther

Spec == Init /\ [][Next]_vars

Fairness ==
    /\ WF_vars(EvaluatePreferred)
    /\ WF_vars(EvaluateOther)
    /\ \A n \in Node : WF_vars(\E r \in {"ok", "err"} : Complete(n, r))
-----------------------------------------------------------------------------
Done == \A n \in Node : value[n] # "pending"

(***************************************************************************)
(* No call returns its value before the future of the other node has       *)
(* returned one too or has failed: "Returns when both endpoints produce    *)
(* Ok(T), or, when the first error occurs".  A call that returns without   *)
(* an error of its own, while its future is not done, does so because the  *)
(* other future failed.                                                    *)
(***************************************************************************)
JoinedOrFailed ==
    \A n \in Node : value[n] # "pending" =>
        \/ \A m \in Node : ret[m] = "ok"
        \/ \E m \in Node : ret[m] = "err"

\* Both calls return.
BothReturn == <>Done
=============================================================================
