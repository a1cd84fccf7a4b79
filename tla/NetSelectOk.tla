---------------------------- MODULE NetSelectOk ----------------------------
(***************************************************************************)
(* net_select_ok: two nodes race to produce Ok(R) (net_select_ok.rs, and   *)
(* net_select.rs, whose futures cannot fail).  The initiator has the       *)
(* preference: it alone resolves, when a state of the receiver reaches it. *)
(***************************************************************************)
EXTENDS Naturals, Sequences

Node == {"initiator", "receiver"}

Peer(n) == IF n = "initiator" THEN "receiver" ELSE "initiator"

\* What a future has returned, None until it has.
Ret == {"none", "ok", "err"}

Resolution == {"ResolvedLocalWon", "ResolvedAdjacentWins", "ResolvedBothFail"}

\* The states that are sent; Pinging carries the Option<bool> of the sender.
Packet == Resolution \cup {"ObtainedValidResult", "Error"}
                     \cup {"PingingNone", "PingingTrue", "PingingFalse"}

VARIABLES
    ret,     \* the result of each node's future
    result,  \* what each call has returned: a NetSelectOkResult
    chan     \* the states on their way to each node

vars == <<ret, result, chan>>

Pending == [done |-> FALSE, some |-> FALSE, other_side_succeeded |-> FALSE]

Returned(some, other) == [done |-> TRUE, some |-> some, other_side_succeeded |-> other]

Init ==
    /\ ret = [n \in Node |-> "none"]
    /\ result = [n \in Node |-> Pending]
    /\ chan = [n \in Node |-> <<>>]

implies_remote_success(packet) == packet \in {"ObtainedValidResult", "PingingTrue"}
implies_remote_failure(packet) == packet \in {"Error", "PingingFalse"}

Pinging(r) == CASE r = "ok"  -> "PingingTrue"
                [] r = "err" -> "PingingFalse"
                [] OTHER     -> "PingingNone"

\* Consume the state at the head of n's stream and answer it.
Answer(n, packets) ==
    chan' = [m \in Node |-> IF m = n THEN Tail(chan[m]) ELSE chan[m] \o packets]

\* A mutant: a future that fails is not announced.
CompleteSilently(n, r) ==
    /\ ~result[n].done
    /\ ret[n] = "none"
    /\ ret' = [ret EXCEPT ![n] = r]
    /\ chan' = [chan EXCEPT ![Peer(n)] = IF r = "ok" THEN Append(@, "ObtainedValidResult") ELSE @]
    /\ UNCHANGED result

\* The completer: the future of n returns, and the state is sent.
Complete(n, r) ==
    /\ ~result[n].done
    /\ ret[n] = "none"
    /\ ret' = [ret EXCEPT ![n] = r]
    /\ chan' = [chan EXCEPT ![Peer(n)] =
                  Append(@, IF r = "ok" THEN "ObtainedValidResult" ELSE "Error")]
    /\ UNCHANGED result

\* What the initiator resolves to, given the state it received.
Resolves(mine, packet) ==
    CASE mine = "ok" -> "ResolvedLocalWon"
      [] mine # "ok" /\ implies_remote_success(packet) -> "ResolvedAdjacentWins"
      [] mine = "err" /\ implies_remote_failure(packet) -> "ResolvedBothFail"
      [] OTHER -> "Pending"

Wrapped(outcome) == Returned(outcome = "ResolvedLocalWon", outcome = "ResolvedAdjacentWins")

\* The evaluator of the initiator.
EvaluatePreferred ==
    LET n == "initiator"
        outcome == Resolves(ret[n], Head(chan[n]))
    IN  /\ ~result[n].done
        /\ chan[n] # <<>>
        /\ \/ /\ outcome \in Resolution
              /\ result' = [result EXCEPT ![n] = Wrapped(outcome)]
              /\ Answer(n, <<outcome>>)
           \/ /\ outcome \notin Resolution
              /\ Answer(n, <<Pinging(ret[n])>>)
              /\ UNCHANGED result
        /\ UNCHANGED ret

\* A mutant: the loser is not told that the other side succeeded.
ToldNothing(resolution) ==
    Returned(resolution = "ResolvedAdjacentWins" /\ ret["receiver"] = "ok", FALSE)

\* What the receiver returns once it is told how the race was resolved.
Told(resolution) ==
    CASE resolution = "ResolvedAdjacentWins" -> Returned(ret["receiver"] = "ok", FALSE)
      [] resolution = "ResolvedLocalWon"     -> Returned(FALSE, TRUE)
      [] OTHER                               -> Returned(FALSE, FALSE)

\* The evaluator of the receiver.
EvaluateOther ==
    LET n == "receiver"
    IN  /\ ~result[n].done
        /\ chan[n] # <<>>
        /\ \/ /\ Head(chan[n]) \in Resolution
              /\ result' = [result EXCEPT ![n] = Told(Head(chan[n]))]
              /\ Answer(n, <<>>)
           \/ /\ Head(chan[n]) \notin Resolution
              /\ Answer(n, <<Pinging(ret[n])>>)
              /\ UNCHANGED result
        /\ UNCHANGED ret

Next ==
    \/ \E n \in Node : \E r \in {"ok", "err"} : Complete(n, r)
    \/ EvaluatePreferred
    \/ EvaluateOther

Spec == Init /\ [][Next]_vars

\* Both evaluators are polled, and both futures return.
Fairness ==
    /\ WF_vars(EvaluatePreferred)
    /\ WF_vars(EvaluateOther)
    /\ \A n \in Node : WF_vars(\E r \in {"ok", "err"} : Complete(n, r))
-----------------------------------------------------------------------------
\* The types of the variables.
TypeOK ==
    /\ ret \in [Node -> Ret]
    /\ result \in [Node -> [done : BOOLEAN, some : BOOLEAN, other_side_succeeded : BOOLEAN]]
    /\ chan \in [Node -> Seq(Packet)]

BothDone == \A n \in Node : result[n].done

(***************************************************************************)
(* Once both calls have returned they agree: at most one has the value,    *)
(* and the other is told that this side succeeded; who is told so hears    *)
(* the truth, and its own side or the other has the value.  (What a winner *)
(* is told of the other side is left open: return_sequence passes FALSE    *)
(* also when the other's future returned Ok.)                              *)
(***************************************************************************)
SameWinner ==
    BothDone => \A n \in Node :
        /\ result[n].some => ~result[Peer(n)].some /\ result[Peer(n)].other_side_succeeded
        /\ result[n].other_side_succeeded =>
              ret[Peer(n)] = "ok" /\ (result[n].some \/ result[Peer(n)].some)

\* Who wins has a value, and a call fails only if both futures have failed.
WinnerSucceeded ==
    \A n \in Node :
       /\ result[n].some => ret[n] = "ok"
       /\ result[n].done /\ ~result[n].some /\ ~result[n].other_side_succeeded =>
             \A m \in Node : ret[m] = "err"

\* Both calls return, whatever the futures return and whenever they do.
BothReturn == <>BothDone
=============================================================================
