-------------------------- MODULE MCNetOperations --------------------------
(***************************************************************************)
(* Small instances of the operations of netbeam that must come to an end:  *)
(* select_ok, try_join, the synchronised start, the opening and closing of *)
(* subscriptions and of channels, and the release of the mutex.  "op" says *)
(* which of them a behaviour is about; the variables the others have stay  *)
(* fixed.                                                                  *)
(***************************************************************************)
EXTENDS Integers, Sequences

CONSTANTS Capacity, MaxId, MaxChan, MaxClock, MaxSkew, MaxTime, MaxItems

ASSUME NetOperationsAssumption ==
    /\ Capacity \in Nat /\ MaxId \in Nat /\ Capacity <= MaxId
    /\ MaxClock \in Nat /\ MaxSkew \in Nat /\ MaxItems \in Nat

VARIABLES
    op, chan,
    ret, result, value,                                 \* select_ok and try_join
    clock, skew, step, due, syn, got, payload, started, \* the synchronised start
    node, rx, faults, latest                            \* subscriptions and mutex

start == <<clock, skew, step, due, syn, got, payload, started>>

vars == <<op, chan, ret, result, value, start, node, rx, faults, latest>>

S == INSTANCE NetSelectOk
J == INSTANCE NetTryJoin
T == INSTANCE NetSyncStart
C == INSTANCE NetMultiplex
B == INSTANCE NetChannel
M == INSTANCE NetMutex WITH Node <- {"initiator", "receiver"}, MayHalt <- FALSE

\* The variables an operation does not have.
NoStart == /\ clock = 0 /\ skew = 0 /\ step = 0 /\ due = 0 /\ syn = 0
           /\ got = 0 /\ payload = 0 /\ started = 0
NoCalls == ret = 0 /\ result = 0 /\ value = 0
NoNodes == node = 0 /\ rx = 0 /\ faults = 0 /\ latest = 0

Init ==
    \/ op = "select_ok" /\ S!Init /\ value = 0 /\ NoStart /\ NoNodes
    \/ op = "try_join" /\ J!Init /\ result = 0 /\ NoStart /\ NoNodes
    \/ op = "sync" /\ T!Init /\ NoCalls /\ NoNodes
    \/ op = "subscribe" /\ C!Init /\ latest = 0 /\ NoCalls /\ NoStart
    \/ op = "channel" /\ B!Init /\ latest = 0 /\ rx = 0 /\ faults = 0 /\ NoCalls /\ NoStart
    \/ op = "mutex" /\ M!Init /\ rx = 0 /\ faults = 0 /\ NoCalls /\ NoStart

Selects    == op = "select_ok" /\ UNCHANGED <<op, value, start, node, rx, faults, latest>>
Joins      == op = "try_join" /\ UNCHANGED <<op, result, start, node, rx, faults, latest>>
Starts     == op = "sync" /\ UNCHANGED <<op, ret, result, value, node, rx, faults, latest>>
Subscribes == op = "subscribe" /\ UNCHANGED <<op, ret, result, value, start, latest>>
Channels   == op = "channel" /\ UNCHANGED <<op, ret, result, value, start, rx, faults, latest>>
Locks      == op = "mutex" /\ UNCHANGED <<op, ret, result, value, start, rx, faults>>

Next ==
    \/ Selects /\ S!Next
    \/ Joins /\ J!Next
    \/ Starts /\ T!Next
    \/ Subscribes /\ C!Next
    \/ Channels /\ B!Next
    \/ Locks /\ M!Next

\* As op is fixed, each conjunct is the fairness of one operation at a time.
Spec ==
    /\ Init /\ [][Next]_vars
    /\ WF_vars((Selects /\ S!EvaluatePreferred) \/ (Joins /\ J!EvaluatePreferred))
    /\ WF_vars((Selects /\ S!EvaluateOther) \/ (Joins /\ J!EvaluateOther))
    /\ \A n \in S!Node :
          /\ WF_vars(\E r \in {"ok", "err"} :
                \/ Selects /\ S!Complete(n, r)
                \/ Joins /\ J!Complete(n, r))
          /\ WF_vars((Subscribes /\ C!Forward(n)) \/ (Locks /\ M!Task(n))
                                           \/ (Channels /\ B!Task(n)))
          /\ WF_vars((Locks /\ M!DropGuard(n)) \/ (Channels /\ B!DropHalted(n)))
    /\ \A id \in C!Id : WF_vars(Subscribes /\ C!Close(id))
-----------------------------------------------------------------------------
\* The two sides of select_ok agree on a winner that has a value, or on a failure
\* of both; try_join returns once both futures succeeded or one failed, not before.
SameOutcome ==
    /\ op = "select_ok" => S!TypeOK /\ S!SameWinner /\ S!WinnerSucceeded
    /\ op = "try_join" => J!JoinedOrFailed

\* No function starts before the payloads were exchanged, and the functions start
\* as far apart as the clocks of the hosts are, or the initiator's when the Ack
\* arrives.
StartsTogether == op = "sync" => T!ExchangedBeforeStart /\ T!StartsTogether

\* No packet for an unknown conversation and no failed assertion, the reader task
\* never waits for room in the pre-action channel, and a halt of a channel is
\* verified once, to the node that waits for it.
NoFault ==
    /\ op = "subscribe" => C!TypeOK /\ C!NoFault /\ C!ReaderNeverBlocks
    /\ op = "channel" => B!TypeOK /\ B!VerifiedIsAwaited

\* Both calls of select_ok and of try_join return.
BothReturn ==
    <>CASE op = "select_ok" -> S!BothDone
        [] op = "try_join"  -> J!Done
        [] OTHER -> TRUE

\* A conversation that both nodes have dropped is forgotten by both, provided that
\* what one node drops the other drops at some time (one close that waits stops the
\* others: PostActionChannel::recv); and the task of a dropped receiving half ends,
\* unless both were dropped at once.
Closes ==
    /\ []<>(op = "subscribe" => C!NoneHalfDropped) =>
          \A id \in C!Id :
             (op = "subscribe" /\ C!BothDropped(id)) ~> (op = "subscribe" /\ C!Forgotten(id))
    /\ \A n \in C!Node :
          (op = "channel" /\ B!Dropped(n)) ~> (op = "channel" /\ B!Settled(n))

\* The code that runs after a guard of the mutex was dropped comes to an end.
MutexReleases ==
    \A n \in C!Node :
       (op = "mutex" /\ ~M!ReleaseDone(n)) ~> (op = "mutex" /\ M!ReleaseDone(n))
=============================================================================
