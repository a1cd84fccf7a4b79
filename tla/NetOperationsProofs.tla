------------------------ MODULE NetOperationsProofs ------------------------
(***************************************************************************)
(* The operations of netbeam, for every value of the bounds: an inductive  *)
(* invariant for each of them, and the properties of MCNetOperations.      *)
(***************************************************************************)
EXTENDS MCNetOperations, TLAPS

\* Zenon has 30 seconds for each leaf that does not name another prover.
USE ZenonT(30)

\* The packets of a stream.
Carried(c) == {c[k] : k \in 1 .. Len(c)}

\* What a stream carries after a packet was sent on it or read from it.
LEMMA Streams ==
    ASSUME NEW Q, NEW c \in Seq(Q)
    PROVE  /\ c \o <<>> = c
           /\ \A p \in Q : /\ c \o <<p>> = Append(c, p) /\ Append(c, p) \in Seq(Q)
                           /\ Carried(Append(c, p)) = Carried(c) \cup {p}
           /\ c # <<>> => /\ Tail(c) \in Seq(Q) /\ Head(c) \in Q
                          /\ Carried(c) = {Head(c)} \cup Carried(Tail(c))
  <1>1. c \o <<>> = c
    BY SMTT(30)
  <1>2. ASSUME NEW p \in Q
        PROVE  /\ c \o <<p>> = Append(c, p) /\ Append(c, p) \in Seq(Q)
               /\ Carried(Append(c, p)) = Carried(c) \cup {p}
    <2> DEFINE d == Append(c, p)
    <2>1. c \o <<p>> = d /\ d \in Seq(Q)
      BY SMTT(30)
    <2>2. /\ Len(d) = Len(c) + 1 /\ Len(c) \in Nat /\ d[Len(c) + 1] = p
          /\ \A k \in 1 .. Len(c) : d[k] = c[k]
      BY SMTT(30)
    <2>3. 1 .. Len(d) = 1 .. Len(c) \cup {Len(c) + 1}
      BY SMTT(30), <2>2
    <2> HIDE DEF d
    <2>4. Carried(d) = Carried(c) \cup {p}
      BY SMTT(30), <2>2, <2>3 DEF Carried
    <2> QED
      BY <2>1, <2>4 DEF d
  <1>3. ASSUME c # <<>>
        PROVE  Tail(c) \in Seq(Q) /\ Head(c) \in Q /\ Carried(c) = {Head(c)} \cup Carried(Tail(c))
    <2>1. Tail(c) \in Seq(Q) /\ Head(c) \in Q /\ Head(c) = c[1] /\ 1 \in 1 .. Len(c)
      BY SMTT(30), <1>3
    <2>2. /\ Len(c) \in Nat /\ Len(Tail(c)) = Len(c) - 1
          /\ \A k \in 1 .. Len(Tail(c)) : Tail(c)[k] = c[k + 1] /\ k + 1 \in 1 .. Len(c)
      BY SMTT(30), <1>3
    <2>3. \A k \in 1 .. Len(c) : k = 1 \/ (k - 1 \in 1 .. Len(Tail(c)) /\ c[k] = Tail(c)[k - 1])
      <3> SUFFICES ASSUME NEW k \in 1 .. Len(c), k # 1
                   PROVE  k - 1 \in 1 .. Len(Tail(c)) /\ c[k] = Tail(c)[k - 1]
        OBVIOUS
      <3>1. k - 1 \in 1 .. Len(Tail(c)) /\ (k - 1) + 1 = k
        BY SMTT(30), <2>2
      <3> QED
        BY <2>2, <3>1
    <2>4. Carried(c) \subseteq {Head(c)} \cup Carried(Tail(c))
      BY SMTT(30), <2>1, <2>3 DEF Carried
    <2>5. {Head(c)} \cup Carried(Tail(c)) \subseteq Carried(c)
      BY SMTT(30), <2>1, <2>2 DEF Carried
    <2> QED
      BY <2>1, <2>4, <2>5
  <1> QED
    BY <1>1, <1>2, <1>3

\* A packet sent on a stream is the only new one it carries.
LEMMA StreamSends ==
    ASSUME NEW Q, NEW c \in Seq(Q), NEW p \in Q
    PROVE  /\ c \o <<>> = c /\ c \o <<p>> \in Seq(Q)
           /\ Carried(c \o <<p>>) = Carried(c) \cup {p}
  <1>1. /\ c \o <<>> = c /\ c \o <<p>> = Append(c, p) /\ Append(c, p) \in Seq(Q)
        /\ Carried(Append(c, p)) = Carried(c) \cup {p}
    BY SMTT(30), Streams
  <1> QED
    BY <1>1

\* A packet read from a stream is one it carried, and so are the others.
LEMMA StreamReads ==
    ASSUME NEW Q, NEW c \in Seq(Q), c # <<>>
    PROVE  /\ Tail(c) \in Seq(Q) /\ Head(c) \in Q
           /\ Carried(Tail(c)) \subseteq Carried(c) /\ Head(c) \in Carried(c)
  <1> DEFINE h == Head(c)
             t == Carried(Tail(c))
  <1>1. Tail(c) \in Seq(Q) /\ h \in Q /\ Carried(c) = {h} \cup t
    BY Streams
  <1> HIDE DEF h, t
  <1>2. t \subseteq Carried(c) /\ h \in Carried(c)
    BY <1>1
  <1> QED
    BY <1>1, <1>2 DEF h, t

\* A stream nothing was sent on.
LEMMA NoStream == <<>> \in Seq({}) /\ Carried(<<>>) = {} /\ \A Q : <<>> \in Seq(Q)
  BY SMTT(30) DEF Carried

\* Of two packets of a stream, the earlier and the later are in relation R.
Ordered(c, R) == \A j, k \in 1 .. Len(c) : j < k => <<c[j], c[k]>> \in R

\* Sending a packet and reading one keep an order.
LEMMA Orders ==
    ASSUME NEW Q, NEW R, NEW c \in Seq(Q), Ordered(c, R)
    PROVE  /\ \A q \in Q : (\A p \in Carried(c) : <<p, q>> \in R) => Ordered(Append(c, q), R)
           /\ c # <<>> => /\ Ordered(Tail(c), R)
                          /\ \A q \in Carried(Tail(c)) : <<Head(c), q>> \in R
  <1>1. ASSUME NEW q \in Q, \A p \in Carried(c) : <<p, q>> \in R
        PROVE  Ordered(Append(c, q), R)
    <2> DEFINE d == Append(c, q)
    <2>1. /\ Len(d) = Len(c) + 1 /\ Len(c) \in Nat /\ d[Len(c) + 1] = q
          /\ \A k \in 1 .. Len(c) : d[k] = c[k] /\ c[k] \in Carried(c)
      BY SMTT(30) DEF Carried
    <2> HIDE DEF d
    <2>2. ASSUME NEW j \in 1 .. Len(d), NEW k \in 1 .. Len(d), j < k
          PROVE  <<d[j], d[k]>> \in R
      <3>1. CASE k = Len(c) + 1
        BY SMTT(30), <1>1, <2>1, <2>2, <3>1
      <3>2. CASE k # Len(c) + 1
        BY SMTT(30), <2>1, <2>2, <3>2 DEF Ordered
      <3> QED
        BY <3>1, <3>2
    <2> QED
      BY <2>2 DEF Ordered, d
  <1>2. ASSUME c # <<>>
        PROVE  Ordered(Tail(c), R) /\ \A q \in Carried(Tail(c)) : <<Head(c), q>> \in R
    <2>1. /\ Len(Tail(c)) \in Nat /\ Len(c) \in Nat /\ Head(c) = c[1] /\ 1 \in 1 .. Len(c)
          /\ \A k \in 1 .. Len(Tail(c)) : /\ Tail(c)[k] = c[k + 1] /\ k + 1 \in 1 .. Len(c)
                                          /\ 1 < k + 1
      BY SMTT(30), <1>2
    <2>2. Ordered(Tail(c), R)
      <3> SUFFICES ASSUME NEW j \in 1 .. Len(Tail(c)), NEW k \in 1 .. Len(Tail(c)), j < k
                   PROVE  <<Tail(c)[j], Tail(c)[k]>> \in R
        BY DEF Ordered
      <3>1. Tail(c)[j] = c[j + 1] /\ Tail(c)[k] = c[k + 1] /\ j + 1 < k + 1
        BY SMTT(30), <2>1
      <3> QED
        BY <2>1, <3>1 DEF Ordered
    <2>3. \A q \in Carried(Tail(c)) : <<Head(c), q>> \in R
      <3> SUFFICES ASSUME NEW k \in 1 .. Len(Tail(c)) PROVE <<Head(c), Tail(c)[k]>> \in R
        BY DEF Carried
      <3> QED
        BY <2>1 DEF Ordered
    <2> QED
      BY <2>2, <2>3
  <1> QED
    BY <1>1, <1>2

-----------------------------------------------------------------------------
(* select_ok *)

\* What the receiver says of its future is so; what it is told is what the
\* initiator has resolved; and the initiator resolved on grounds it had.
SelectInv ==
    /\ S!TypeOK
    /\ \A p \in Carried(chan["initiator"]) :
          /\ S!implies_remote_success(p) => ret["receiver"] = "ok"
          /\ S!implies_remote_failure(p) => ret["receiver"] = "err"
    /\ \A p \in Carried(chan["receiver"]) :
          p \in S!Resolution => result["initiator"] = S!Wrapped(p)
    /\ result["initiator"].done =>
          /\ result["initiator"].some => ret["initiator"] = "ok"
          /\ result["initiator"].other_side_succeeded => ret["receiver"] = "ok"
          /\ ~(result["initiator"].some /\ result["initiator"].other_side_succeeded)
          /\ \/ result["initiator"].some \/ result["initiator"].other_side_succeeded
             \/ ret["initiator"] = "err" /\ ret["receiver"] = "err"
    /\ \A n \in S!Node : ~result[n].done => result[n] = S!Pending
    /\ result["receiver"].done =>
          /\ result["initiator"].done
          /\ result["receiver"].some = result["initiator"].other_side_succeeded
          /\ result["receiver"].other_side_succeeded = result["initiator"].some

\* At the start of select_ok nothing is on its way and nobody has resolved.
LEMMA SelectInit == S!Init => SelectInv
  <1> SUFFICES ASSUME S!Init PROVE SelectInv
    OBVIOUS
  <1>1. S!TypeOK
    BY SMTT(30) DEF S!Init, S!TypeOK, S!Node, S!Ret, S!Pending
  <1>2. /\ chan["initiator"] = <<>> /\ chan["receiver"] = <<>>
        /\ \A n \in S!Node : result[n] = S!Pending
    BY DEF S!Init, S!Node
  <1>3. ~S!Pending.done
    BY DEF S!Pending
  <1> QED
    BY <1>1, <1>2, <1>3, NoStream DEF SelectInv, S!Node

\* A future returns: nothing said about futures that have returned changes.
LEMMA SelectComplete ==
    ASSUME SelectInv, NEW n \in S!Node, NEW r \in {"ok", "err"}, S!Complete(n, r)
    PROVE  SelectInv'
  <1> DEFINE m == S!Peer(n)
             p == IF r = "ok" THEN "ObtainedValidResult" ELSE "Error"
  <1>1. /\ m \in S!Node /\ m # n /\ p \in S!Packet /\ p \notin S!Resolution
        /\ chan[m] \in Seq(S!Packet) /\ chan[n] \in Seq(S!Packet)
    BY DEF S!Node, S!Peer, S!Packet, S!Resolution, SelectInv, S!TypeOK
  <1>2. chan' = [chan EXCEPT ![m] = Append(chan[m], p)]
    BY DEF S!Complete
  <1>3. /\ Append(chan[m], p) \in Seq(S!Packet)
       
        /\ Carried(Append(chan[m], p)) = Carried(chan[m]) \cup {p}
    BY SMTT(30), <1>1, Streams
  <1> HIDE DEF m, p
  <1>4. /\ chan'[m] = Append(chan[m], p) /\ chan'[n] = chan[n]
        /\ ret'[n] = r /\ ret'[m] = ret[m] /\ ret[n] = "none" /\ result' = result
        /\ ~result[n].done
    BY <1>1, <1>2 DEF S!Complete, SelectInv, S!TypeOK
  <1>5. S!TypeOK'
    <2>1. ret' \in [S!Node -> S!Ret]
      BY DEF S!Complete, SelectInv, S!TypeOK, S!Ret
    <2>2. chan' \in [S!Node -> Seq(S!Packet)]
      BY <1>2, <1>3 DEF SelectInv, S!TypeOK
    <2> QED
      BY <1>4, <2>1, <2>2 DEF SelectInv, S!TypeOK
  <1>6. p \in {"ObtainedValidResult", "Error"} /\ (p = "Error" <=> r = "err")
    BY DEF p
  <1>7. CASE n = "initiator" /\ m = "receiver"
    BY <1>1, <1>3, <1>4, <1>5, <1>7 DEF SelectInv
  <1>8. CASE n = "receiver" /\ m = "initiator"
    <2>1. \A x \in Carried(chan'["initiator"]) :
             /\ S!implies_remote_success(x) => ret'["receiver"] = "ok"
             /\ S!implies_remote_failure(x) => ret'["receiver"] = "err"
      BY <1>3, <1>4, <1>6, <1>8 DEF SelectInv, S!implies_remote_success,
     S!implies_remote_failure
    <2> QED
      BY <1>4, <1>5, <1>8, <2>1 DEF SelectInv
  <1> QED
    BY <1>1, <1>7, <1>8 DEF S!Node

\* An evaluator reads a state and answers it: the streams.
LEMMA SelectAnswer ==
    ASSUME SelectInv, NEW n \in S!Node, chan[n] # <<>>, NEW p \in S!Packet,
           S!Answer(n, <<p>>) \/ S!Answer(n, <<>>)
    PROVE  /\ chan' \in [S!Node -> Seq(S!Packet)]
           /\ Carried(chan'[n]) \subseteq Carried(chan[n])
           /\ Head(chan[n]) \in Carried(chan[n]) /\ Head(chan[n]) \in S!Packet
           /\ S!Answer(n, <<p>>) =>
                Carried(chan'[S!Peer(n)]) = Carried(chan[S!Peer(n)]) \cup {p}
           /\ S!Answer(n, <<>>) => chan'[S!Peer(n)] = chan[S!Peer(n)]
  <1> DEFINE m == S!Peer(n)
  <1>1. /\ m \in S!Node /\ m # n /\ \A x \in S!Node : x = n \/ x = m
        /\ chan[m] \in Seq(S!Packet) /\ chan[n] \in Seq(S!Packet)
    BY DEF S!Node, S!Peer, SelectInv, S!TypeOK
  <1> HIDE DEF m
  <1>2. /\ chan[m] \o <<>> = chan[m] /\ chan[m] \o <<p>> \in Seq(S!Packet)
        /\ Carried(chan[m] \o <<p>>) = Carried(chan[m]) \cup {p}
        /\ Tail(chan[n]) \in Seq(S!Packet)
        /\ Carried(Tail(chan[n])) \subseteq Carried(chan[n])
        /\ Head(chan[n]) \in Carried(chan[n]) /\ Head(chan[n]) \in S!Packet
    <2>1. /\ chan[m] \o <<>> = chan[m] /\ chan[m] \o <<p>> \in Seq(S!Packet)
          /\ Carried(chan[m] \o <<p>>) = Carried(chan[m]) \cup {p}
      BY <1>1, StreamSends
    <2>2. /\ Tail(chan[n]) \in Seq(S!Packet) /\ Head(chan[n]) \in S!Packet
          /\ Carried(Tail(chan[n])) \subseteq Carried(chan[n]) /\ Head(chan[n]) \in Carried(chan[n])
      BY <1>1, StreamReads
    <2> QED
      BY <2>1, <2>2
  <1>3. CASE S!Answer(n, <<p>>)
    <2>1. chan' = [x \in S!Node |-> IF x = n THEN Tail(chan[x]) ELSE chan[x] \o <<p>>]
      BY <1>3 DEF S!Answer
    <2>2. chan'[n] = Tail(chan[n]) /\ chan'[m] = chan[m] \o <<p>>
      BY <1>1, <2>1
    <2>3. chan' \in [S!Node -> Seq(S!Packet)]
      BY <1>1, <1>2, <2>1, <2>2
    <2>4. S!Answer(n, <<>>) => chan'[m] = chan[m]
      BY <1>1, <1>2 DEF S!Answer
    <2> QED
      BY <1>2, <2>2, <2>3, <2>4 DEF m
  <1>4. CASE S!Answer(n, <<>>)
    <2>1. chan' = [x \in S!Node |-> IF x = n THEN Tail(chan[x]) ELSE chan[x] \o <<>>]
      BY <1>4 DEF S!Answer
    <2>2. chan'[n] = Tail(chan[n]) /\ chan'[m] = chan[m]
      BY <1>1, <1>2, <2>1
    <2>3. chan' \in [S!Node -> Seq(S!Packet)]
      BY <1>1, <1>2, <2>1, <2>2
    <2>4. S!Answer(n, <<p>>) => chan'[m] = chan[m] \o <<p>>
      BY <1>1 DEF S!Answer
    <2> QED
      BY <1>2, <2>2, <2>3, <2>4 DEF m
  <1> QED
    BY <1>3, <1>4

\* The states a node sends while the race is open.
LEMMA SelectPings ==
    ASSUME NEW r \in S!Ret
    PROVE  /\ S!Pinging(r) \in S!Packet /\ S!Pinging(r) \notin S!Resolution
           /\ S!implies_remote_success(S!Pinging(r)) => r = "ok"
           /\ S!implies_remote_failure(S!Pinging(r)) => r = "err"
  BY DEF S!Ret, S!Pinging, S!Packet, S!Resolution, S!implies_remote_success,
     S!implies_remote_failure

\* What the initiator resolves on.
LEMMA SelectResolves ==
    ASSUME NEW r \in S!Ret, NEW p, NEW o, o = S!Resolves(r, p), o \in S!Resolution
    PROVE  /\ o = "ResolvedLocalWon" => r = "ok"
           /\ o = "ResolvedAdjacentWins" => S!implies_remote_success(p)
           /\ o = "ResolvedBothFail" => r = "err" /\ S!implies_remote_failure(p)
           /\ S!Wrapped(o) = S!Returned(o = "ResolvedLocalWon", o = "ResolvedAdjacentWins")
  <1>1. /\ o = "ResolvedLocalWon" => r = "ok"
        /\ o = "ResolvedAdjacentWins" => S!implies_remote_success(p)
        /\ o = "ResolvedBothFail" => r = "err" /\ S!implies_remote_failure(p)
    BY DEF S!Resolves, S!Resolution
  <1> QED
    BY <1>1 DEF S!Wrapped

\* The initiator resolves the race, or asks again.
LEMMA SelectPreferred ==
    ASSUME SelectInv, S!EvaluatePreferred
    PROVE  SelectInv'
  <1> DEFINE p == Head(chan["initiator"])
             o == S!Resolves(ret["initiator"], p)
             w == S!Wrapped(o)
  <1>1. /\ "initiator" \in S!Node /\ S!Peer("initiator") = "receiver" /\ "receiver" \in S!Node
        /\ \A x \in S!Node : x = "initiator" \/ x = "receiver"
        /\ ret["initiator"] \in S!Ret /\ ret' = ret
        /\ ~result["initiator"].done /\ chan["initiator"] # <<>>
    BY DEF SelectInv, S!TypeOK, S!Node, S!Peer, S!EvaluatePreferred
  <1>2. CASE /\ o \in S!Resolution /\ result' = [result EXCEPT !["initiator"] = w]
             /\ S!Answer("initiator", <<o>>)
    <2>1. o \in S!Packet
      BY <1>2 DEF S!Packet
    <2>2. /\ chan' \in [S!Node -> Seq(S!Packet)]
          /\ Carried(chan'["initiator"]) \subseteq Carried(chan["initiator"])
          /\ p \in Carried(chan["initiator"])
          /\ Carried(chan'["receiver"]) = Carried(chan["receiver"]) \cup {o}
      BY <1>1, <1>2, <2>1, SelectAnswer
    <2>3. /\ o = "ResolvedLocalWon" => ret["initiator"] = "ok"
          /\ o = "ResolvedAdjacentWins" => ret["receiver"] = "ok"
          /\ o = "ResolvedBothFail" => ret["initiator"] = "err" /\ ret["receiver"] = "err"
          /\ w = S!Returned(o = "ResolvedLocalWon", o = "ResolvedAdjacentWins")
      BY SMTT(30), <1>1, <1>2, <2>2, SelectResolves DEF SelectInv
    <2> HIDE DEF p, o, w
    <2>4. /\ w.done /\ w.some = (o = "ResolvedLocalWon")
          /\ w.other_side_succeeded = (o = "ResolvedAdjacentWins")
          /\ w \in [done : BOOLEAN, some : BOOLEAN, other_side_succeeded : BOOLEAN]
      BY <2>3 DEF S!Returned
    <2>5. result'["initiator"] = w /\ result'["receiver"] = result["receiver"]
      BY <1>1, <1>2 DEF SelectInv, S!TypeOK
    <2>6. S!TypeOK'
      BY <1>1, <1>2, <2>2, <2>4 DEF SelectInv, S!TypeOK
    <2>7. ~result["receiver"].done /\ \A x \in Carried(chan["receiver"]) : x \notin S!Resolution
      <3>1. \A x : S!Wrapped(x).done
        BY DEF S!Wrapped, S!Returned
      <3> QED
        BY <1>1, <3>1 DEF SelectInv
    <2>8. o \in {"ResolvedLocalWon", "ResolvedAdjacentWins", "ResolvedBothFail"}
      BY <1>2 DEF S!Resolution
    <2>9. \A x \in Carried(chan'["receiver"]) :
             x \in S!Resolution => result'["initiator"] = S!Wrapped(x)
      BY <2>2, <2>5, <2>7 DEF w
    <2> QED
      BY <1>1, <2>2, <2>3, <2>4, <2>5, <2>6, <2>7, <2>8, <2>9 DEF SelectInv
  <1>3. CASE result' = result /\ S!Answer("initiator", <<S!Pinging(ret["initiator"])>>)
    <2>1. /\ S!Pinging(ret["initiator"]) \in S!Packet
          /\ S!Pinging(ret["initiator"]) \notin S!Resolution
      BY <1>1, SelectPings
    <2>2. /\ chan' \in [S!Node -> Seq(S!Packet)]
          /\ Carried(chan'["initiator"]) \subseteq Carried(chan["initiator"])
          /\ Carried(chan'["receiver"]) =
                Carried(chan["receiver"]) \cup {S!Pinging(ret["initiator"])}
      BY <1>1, <1>3, <2>1, SelectAnswer
    <2> QED
      BY <1>1, <1>3, <2>1, <2>2 DEF SelectInv, S!TypeOK
  <1> QED
    BY <1>2, <1>3 DEF S!EvaluatePreferred

\* The receiver is told how the race was resolved, or says how far it is.
LEMMA SelectOther ==
    ASSUME SelectInv, S!EvaluateOther
    PROVE  SelectInv'
  <1> DEFINE p == Head(chan["receiver"])
             w == S!Told(p)
             i == result["initiator"]
  <1>1. /\ "initiator" \in S!Node /\ S!Peer("receiver") = "initiator" /\ "receiver" \in S!Node
        /\ \A x \in S!Node : x = "initiator" \/ x = "receiver"
        /\ ret["receiver"] \in S!Ret /\ ret' = ret
        /\ ~result["receiver"].done /\ chan["receiver"] # <<>>
    BY DEF SelectInv, S!TypeOK, S!Node, S!Peer, S!EvaluateOther
  <1>2. CASE /\ p \in S!Resolution /\ result' = [result EXCEPT !["receiver"] = w]
             /\ S!Answer("receiver", <<>>)
    <2>1. p \in S!Packet
      BY <1>2 DEF S!Packet
    <2>2. /\ chan' \in [S!Node -> Seq(S!Packet)] /\ chan'["initiator"] = chan["initiator"]
          /\ Carried(chan'["receiver"]) \subseteq Carried(chan["receiver"])
          /\ p \in Carried(chan["receiver"])
      BY <1>1, <1>2, <2>1, SelectAnswer
    <2>3. i = S!Returned(p = "ResolvedLocalWon", p = "ResolvedAdjacentWins")
      BY <1>2, <2>2 DEF SelectInv, S!Wrapped
    <2>4. p \in {"ResolvedLocalWon", "ResolvedAdjacentWins", "ResolvedBothFail"}
      BY <1>2 DEF S!Resolution
    <2>5. p = "ResolvedAdjacentWins" => ret["receiver"] = "ok"
      <3>1. i.done /\ i.other_side_succeeded = (p = "ResolvedAdjacentWins")
        BY SMTT(30), <2>3 DEF S!Returned
      <3> QED
        BY <3>1 DEF SelectInv
    <2>6. w = S!Returned(p = "ResolvedAdjacentWins", p = "ResolvedLocalWon")
      BY <2>4, <2>5 DEF S!Told
    <2> HIDE DEF p, w
    <2>7. /\ w.done /\ i.done /\ w.some = i.other_side_succeeded /\ w.other_side_succeeded = i.some
          /\ w \in [done : BOOLEAN, some : BOOLEAN, other_side_succeeded : BOOLEAN]
      BY SMTT(30), <2>3, <2>6 DEF S!Returned
    <2>8. result'["receiver"] = w /\ result'["initiator"] = i
      BY <1>1, <1>2 DEF SelectInv, S!TypeOK
    <2>9. S!TypeOK'
      BY <1>1, <1>2, <2>2, <2>7 DEF SelectInv, S!TypeOK
    <2> QED
      BY <1>1, <2>2, <2>7, <2>8, <2>9 DEF SelectInv
  <1>3. CASE result' = result /\ S!Answer("receiver", <<S!Pinging(ret["receiver"])>>)
    <2> DEFINE x == S!Pinging(ret["receiver"])
    <2>1. /\ x \in S!Packet
          /\ S!implies_remote_success(x) => ret["receiver"] = "ok"
          /\ S!implies_remote_failure(x) => ret["receiver"] = "err"
      BY <1>1, SelectPings
    <2>2. /\ chan' \in [S!Node -> Seq(S!Packet)]
          /\ Carried(chan'["receiver"]) \subseteq Carried(chan["receiver"])
          /\ Carried(chan'["initiator"]) = Carried(chan["initiator"]) \cup {x}
      BY <1>1, <1>3, <2>1, SelectAnswer
    <2> HIDE DEF x
    <2> QED
      BY <1>1, <1>3, <2>1, <2>2 DEF SelectInv, S!TypeOK
  <1> QED
    BY <1>2, <1>3 DEF S!EvaluateOther

\* The results of select_ok follow.
LEMMA SelectAgrees == SelectInv => S!TypeOK /\ S!SameWinner /\ S!WinnerSucceeded
  <1> SUFFICES ASSUME SelectInv PROVE S!SameWinner /\ S!WinnerSucceeded
    BY DEF SelectInv
  <1>1. /\ S!Peer("initiator") = "receiver" /\ S!Peer("receiver") = "initiator"
        /\ \A n \in S!Node : n = "initiator" \/ n = "receiver"
        /\ "initiator" \in S!Node /\ "receiver" \in S!Node
    BY DEF S!Node, S!Peer
  <1>2. \A n \in S!Node : result[n].some => result[n].done
    BY SMTT(30) DEF SelectInv, S!Pending
  <1>3. S!SameWinner
    <2> DEFINE i == result["initiator"]
               r == result["receiver"]
    <2> SUFFICES ASSUME i.done, r.done
                 PROVE  /\ i.some => ~r.some /\ r.other_side_succeeded
                        /\ r.some => ~i.some /\ i.other_side_succeeded
                        /\ i.other_side_succeeded => ret["receiver"] = "ok" /\ (i.some \/ r.some)
                        /\ r.other_side_succeeded => ret["initiator"] = "ok" /\ (r.some \/ i.some)
      BY <1>1 DEF S!SameWinner, S!BothDone
    <2>1. /\ r.some = i.other_side_succeeded /\ r.other_side_succeeded = i.some
          /\ i.some => ret["initiator"] = "ok"
          /\ i.other_side_succeeded => ret["receiver"] = "ok"
          /\ ~(i.some /\ i.other_side_succeeded)
      BY DEF SelectInv
    <2> HIDE DEF i, r
    <2> QED
      BY <2>1
  <1>4. S!WinnerSucceeded
    BY <1>1, <1>2 DEF S!WinnerSucceeded, SelectInv
  <1> QED
    BY <1>3, <1>4

-----------------------------------------------------------------------------
(* try_join *)

\* The states try_join sends.
JoinPacket == J!Resolution \cup {"ObtainedValidResult", "Error"}
                           \cup {"PingingNone", "PingingTrue", "PingingFalse"}

\* Why a call of try_join may return.
Joined == (\A m \in J!Node : ret[m] = "ok") \/ (\E m \in J!Node : ret[m] = "err")

\* What the receiver says of its future is so, and it is told to return only
\* once both futures have succeeded or one has failed.
JoinInv ==
    /\ ret \in [J!Node -> J!Ret]
    /\ value \in [J!Node -> J!Ret \cup {"pending"}]
    /\ chan \in [J!Node -> Seq(JoinPacket)]
    /\ \A p \in Carried(chan["initiator"]) :
          /\ J!implies_success(p) => ret["receiver"] = "ok"
          /\ J!implies_failure(p) => ret["receiver"] = "err"
    /\ \A p \in Carried(chan["receiver"]) : p \in J!Resolution => Joined
    /\ \A n \in J!Node : value[n] # "pending" => Joined

\* At the start of try_join nothing is on its way and nobody has returned.
LEMMA JoinInit == J!Init => JoinInv
  <1> SUFFICES ASSUME J!Init PROVE JoinInv
    OBVIOUS
  <1>1. /\ chan["initiator"] = <<>> /\ chan["receiver"] = <<>>
        /\ \A n \in J!Node : value[n] = "pending"
    BY DEF J!Init, J!Node
  <1>2. /\ ret \in [J!Node -> J!Ret] /\ value \in [J!Node -> J!Ret \cup {"pending"}]
        /\ chan \in [J!Node -> Seq(JoinPacket)]
    BY SMTT(30) DEF J!Init, J!Ret
  <1> QED
    BY <1>1, <1>2, NoStream DEF JoinInv

\* The future of a node returns: a state is sent.
LEMMA JoinComplete ==
    ASSUME JoinInv, NEW n \in J!Node, NEW r \in {"ok", "err"}, J!Complete(n, r)
    PROVE  JoinInv'
  <1> DEFINE m == J!Peer(n)
             p == IF r = "ok" THEN "ObtainedValidResult" ELSE "Error"
  <1>1. /\ m \in J!Node /\ m # n /\ p \in JoinPacket /\ p \notin J!Resolution
        /\ chan[m] \in Seq(JoinPacket) /\ chan[n] \in Seq(JoinPacket)
        /\ \A x \in J!Node : x = n \/ x = m
    BY DEF J!Node, J!Peer, JoinPacket, J!Resolution, JoinInv
  <1>2. chan' = [chan EXCEPT ![m] = Append(chan[m], p)]
    BY DEF J!Complete
  <1>3. /\ Append(chan[m], p) \in Seq(JoinPacket)
        /\ Carried(Append(chan[m], p)) = Carried(chan[m]) \cup {p}
    BY SMTT(30), <1>1, Streams
  <1>4. p \in {"ObtainedValidResult", "Error"} /\ (p = "Error" <=> r = "err")
    OBVIOUS
  <1> HIDE DEF m, p
  <1>5. /\ chan'[m] = Append(chan[m], p) /\ chan'[n] = chan[n]
        /\ ret'[n] = r /\ ret'[m] = ret[m] /\ ret[n] = "none" /\ value' = value
    BY <1>1, <1>2 DEF J!Complete, JoinInv
  <1>6. ret' \in [J!Node -> J!Ret]
    BY DEF J!Complete, JoinInv, J!Ret
  <1>7. chan' \in [J!Node -> Seq(JoinPacket)]
    BY <1>2, <1>3 DEF JoinInv
  <1>8. Joined => Joined'
    BY <1>1, <1>5 DEF Joined
  <1>9. CASE n = "initiator" /\ m = "receiver"
    BY <1>1, <1>3, <1>5, <1>6, <1>7, <1>8, <1>9 DEF JoinInv
  <1>10. CASE n = "receiver" /\ m = "initiator"
    <2>1. \A x \in Carried(chan'["initiator"]) :
             /\ J!implies_success(x) => ret'["receiver"] = "ok"
             /\ J!implies_failure(x) => ret'["receiver"] = "err"
      BY <1>3, <1>4, <1>5, <1>10 DEF JoinInv, J!implies_success, J!implies_failure
    <2> QED
      BY <1>5, <1>6, <1>7, <1>8, <1>10, <2>1 DEF JoinInv
  <1> QED
    BY <1>1, <1>9, <1>10 DEF J!Node

\* An evaluator reads a state and answers it: the streams.
LEMMA JoinAnswer ==
    ASSUME JoinInv, NEW n \in J!Node, chan[n] # <<>>, NEW p \in JoinPacket,
           J!Answer(n, <<p>>) \/ J!Answer(n, <<>>)
    PROVE  /\ chan' \in [J!Node -> Seq(JoinPacket)]
           /\ Carried(chan'[n]) \subseteq Carried(chan[n])
           /\ Head(chan[n]) \in Carried(chan[n]) /\ Head(chan[n]) \in JoinPacket
           /\ J!Answer(n, <<p>>) =>
                Carried(chan'[J!Peer(n)]) = Carried(chan[J!Peer(n)]) \cup {p}
           /\ J!Answer(n, <<>>) => chan'[J!Peer(n)] = chan[J!Peer(n)]
  <1> DEFINE m == J!Peer(n)
  <1>1. /\ m \in J!Node /\ m # n /\ \A x \in J!Node : x = n \/ x = m
        /\ chan[m] \in Seq(JoinPacket) /\ chan[n] \in Seq(JoinPacket)
    BY DEF J!Node, J!Peer, JoinInv
  <1> HIDE DEF m
  <1>2. /\ chan[m] \o <<>> = chan[m] /\ chan[m] \o <<p>> \in Seq(JoinPacket)
        /\ Carried(chan[m] \o <<p>>) = Carried(chan[m]) \cup {p}
        /\ Tail(chan[n]) \in Seq(JoinPacket)
        /\ Carried(Tail(chan[n])) \subseteq Carried(chan[n])
        /\ Head(chan[n]) \in Carried(chan[n]) /\ Head(chan[n]) \in JoinPacket
    <2>1. /\ chan[m] \o <<>> = chan[m] /\ chan[m] \o <<p>> \in Seq(JoinPacket)
          /\ Carried(chan[m] \o <<p>>) = Carried(chan[m]) \cup {p}
      BY <1>1, StreamSends
    <2>2. /\ Tail(chan[n]) \in Seq(JoinPacket) /\ Head(chan[n]) \in JoinPacket
          /\ Carried(Tail(chan[n])) \subseteq Carried(chan[n]) /\ Head(chan[n]) \in Carried(chan[n])
      BY <1>1, StreamReads
    <2> QED
      BY <2>1, <2>2
  <1>3. CASE J!Answer(n, <<p>>)
    <2>1. chan' = [x \in J!Node |-> IF x = n THEN Tail(chan[x]) ELSE chan[x] \o <<p>>]
      BY <1>3 DEF J!Answer
    <2>2. chan'[n] = Tail(chan[n]) /\ chan'[m] = chan[m] \o <<p>>
      BY <1>1, <2>1
    <2>3. chan' \in [J!Node -> Seq(JoinPacket)]
      BY <1>1, <1>2, <2>1, <2>2
    <2>4. J!Answer(n, <<>>) => chan'[m] = chan[m]
      BY <1>1, <1>2 DEF J!Answer
    <2> QED
      BY <1>2, <2>2, <2>3, <2>4 DEF m
  <1>4. CASE J!Answer(n, <<>>)
    <2>1. chan' = [x \in J!Node |-> IF x = n THEN Tail(chan[x]) ELSE chan[x] \o <<>>]
      BY <1>4 DEF J!Answer
    <2>2. chan'[n] = Tail(chan[n]) /\ chan'[m] = chan[m]
      BY <1>1, <1>2, <2>1
    <2>3. chan' \in [J!Node -> Seq(JoinPacket)]
      BY <1>1, <1>2, <2>1, <2>2
    <2>4. J!Answer(n, <<p>>) => chan'[m] = chan[m] \o <<p>>
      BY <1>1 DEF J!Answer
    <2> QED
      BY <1>2, <2>2, <2>3, <2>4 DEF m
  <1> QED
    BY <1>3, <1>4

\* The states a node sends while the call is open.
LEMMA JoinPings ==
    ASSUME NEW r \in J!Ret
    PROVE  /\ J!Pinging(r) \in JoinPacket /\ J!Pinging(r) \notin J!Resolution
           /\ J!implies_success(J!Pinging(r)) => r = "ok"
           /\ J!implies_failure(J!Pinging(r)) => r = "err"
  BY DEF J!Ret, J!Pinging, JoinPacket, J!Resolution, J!implies_success, J!implies_failure

\* The initiator resolves, or asks again.
LEMMA JoinPreferred ==
    ASSUME JoinInv, J!EvaluatePreferred
    PROVE  JoinInv'
  <1> DEFINE p == Head(chan["initiator"])
             o == J!Resolves(ret["initiator"], p)
             x == J!Pinging(ret["initiator"])
  <1>1. /\ "initiator" \in J!Node /\ J!Peer("initiator") = "receiver" /\ "receiver" \in J!Node
        /\ \A y \in J!Node : y = "initiator" \/ y = "receiver"
        /\ ret["initiator"] \in J!Ret /\ ret' = ret /\ chan["initiator"] # <<>>
    BY DEF JoinInv, J!Node, J!Peer, J!EvaluatePreferred
  <1>2. Joined <=> Joined'
    BY <1>1 DEF Joined
  <1>3. CASE /\ o \in J!Resolution /\ value' = [value EXCEPT !["initiator"] = ret["initiator"]]
             /\ J!Answer("initiator", <<o>>)
    <2>1. o \in JoinPacket
      BY <1>3 DEF JoinPacket
    <2>2. /\ chan' \in [J!Node -> Seq(JoinPacket)]
          /\ Carried(chan'["initiator"]) \subseteq Carried(chan["initiator"])
          /\ p \in Carried(chan["initiator"])
          /\ Carried(chan'["receiver"]) = Carried(chan["receiver"]) \cup {o}
      BY <1>1, <1>3, <2>1, JoinAnswer
    <2>3. \/ J!implies_failure(p) \/ ret["initiator"] = "err"
          \/ J!implies_success(p) /\ ret["initiator"] = "ok"
      BY <1>3 DEF J!Resolves, J!Resolution
    <2>4. Joined
      BY <1>1, <2>2, <2>3 DEF JoinInv, Joined
    <2>5. value' \in [J!Node -> J!Ret \cup {"pending"}]
      BY <1>1, <1>3 DEF JoinInv
    <2> HIDE DEF p, o
    <2> QED
      BY <1>1, <1>2, <2>2, <2>4, <2>5 DEF JoinInv
  <1>4. CASE value' = value /\ J!Answer("initiator", <<x>>)
    <2>1. x \in JoinPacket /\ x \notin J!Resolution
      BY <1>1, JoinPings
    <2>2. /\ chan' \in [J!Node -> Seq(JoinPacket)]
          /\ Carried(chan'["initiator"]) \subseteq Carried(chan["initiator"])
          /\ Carried(chan'["receiver"]) = Carried(chan["receiver"]) \cup {x}
      BY <1>1, <1>4, <2>1, JoinAnswer
    <2> HIDE DEF x
    <2> QED
      BY <1>1, <1>2, <1>4, <2>1, <2>2 DEF JoinInv
  <1> QED
    BY <1>3, <1>4 DEF J!EvaluatePreferred

\* The receiver is told to return, or says how far it is.
LEMMA JoinOther ==
    ASSUME JoinInv, J!EvaluateOther
    PROVE  JoinInv'
  <1> DEFINE p == Head(chan["receiver"])
             x == J!Pinging(ret["receiver"])
  <1>1. /\ "initiator" \in J!Node /\ J!Peer("receiver") = "initiator" /\ "receiver" \in J!Node
        /\ \A y \in J!Node : y = "initiator" \/ y = "receiver"
        /\ ret["receiver"] \in J!Ret /\ ret' = ret /\ chan["receiver"] # <<>>
    BY DEF JoinInv, J!Node, J!Peer, J!EvaluateOther
  <1>2. Joined <=> Joined'
    BY <1>1 DEF Joined
  <1>3. CASE /\ p \in J!Resolution /\ value' = [value EXCEPT !["receiver"] = ret["receiver"]]
             /\ J!Answer("receiver", <<>>)
    <2>1. p \in JoinPacket
      BY <1>3 DEF JoinPacket
    <2>2. /\ chan' \in [J!Node -> Seq(JoinPacket)] /\ chan'["initiator"] = chan["initiator"]
          /\ Carried(chan'["receiver"]) \subseteq Carried(chan["receiver"])
          /\ p \in Carried(chan["receiver"])
      BY <1>1, <1>3, <2>1, JoinAnswer
    <2>3. Joined
      BY <1>3, <2>2 DEF JoinInv
    <2>4. value' \in [J!Node -> J!Ret \cup {"pending"}]
      BY <1>1, <1>3 DEF JoinInv
    <2> HIDE DEF p
    <2> QED
      BY <1>1, <1>2, <2>2, <2>3, <2>4 DEF JoinInv
  <1>4. CASE value' = value /\ J!Answer("receiver", <<x>>)
    <2>1. /\ x \in JoinPacket
          /\ J!implies_success(x) => ret["receiver"] = "ok"
          /\ J!implies_failure(x) => ret["receiver"] = "err"
      BY <1>1, JoinPings
    <2>2. /\ chan' \in [J!Node -> Seq(JoinPacket)]
          /\ Carried(chan'["receiver"]) \subseteq Carried(chan["receiver"])
          /\ Carried(chan'["initiator"]) = Carried(chan["initiator"]) \cup {x}
      BY <1>1, <1>4, <2>1, JoinAnswer
    <2> HIDE DEF x
    <2> QED
      BY <1>1, <1>2, <1>4, <2>1, <2>2 DEF JoinInv
  <1> QED
    BY <1>3, <1>4 DEF J!EvaluateOther

\* The result of try_join follows.
LEMMA JoinHolds == JoinInv => J!JoinedOrFailed
  BY DEF JoinInv, Joined, J!JoinedOrFailed

-----------------------------------------------------------------------------
(* The synchronised start *)

Syn    == [type |-> "Syn", of |-> "receiver"]
SynAck == [type |-> "SynAck", of |-> "initiator"]
Ack    == [type |-> "Ack", of |-> due["receiver"]]

Asleep == {"sleep", "done"}

\* How far the exchange is: which packet is on its way, and what each node knows.
StartStage ==
    LET r == step["receiver"]
        i == step["initiator"]
    IN  \/ r = "call" /\ i = "syn" /\ chan["initiator"] = <<>> /\ chan["receiver"] = <<>>
        \/ r = "syn_ack" /\ i = "syn" /\ chan["initiator"] = <<Syn>> /\ chan["receiver"] = <<>>
        \/ /\ r = "syn_ack" /\ i = "ack" /\ chan["initiator"] = <<>>
           /\ chan["receiver"] = <<SynAck>>
           /\ payload["initiator"] = "receiver"
        \/ /\ r \in Asleep /\ chan["receiver"] = <<>>
           /\ payload["initiator"] = "receiver" /\ payload["receiver"] = "initiator"
           /\ \/ i = "ack" /\ chan["initiator"] = <<Ack>>
              \/ /\ i \in Asleep /\ chan["initiator"] = <<>>
                 /\ due["initiator"] = IF due["receiver"] > got + skew
                                       THEN got + (due["receiver"] - (got + skew)) ELSE got

StartInv ==
    /\ clock \in Nat /\ syn \in Nat /\ got \in Nat /\ syn <= clock /\ skew \in Int
    /\ step \in [T!Node -> {"call", "syn", "syn_ack", "ack", "sleep", "done"}]
    /\ due \in [T!Node -> Nat] /\ started \in [T!Node -> Nat]
    /\ payload \in [T!Node -> {"none", "initiator", "receiver"}]
    /\ DOMAIN chan = T!Node
    /\ \A n \in T!Node : step[n] = "done" => started[n] = due[n]
    /\ StartStage

\* At the start of the synchronised start no packet has been sent.
LEMMA StartInit == T!Init => StartInv
  <1> SUFFICES ASSUME T!Init PROVE StartInv
    OBVIOUS
  <1>1. T!Never \in Nat /\ skew \in Int
    BY SMTT(30), NetOperationsAssumption DEF T!Never, T!Init
  <1>2. StartStage
    BY DEF T!Init, StartStage, T!Node
  <1> QED
    BY SMTT(30), <1>1, <1>2 DEF T!Init, StartInv, T!Node

\* A packet that is on its way says at which stage the exchange is.
LEMMA StartIncoming ==
    ASSUME StartInv
    PROVE  /\ T!Incoming("initiator", "Syn") => chan["initiator"] = <<Syn>>
           /\ T!Incoming("receiver", "SynAck") => chan["receiver"] = <<SynAck>>
           /\ T!Incoming("initiator", "Ack") => chan["initiator"] = <<Ack>>
  <1>1. /\ Head(<<Syn>>).type = "Syn" /\ Head(<<SynAck>>).type = "SynAck"
        /\ Head(<<Ack>>).type = "Ack"
    BY SMTT(30) DEF Syn, SynAck, Ack
  <1> QED
    BY <1>1 DEF T!Incoming, StartInv, StartStage

\* The receiver sends its Syn.
LEMMA StartSendSyn == ASSUME StartInv, T!SendSyn PROVE StartInv'
  <1>1. StartStage'
    BY DEF StartInv, StartStage, T!SendSyn, Syn, Asleep, T!Node
  <1> QED
    BY SMTT(30), <1>1 DEF StartInv, T!SendSyn, T!Node

\* The initiator takes the Syn, with the receiver's payload, and answers.
LEMMA StartRecvSyn == ASSUME StartInv, T!RecvSyn PROVE StartInv'
  <1>1. chan["initiator"] = <<Syn>> /\ Head(chan["initiator"]).of = "receiver"
    BY SMTT(30), StartIncoming DEF T!RecvSyn, Syn
  <1>2. chan'["initiator"] = <<>> /\ chan'["receiver"] = <<SynAck>> /\ DOMAIN chan' = T!Node
    BY DEF T!RecvSyn, SynAck, T!Node
  <1>3. /\ step' = [step EXCEPT !["initiator"] = "ack"]
        /\ payload' = [payload EXCEPT !["initiator"] = "receiver"]
        /\ UNCHANGED <<clock, skew, due, syn, got, started>>
    BY <1>1 DEF T!RecvSyn
  <1>4. step["receiver"] = "syn_ack"
    BY SMTT(30), <1>1 DEF StartInv, StartStage, T!RecvSyn, Asleep
  <1>5. StartStage'
    BY <1>2, <1>3, <1>4 DEF StartInv, StartStage, T!Node
  <1> QED
    BY <1>2, <1>3, <1>5 DEF StartInv, T!Node

\* The receiver takes the answer and fixes the time to start at.
LEMMA StartRecvSynAck == ASSUME StartInv, T!RecvSynAck PROVE StartInv'
  <1>1. chan["receiver"] = <<SynAck>> /\ Head(chan["receiver"]).of = "initiator"
    BY SMTT(30), StartIncoming DEF T!RecvSynAck, SynAck
  <1>2. T!SyncTime \in Nat
    BY SMTT(30) DEF T!SyncTime, StartInv
  <1>3. /\ step' = [step EXCEPT !["receiver"] = "sleep"]
        /\ payload' = [payload EXCEPT !["receiver"] = "initiator"]
        /\ due' = [due EXCEPT !["receiver"] = T!SyncTime]
        /\ UNCHANGED <<clock, skew, syn, got, started>>
    BY <1>1 DEF T!RecvSynAck
  <1>4. due'["receiver"] = T!SyncTime
    BY <1>3 DEF StartInv, T!Node
  <1>5. chan'["receiver"] = <<>> /\ chan'["initiator"] = <<Ack'>> /\ DOMAIN chan' = T!Node
    BY <1>4 DEF T!RecvSynAck, Ack, T!Node
  <1>6. step["initiator"] = "ack" /\ payload["initiator"] = "receiver"
    BY SMTT(30), <1>1 DEF StartInv, StartStage, T!RecvSynAck, Asleep
  <1>7. StartStage'
    BY <1>3, <1>5, <1>6 DEF StartInv, StartStage, T!Node, Asleep
  <1> QED
    BY <1>2, <1>3, <1>5, <1>7 DEF StartInv, T!Node

\* The initiator takes that time, which may have passed.
LEMMA StartRecvAck == ASSUME StartInv, T!RecvAck PROVE StartInv'
  <1>1. chan["initiator"] = <<Ack>> /\ Head(chan["initiator"]).of = due["receiver"]
    BY SMTT(30), StartIncoming DEF T!RecvAck, Ack
  <1>2. /\ step' = [step EXCEPT !["initiator"] = "sleep"] /\ got' = clock
        /\ due' = [due EXCEPT !["initiator"] = T!Wakes(due["receiver"])]
        /\ chan' = [chan EXCEPT !["initiator"] = <<>>]
        /\ UNCHANGED <<clock, skew, syn, payload, started>>
    BY <1>1 DEF T!RecvAck
  <1>3. /\ T!Wakes(due["receiver"]) = IF due["receiver"] > got' + skew'
                                      THEN got' + (due["receiver"] - (got' + skew')) ELSE got'
        /\ T!Wakes(due["receiver"]) \in Nat
    <2>1. due["receiver"] \in Nat /\ clock \in Nat /\ skew \in Int
      BY DEF StartInv, T!Node
    <2> QED
      BY SMTT(30), <1>2, <2>1 DEF T!Wakes
  <1>4. /\ step["receiver"] \in Asleep /\ chan["receiver"] = <<>>
        /\ payload["initiator"] = "receiver" /\ payload["receiver"] = "initiator"
    <2>1. step["initiator"] = "ack" /\ <<Ack>> # <<>>
      BY DEF T!RecvAck
    <2> QED
      BY <1>1, <2>1 DEF StartInv, StartStage, Asleep
  <1>5. StartStage'
    BY <1>2, <1>3, <1>4 DEF StartInv, StartStage, T!Node, Asleep
  <1> QED
    BY <1>2, <1>3, <1>5 DEF StartInv, T!Node

\* A node starts at the time it knows.
LEMMA StartExecute == ASSUME StartInv, NEW n \in T!Node, T!Execute(n) PROVE StartInv'
  <1>1. /\ step[n] = "sleep" /\ step' = [step EXCEPT ![n] = "done"]
        /\ started' = [started EXCEPT ![n] = clock] /\ clock = due[n]
        /\ UNCHANGED <<clock, skew, due, syn, got, payload, chan>>
    BY DEF T!Execute
  <1>2. Ack' = Ack
    BY <1>1 DEF Ack
  <1>3. StartStage'
    BY <1>1, <1>2 DEF StartInv, StartStage, T!Node, Asleep
  <1> QED
    BY <1>1, <1>3 DEF StartInv, T!Node

\* Time passes, but not beyond a start that is due.
LEMMA StartTick == ASSUME StartInv, T!Tick PROVE StartInv'
  <1>1. /\ clock' = clock + 1 /\ UNCHANGED <<skew, step, due, syn, got, payload, started, chan>>
    BY DEF T!Tick
  <1>2. Ack' = Ack
    BY <1>1 DEF Ack
  <1>3. StartStage'
    BY <1>1, <1>2 DEF StartInv, StartStage
  <1> QED
    BY SMTT(30), <1>1, <1>3 DEF StartInv

\* The results of the synchronised start follow.
LEMMA StartHolds == StartInv => T!ExchangedBeforeStart /\ T!StartsTogether
  <1> SUFFICES ASSUME StartInv PROVE T!ExchangedBeforeStart /\ T!StartsTogether
    OBVIOUS
  <1>1. T!ExchangedBeforeStart
    <2> SUFFICES ASSUME NEW n \in T!Node, step[n] = "done"
                 PROVE  payload = [initiator |-> "receiver", receiver |-> "initiator"]
      BY DEF T!ExchangedBeforeStart, T!HasStarted
    <2>1. payload["initiator"] = "receiver" /\ payload["receiver"] = "initiator"
      BY DEF StartInv, StartStage, T!Node, Asleep
    <2> QED
      BY <2>1 DEF StartInv, T!Node
  <1>2. T!StartsTogether
    <2> SUFFICES ASSUME step["initiator"] = "done", step["receiver"] = "done"
                 PROVE  \/ started["initiator"] + skew = started["receiver"]
                        \/ started["initiator"] = got /\ got + skew > started["receiver"]
      BY DEF T!StartsTogether, T!HasStarted, T!Node
    <2>1. due["initiator"] = IF due["receiver"] > got + skew
                             THEN got + (due["receiver"] - (got + skew)) ELSE got
      BY DEF StartInv, StartStage, Asleep
    <2>2. /\ started["initiator"] = due["initiator"] /\ started["receiver"] = due["receiver"]
          /\ due["receiver"] \in Nat /\ got \in Nat /\ skew \in Int
      BY DEF StartInv, T!Node
    <2> QED
      BY SMTT(30), <2>1, <2>2
  <1> QED
    BY <1>1, <1>2

-----------------------------------------------------------------------------
(* The channel *)

Halts == {"halting", "waiting"}

ChannelPacket == {"Packet", "Halt", "HaltVerified"}

\* No packet but an item is on its way twice.
OnlyItemsRepeat == {pq \in ChannelPacket \X ChannelPacket : pq[1] = pq[2] => pq[1] = "Packet"}

\* What is known of the halves of n and m and of the packets to n and to m.
ChannelEnd(n, m) ==
    /\ (node[n].recv \in {"open", "dropped"} /\ node[n].recv_halt) =>
          /\ node[m].recv \in Halts /\ "Halt" \notin Carried(chan[n])
          /\ "HaltVerified" \notin Carried(chan[m])
    /\ "Halt" \in Carried(chan[n]) => node[m].recv \in Halts /\ node[n].recv # "done"
    /\ "HaltVerified" \in Carried(chan[n]) => node[n].recv \in Halts /\ node[m].recv = "done"
    /\ node[n].recv = "done" => node[m].recv \in Halts \cup {"done"}
    /\ Ordered(chan[n], OnlyItemsRepeat)

\* A node was halted by a Halt that it has taken from its stream, and it has not
\* verified that yet; a Halt or its verification is on its way once.
ChannelInv ==
    /\ B!TypeOK
    /\ \A n \in B!Node : ChannelEnd(n, B!Peer(n))

\* A channel starts with both halves of both nodes open and the streams empty.
LEMMA ChannelInit == B!Init => ChannelInv
  <1> SUFFICES ASSUME B!Init PROVE ChannelInv
    OBVIOUS
  <1>1. B!TypeOK
    BY SMTT(30), NetOperationsAssumption DEF B!Init, B!TypeOK, B!Node, B!NodeType
  <1>2. ASSUME NEW n \in B!Node PROVE node[n].recv = "open" /\ ~node[n].recv_halt /\ chan[n] = <<>>
    BY DEF B!Init
  <1>3. ASSUME NEW n \in B!Node PROVE B!Peer(n) \in B!Node
    BY DEF B!Peer, B!Node
  <1>4. Ordered(<<>>, OnlyItemsRepeat)
    BY SMTT(30) DEF Ordered
  <1> QED
    BY <1>1, <1>2, <1>3, <1>4, NoStream DEF ChannelInv, ChannelEnd

\* The two nodes.
LEMMA ChannelNodes ==
    ASSUME NEW n \in B!Node
    PROVE  /\ B!Peer(n) \in B!Node /\ B!Peer(n) # n /\ B!Peer(B!Peer(n)) = n
           /\ \A x \in B!Node : x = n \/ x = B!Peer(n)
  BY DEF B!Node, B!Peer

\* A packet is sent.
LEMMA ChannelSend ==
    ASSUME ChannelInv, NEW n \in B!Node, NEW p \in ChannelPacket, B!Send(n, p)
    PROVE  /\ chan' \in [B!Node -> Seq(ChannelPacket)] /\ chan'[n] = chan[n]
           /\ Carried(chan'[B!Peer(n)]) = Carried(chan[B!Peer(n)]) \cup {p}
           /\ (p = "Packet" \/ p \notin Carried(chan[B!Peer(n)])) =>
                 Ordered(chan'[B!Peer(n)], OnlyItemsRepeat)
  <1> DEFINE m == B!Peer(n)
  <1>1. /\ m \in B!Node /\ m # n /\ chan[m] \in Seq(ChannelPacket)
        /\ chan \in [B!Node -> Seq(ChannelPacket)] /\ Ordered(chan[m], OnlyItemsRepeat)
    BY ChannelNodes DEF ChannelInv, B!TypeOK, ChannelPacket, ChannelEnd
  <1>2. chan' = [chan EXCEPT ![m] = Append(chan[m], p)]
    BY DEF B!Send
  <1> HIDE DEF m
  <1>3. /\ Append(chan[m], p) \in Seq(ChannelPacket)
       
        /\ Carried(Append(chan[m], p)) = Carried(chan[m]) \cup {p}
    BY SMTT(30), <1>1, Streams
  <1>4. /\ chan'[m] = Append(chan[m], p) /\ chan'[n] = chan[n]
        /\ chan' \in [B!Node -> Seq(ChannelPacket)]
    BY <1>1, <1>2, <1>3
  <1>5. ASSUME p = "Packet" \/ p \notin Carried(chan[m])
        PROVE  Ordered(Append(chan[m], p), OnlyItemsRepeat)
    <2>1. \A q \in Carried(chan[m]) : q \in ChannelPacket
      BY SMTT(30), <1>1 DEF Carried
    <2>2. \A q \in Carried(chan[m]) : <<q, p>> \in OnlyItemsRepeat
      BY <1>5, <2>1 DEF OnlyItemsRepeat
    <2> QED
      BY <1>1, <2>2, Orders
  <1> QED
    BY <1>3, <1>4, <1>5 DEF m

\* A packet is read.
LEMMA ChannelConsume ==
    ASSUME ChannelInv, NEW n \in B!Node, chan[n] # <<>>, B!Consume(n)
    PROVE  /\ chan' \in [B!Node -> Seq(ChannelPacket)] /\ chan'[B!Peer(n)] = chan[B!Peer(n)]
           /\ Carried(chan[n]) = {Head(chan[n])} \cup Carried(chan'[n])
           /\ Head(chan[n]) \in ChannelPacket
           /\ Head(chan[n]) # "Packet" => Head(chan[n]) \notin Carried(chan'[n])
           /\ Ordered(chan'[n], OnlyItemsRepeat)
  <1> DEFINE m == B!Peer(n)
             c == chan[n]
  <1>1. /\ m \in B!Node /\ m # n /\ c \in Seq(ChannelPacket)
        /\ chan \in [B!Node -> Seq(ChannelPacket)] /\ Ordered(c, OnlyItemsRepeat)
    BY ChannelNodes DEF ChannelInv, B!TypeOK, ChannelPacket, ChannelEnd
  <1>2. chan' = [chan EXCEPT ![n] = Tail(c)] /\ c # <<>>
    BY DEF B!Consume
  <1>3. /\ Tail(c) \in Seq(ChannelPacket) /\ Head(c) \in ChannelPacket
        /\ Carried(c) = {Head(c)} \cup Carried(Tail(c))
    BY <1>1, <1>2, Streams
  <1>4. /\ Ordered(Tail(c), OnlyItemsRepeat)
        /\ \A q \in Carried(Tail(c)) : <<Head(c), q>> \in OnlyItemsRepeat
    BY <1>1, <1>2, Orders
  <1> HIDE DEF m, c
  <1>5. chan'[n] = Tail(c) /\ chan'[m] = chan[m] /\ chan' \in [B!Node -> Seq(ChannelPacket)]
    BY <1>1, <1>2, <1>3
  <1>6. Head(c) # "Packet" => Head(c) \notin Carried(Tail(c))
    BY <1>4 DEF OnlyItemsRepeat
  <1> QED
    BY <1>3, <1>4, <1>5, <1>6 DEF m, c

\* It is enough to look at the node that takes the step and at its peer.
LEMMA ChannelStep ==
    ASSUME ChannelInv, NEW n \in B!Node, NEW s \in B!NodeType, B!Becomes(n, s),
           chan' \in [B!Node -> Seq(ChannelPacket)],
           ChannelEnd(n, B!Peer(n))', ChannelEnd(B!Peer(n), n)'
    PROVE  ChannelInv'
  <1>1. B!TypeOK'
    BY DEF ChannelInv, B!TypeOK, B!Becomes, ChannelPacket
  <1> QED
    BY <1>1, ChannelNodes DEF ChannelInv

\* Only the flags that count for nobody change.
LEMMA ChannelSendItem ==
    ASSUME ChannelInv, NEW n \in B!Node, B!SendItem(n)
    PROVE  ChannelInv'
  <1> DEFINE m == B!Peer(n)
             s == [node[n] EXCEPT !.sending = TRUE, !.items = @ + 1]
  <1>1. /\ node[n] \in B!NodeType /\ m \in B!Node /\ m # n /\ B!Peer(m) = n
        /\ node \in [B!Node -> B!NodeType] /\ chan \in [B!Node -> Seq(ChannelPacket)]
        /\ ChannelEnd(n, m) /\ ChannelEnd(m, n)
    BY ChannelNodes DEF ChannelInv, B!TypeOK, ChannelPacket
  <1>2. s \in B!NodeType /\ s.recv = node[n].recv /\ s.recv_halt = node[n].recv_halt
    <2>1. node[n].items + 1 \in 0..MaxItems
      BY SMTT(30), <1>1, NetOperationsAssumption DEF B!NodeType, B!SendItem
    <2>2. s = [node[n] EXCEPT !.sending = TRUE, !.items = node[n].items + 1]
      OBVIOUS
    <2> QED
      BY <1>1, <2>1, <2>2 DEF B!NodeType
  <1>3. B!Becomes(n, s) /\ chan' = chan
    BY DEF B!SendItem
  <1> HIDE DEF m, s
  <1>4. node'[n] = s /\ node'[m] = node[m]
    BY <1>1, <1>3 DEF B!Becomes
  <1>5. ChannelEnd(n, m)' /\ ChannelEnd(m, n)'
    BY <1>1, <1>2, <1>3, <1>4 DEF ChannelEnd
  <1> QED
    BY <1>1, <1>2, <1>3, <1>5, ChannelStep DEF m

\* An item is sent: it neither halts nor verifies.
LEMMA ChannelSendsItem ==
    ASSUME ChannelInv, NEW n \in B!Node, B!SendsItem(n)
    PROVE  ChannelInv'
  <1> DEFINE m == B!Peer(n)
             s == [node[n] EXCEPT !.sending = FALSE]
  <1>1. /\ node[n] \in B!NodeType /\ m \in B!Node /\ m # n /\ B!Peer(m) = n
        /\ node \in [B!Node -> B!NodeType] /\ ChannelEnd(n, m) /\ ChannelEnd(m, n)
    BY ChannelNodes DEF ChannelInv, B!TypeOK
  <1>2. s \in B!NodeType /\ s.recv = node[n].recv /\ s.recv_halt = node[n].recv_halt
    BY <1>1 DEF B!NodeType
  <1>3. B!Becomes(n, s) /\ B!Send(n, "Packet") /\ "Packet" \in ChannelPacket
    BY DEF B!SendsItem, ChannelPacket
  <1>4. /\ chan' \in [B!Node -> Seq(ChannelPacket)] /\ chan'[n] = chan[n]
        /\ Carried(chan'[m]) = Carried(chan[m]) \cup {"Packet"}
        /\ Ordered(chan'[m], OnlyItemsRepeat)
    BY <1>3, ChannelSend
  <1> HIDE DEF m, s
  <1>5. node'[n] = s /\ node'[m] = node[m]
    BY <1>1, <1>3 DEF B!Becomes
  <1>6. ChannelEnd(n, m)' /\ ChannelEnd(m, n)'
    BY <1>1, <1>2, <1>4, <1>5 DEF ChannelEnd
  <1> QED
    BY <1>1, <1>2, <1>3, <1>4, <1>6, ChannelStep DEF m

\* A Halt is taken from the stream while the receiving half is in use.
LEMMA ChannelRecv ==
    ASSUME ChannelInv, NEW n \in B!Node, B!Recv(n)
    PROVE  ChannelInv'
  <1> DEFINE m == B!Peer(n)
             p == Head(chan[n])
             s == [node[n] EXCEPT !.recv_halt = p # "Packet"]
  <1>1. /\ node[n] \in B!NodeType /\ m \in B!Node /\ m # n /\ B!Peer(m) = n
        /\ node \in [B!Node -> B!NodeType] /\ ChannelEnd(n, m) /\ ChannelEnd(m, n)
        /\ node[n].recv = "open"
    BY SMTT(30), ChannelNodes DEF ChannelInv, B!TypeOK, B!Recv
  <1>2. s \in B!NodeType /\ s.recv = node[n].recv /\ s.recv_halt = (p # "Packet")
    BY <1>1 DEF B!NodeType
  <1>3. B!Becomes(n, s) /\ B!Consume(n) /\ chan[n] # <<>>
    BY DEF B!Recv
  <1>4. /\ chan' \in [B!Node -> Seq(ChannelPacket)] /\ chan'[m] = chan[m]
        /\ Carried(chan[n]) = {p} \cup Carried(chan'[n]) /\ p \in ChannelPacket
        /\ p # "Packet" => p \notin Carried(chan'[n])
        /\ Ordered(chan'[n], OnlyItemsRepeat)
    BY <1>3, ChannelConsume
  <1> HIDE DEF m, s, p
  <1>5. node'[n] = s /\ node'[m] = node[m]
    BY <1>1, <1>3 DEF B!Becomes
  <1>6. p # "HaltVerified" /\ "HaltVerified" \notin Carried(chan[m])
    BY <1>1, <1>4 DEF ChannelEnd, Halts
  <1>7. p = "Packet" \/ p = "Halt"
    BY <1>4, <1>6 DEF ChannelPacket
  <1>8. ChannelEnd(n, m)'
    BY <1>1, <1>2, <1>4, <1>5, <1>6, <1>7 DEF ChannelEnd
  <1>9. ChannelEnd(m, n)'
    BY <1>1, <1>2, <1>4, <1>5, <1>6, <1>7 DEF ChannelEnd, Halts
  <1> QED
    BY <1>1, <1>2, <1>3, <1>4, <1>8, <1>9, ChannelStep DEF m

\* The receiving half is dropped.
LEMMA ChannelDropRecv ==
    ASSUME ChannelInv, NEW n \in B!Node, B!DropRecv(n)
    PROVE  ChannelInv'
  <1> DEFINE m == B!Peer(n)
             s == [node[n] EXCEPT !.recv = "dropped"]
  <1>1. /\ node[n] \in B!NodeType /\ m \in B!Node /\ m # n /\ B!Peer(m) = n
        /\ node \in [B!Node -> B!NodeType] /\ chan \in [B!Node -> Seq(ChannelPacket)]
        /\ ChannelEnd(n, m) /\ ChannelEnd(m, n) /\ node[n].recv = "open"
    BY ChannelNodes DEF ChannelInv, B!TypeOK, ChannelPacket, B!DropRecv
  <1>2. s \in B!NodeType /\ s.recv = "dropped" /\ s.recv_halt = node[n].recv_halt
    BY <1>1 DEF B!NodeType
  <1>3. B!Becomes(n, s) /\ chan' = chan
    BY DEF B!DropRecv
  <1> HIDE DEF m, s
  <1>4. node'[n] = s /\ node'[m] = node[m]
    BY <1>1, <1>3 DEF B!Becomes
  <1>5. ChannelEnd(n, m)' /\ ChannelEnd(m, n)'
    BY <1>1, <1>2, <1>3, <1>4 DEF ChannelEnd, Halts
  <1> QED
    BY <1>1, <1>2, <1>3, <1>5, ChannelStep DEF m

\* Who was halted verifies it, who was not halts the other node.
LEMMA ChannelDropTask ==
    ASSUME ChannelInv, NEW n \in B!Node, B!DropTask(n)
    PROVE  ChannelInv'
  <1> DEFINE m == B!Peer(n)
             h == node[n].recv_halt
             p == IF h THEN "HaltVerified" ELSE "Halt"
             s == [node[n] EXCEPT !.recv = IF h THEN "done" ELSE "halting"]
  <1>1. /\ node[n] \in B!NodeType /\ m \in B!Node /\ m # n /\ B!Peer(m) = n
        /\ node \in [B!Node -> B!NodeType] /\ ChannelEnd(n, m) /\ ChannelEnd(m, n)
        /\ node[n].recv = "dropped"
    BY ChannelNodes DEF ChannelInv, B!TypeOK, B!DropTask
  <1>2. s \in B!NodeType /\ s.recv_halt = h /\ s.recv = IF h THEN "done" ELSE "halting"
    BY <1>1 DEF B!NodeType
  <1>3. B!Becomes(n, s) /\ B!Send(n, p) /\ p \in ChannelPacket
    BY DEF B!DropTask, ChannelPacket
  <1>4. "Halt" \notin Carried(chan[m]) /\ (h => "HaltVerified" \notin Carried(chan[m]))
    BY <1>1 DEF ChannelEnd, Halts
  <1>5. p \notin Carried(chan[m]) /\ p # "Packet"
    BY <1>4
  <1>6. /\ chan' \in [B!Node -> Seq(ChannelPacket)] /\ chan'[n] = chan[n]
        /\ Carried(chan'[m]) = Carried(chan[m]) \cup {p} /\ Ordered(chan'[m], OnlyItemsRepeat)
    BY <1>3, <1>5, ChannelSend
  <1> HIDE DEF m, s
  <1>7. node'[n] = s /\ node'[m] = node[m]
    BY <1>1, <1>3 DEF B!Becomes
  <1>8. CASE h
    <2>1. /\ s.recv = "done" /\ p = "HaltVerified" /\ node[m].recv \in Halts
          /\ "Halt" \notin Carried(chan[n])
      BY <1>1, <1>2, <1>8 DEF ChannelEnd
    <2> HIDE DEF h, p
    <2>2. ChannelEnd(n, m)'
      BY <1>1, <1>6, <1>7, <2>1 DEF ChannelEnd, Halts
    <2>3. ChannelEnd(m, n)'
      BY <1>1, <1>4, <1>6, <1>7, <2>1 DEF ChannelEnd, Halts
    <2> QED
      BY <1>1, <1>2, <1>3, <1>6, <2>2, <2>3, ChannelStep DEF m
  <1>9. CASE ~h
    <2>1. s.recv = "halting" /\ p = "Halt"
      BY <1>2, <1>9
    <2> HIDE DEF h, p
    <2>2. ChannelEnd(n, m)'
      BY <1>1, <1>6, <1>7, <2>1 DEF ChannelEnd, Halts
    <2>3. ChannelEnd(m, n)'
      BY <1>1, <1>4, <1>6, <1>7, <2>1 DEF ChannelEnd, Halts
    <2> QED
      BY <1>1, <1>2, <1>3, <1>6, <2>2, <2>3, ChannelStep DEF m
  <1> QED
    BY <1>8, <1>9

\* The sending half is stopped.
LEMMA ChannelStopSending ==
    ASSUME ChannelInv, NEW n \in B!Node, B!StopSending(n)
    PROVE  ChannelInv'
  <1> DEFINE m == B!Peer(n)
             s == [node[n] EXCEPT !.recv = "waiting", !.recv_halt = TRUE]
  <1>1. /\ node[n] \in B!NodeType /\ m \in B!Node /\ m # n /\ B!Peer(m) = n
        /\ node \in [B!Node -> B!NodeType] /\ chan \in [B!Node -> Seq(ChannelPacket)]
        /\ ChannelEnd(n, m) /\ ChannelEnd(m, n) /\ node[n].recv = "halting"
    BY ChannelNodes DEF ChannelInv, B!TypeOK, ChannelPacket, B!StopSending
  <1>2. s \in B!NodeType /\ s.recv = "waiting"
    BY <1>1 DEF B!NodeType
  <1>3. B!Becomes(n, s) /\ chan' = chan
    BY DEF B!StopSending
  <1> HIDE DEF m, s
  <1>4. node'[n] = s /\ node'[m] = node[m]
    BY <1>1, <1>3 DEF B!Becomes
  <1>5. ChannelEnd(n, m)' /\ ChannelEnd(m, n)'
    BY <1>1, <1>2, <1>3, <1>4 DEF ChannelEnd, Halts
  <1> QED
    BY <1>1, <1>2, <1>3, <1>5, ChannelStep DEF m

\* A node that waits reads its stream; the verification comes once.
LEMMA ChannelAwaitVerified ==
    ASSUME ChannelInv, NEW n \in B!Node, B!AwaitVerified(n)
    PROVE  ChannelInv'
  <1> DEFINE m == B!Peer(n)
             p == Head(chan[n])
             s == [node[n] EXCEPT !.recv = IF p = "HaltVerified" THEN "done" ELSE @]
  <1>1. /\ node[n] \in B!NodeType /\ m \in B!Node /\ m # n /\ B!Peer(m) = n
        /\ node \in [B!Node -> B!NodeType] /\ ChannelEnd(n, m) /\ ChannelEnd(m, n)
        /\ node[n].recv = "waiting"
    BY SMTT(30), ChannelNodes DEF ChannelInv, B!TypeOK, B!AwaitVerified
  <1>2. s \in B!NodeType /\ s.recv = IF p = "HaltVerified" THEN "done" ELSE "waiting"
    BY <1>1 DEF B!NodeType
  <1>3. B!Becomes(n, s) /\ B!Consume(n) /\ chan[n] # <<>>
    BY DEF B!AwaitVerified
  <1>4. /\ chan' \in [B!Node -> Seq(ChannelPacket)] /\ chan'[m] = chan[m]
        /\ Carried(chan[n]) = {p} \cup Carried(chan'[n])
        /\ p # "Packet" => p \notin Carried(chan'[n])
        /\ Ordered(chan'[n], OnlyItemsRepeat)
    BY <1>3, ChannelConsume
  <1> HIDE DEF m, s, p
  <1>5. node'[n] = s /\ node'[m] = node[m]
    BY <1>1, <1>3 DEF B!Becomes
  <1>6. CASE p = "HaltVerified"
    <2>1. s.recv = "done" /\ node[m].recv = "done"
      BY <1>1, <1>2, <1>4, <1>6 DEF ChannelEnd
    <2>2. ChannelEnd(n, m)' /\ ChannelEnd(m, n)'
      BY <1>1, <1>4, <1>5, <1>6, <2>1 DEF ChannelEnd, Halts
    <2> QED
      BY <1>1, <1>2, <1>3, <1>4, <2>2, ChannelStep DEF m
  <1>7. CASE p # "HaltVerified"
    <2>1. s.recv = "waiting"
      BY <1>2, <1>7
    <2>2. ChannelEnd(n, m)' /\ ChannelEnd(m, n)'
      BY <1>1, <1>4, <1>5, <2>1 DEF ChannelEnd, Halts
    <2> QED
      BY <1>1, <1>2, <1>3, <1>4, <2>2, ChannelStep DEF m
  <1> QED
    BY <1>6, <1>7

\* The results of the channel follow.
LEMMA ChannelHolds == ChannelInv => B!TypeOK /\ B!VerifiedIsAwaited
  <1> SUFFICES ASSUME ChannelInv, NEW n \in B!Node, NEW k \in DOMAIN chan[n],
                      chan[n][k] = "HaltVerified"
               PROVE  node[n].recv \in {"halting", "waiting"} /\ node[B!Peer(n)].recv = "done"
    BY DEF ChannelInv, B!VerifiedIsAwaited
  <1>1. chan[n] \in Seq(ChannelPacket)
    BY DEF ChannelInv, B!TypeOK, ChannelPacket
  <1>2. chan[n][k] \in Carried(chan[n])
    BY SMTT(30), <1>1 DEF Carried
  <1> QED
    BY <1>2 DEF ChannelInv, ChannelEnd, Halts

-----------------------------------------------------------------------------
(* The operations together *)

\* What is known of the operation a behaviour is about, conversations apart.
OperationInv ==
    /\ op = "select_ok" => SelectInv
    /\ op = "try_join" => JoinInv
    /\ op = "sync" => StartInv
    /\ op = "channel" => ChannelInv

\* Every operation starts as its code sets it up.
LEMMA OperationInit == Init => OperationInv
  BY SelectInit, JoinInit, StartInit, ChannelInit DEF Init, OperationInv

\* A step of something else changes nothing of an operation.
LEMMA OperationStutters ==
    ASSUME OperationInv, UNCHANGED vars
    PROVE  OperationInv'
  <1>1. /\ op' = op /\ chan' = chan /\ ret' = ret /\ result' = result /\ value' = value
        /\ clock' = clock /\ skew' = skew /\ step' = step /\ due' = due /\ syn' = syn
        /\ got' = got /\ payload' = payload /\ started' = started /\ node' = node
        /\ faults' = faults
    BY DEF vars, start
  <1>2. SelectInv => SelectInv'
    BY <1>1 DEF SelectInv, S!TypeOK
  <1>3. JoinInv => JoinInv'
    <2>1. Joined' <=> Joined
      BY <1>1 DEF Joined
    <2> QED
      BY <1>1, <2>1 DEF JoinInv
  <1>4. StartInv => StartInv'
    <2>1. Ack' = Ack
      BY <1>1 DEF Ack
    <2>2. StartStage => StartStage'
      BY <1>1, <2>1 DEF StartStage
    <2> QED
      BY <1>1, <2>2 DEF StartInv
  <1>5. ChannelInv => ChannelInv'
    BY <1>1 DEF ChannelInv, ChannelEnd, B!TypeOK
  <1> QED
    BY <1>1, <1>2, <1>3, <1>4, <1>5 DEF OperationInv

\* Every step of an operation preserves what is known of it, and no step changes
\* which operation a behaviour is about.
LEMMA OperationStep ==
    ASSUME OperationInv, [Next]_vars
    PROVE  OperationInv'
  <1>1. CASE Selects /\ S!Next
    <2>1. SelectInv'
      BY <1>1, SelectComplete, SelectPreferred, SelectOther DEF OperationInv, Selects, S!Next
    <2> QED
      BY <1>1, <2>1 DEF OperationInv, Selects
  <1>2. CASE Joins /\ J!Next
    <2>1. JoinInv'
      BY <1>2, JoinComplete, JoinPreferred, JoinOther DEF OperationInv, Joins, J!Next
    <2> QED
      BY <1>2, <2>1 DEF OperationInv, Joins
  <1>3. CASE Starts /\ T!Next
    <2>1. StartInv'
      BY <1>3, StartSendSyn, StartRecvSyn, StartRecvSynAck, StartRecvAck, StartTick,
         StartExecute DEF OperationInv, Starts, T!Next
    <2> QED
      BY <1>3, <2>1 DEF OperationInv, Starts
  <1>4. CASE (Subscribes /\ C!Next) \/ (Locks /\ M!Next)
    BY <1>4 DEF OperationInv, Subscribes, Locks
  <1>5. CASE Channels /\ B!Next
    <2>1. ChannelInv'
      BY <1>5, ChannelSendItem, ChannelSendsItem, ChannelRecv, ChannelDropRecv,
         ChannelDropTask, ChannelStopSending, ChannelAwaitVerified DEF OperationInv, Channels, B!Next, B!Task
    <2> QED
      BY <1>5, <2>1 DEF OperationInv, Channels
  <1>6. CASE UNCHANGED vars
    BY <1>6, OperationStutters
  <1> QED
    BY <1>1, <1>2, <1>3, <1>4, <1>5, <1>6 DEF Next

\* The invariant holds throughout.
LEMMA OperationThroughout == Spec => []OperationInv
  BY OperationInit, OperationStep, PTL DEF Spec

(***************************************************************************)
(* The two sides of select_ok agree on a winner that has a value, or on    *)
(* the failure of both, and try_join returns once both futures succeeded   *)
(* or one failed, in whatever order the futures return and the states of   *)
(* the two sides cross (EvaluatePreferred and EvaluateOther).              *)
(***************************************************************************)
THEOREM OutcomesAgree == Spec => []SameOutcome
  <1>1. OperationInv => SameOutcome
    BY SelectAgrees, JoinHolds DEF OperationInv, SameOutcome
  <1> QED
    BY <1>1, OperationThroughout, PTL

(***************************************************************************)
(* The synchronised start runs no function before the payloads were        *)
(* exchanged, and each when the clock of its own host shows the time the   *)
(* receiver fixed, or the initiator's when the Ack arrives after that:     *)
(* whatever the delays are, and however far the clocks of the hosts are    *)
(* apart (sync_start.rs).                                                  *)
(***************************************************************************)
THEOREM StartsInStep == Spec => []StartsTogether
  <1>1. OperationInv => StartsTogether
    BY StartHolds DEF OperationInv, StartsTogether
  <1> QED
    BY <1>1, OperationThroughout, PTL

-----------------------------------------------------------------------------
(* The conversations: the invariant of NetMultiplexProofs *)

CP == INSTANCE NetMultiplexProofs

\* The bounds of the instance are bounds of the connection.
LEMMA SubSized == CP!Sized
  BY NetOperationsAssumption DEF CP!Sized

\* A connection starts with no conversation.
LEMMA SubInit == C!Init => CP!LockedSubInv
  <1>1. C!Init => CP!Init
    BY DEF C!Init, CP!Init, C!Node, CP!Node, C!Id, CP!Id
  <1> QED
    BY <1>1, SubSized, CP!LockedSubInit

\* Every step of a connection preserves what is known of its conversations.
LEMMA SubNext ==
    ASSUME CP!LockedSubInv, C!Next
    PROVE  CP!LockedSubInv'
  <1>1. CP!Next
    BY DEF C!Next, CP!Next, C!Node, CP!Node, C!Id, CP!Id, C!Forward, CP!Forward,
       C!Close, CP!Close, C!InitiateReserved, CP!InitiateReserved, C!Becomes, CP!Becomes,
       C!Reserved, CP!Reserved, C!InitiateReceiver, CP!InitiateReceiver,
       C!InitiateInitiator, CP!InitiateInitiator, C!OpenedReceiver, CP!OpenedReceiver,
       C!OpenedInitiator, CP!OpenedInitiator, C!SendToPeer, CP!SendToPeer,
       C!DropSubscription, CP!DropSubscription, C!SendPostDrop, CP!SendPostDrop,
       C!AwaitPostDrop, CP!AwaitPostDrop, C!CloseReceiver, CP!CloseReceiver, C!CloseInitiator, CP!CloseInitiator,
       C!ForwardApplication, CP!ForwardApplication, C!ForwardPreCreate, CP!ForwardPreCreate,
       C!ForwardPostDrop, CP!ForwardPostDrop, C!Subscribed, CP!Subscribed,
       C!SubscribeFaults, CP!SubscribeFaults, C!Send, CP!Send, C!Peer, CP!Peer,
       C!Usable, CP!Usable, C!Signalled, CP!Signalled, C!Incoming, CP!Incoming,
       C!Consume, CP!Consume
  <1> QED
    BY <1>1, CP!LockedSubNext

\* The results about conversations follow.
LEMMA SubHolds ==
    ASSUME CP!LockedSubInv
    PROVE  C!TypeOK /\ C!NoFault /\ C!ReaderNeverBlocks
  <1>1. CP!TypeOK /\ CP!NoFault /\ CP!ReaderNeverBlocks
    BY CP!LockedSubHolds
  <1> QED
    BY <1>1 DEF C!TypeOK, CP!TypeOK, C!NoFault, CP!NoFault, C!ReaderNeverBlocks,
       CP!ReaderNeverBlocks, C!Node, CP!Node, C!Id, CP!Id, C!Sub, CP!Sub, C!Incoming, CP!Incoming

\* What is known of the conversations, when a behaviour is about them.
ConversationInv == op = "subscribe" => CP!LockedSubInv

\* No step of another operation changes what is known of the conversations.
LEMMA ConversationStep ==
    ASSUME ConversationInv, [Next]_vars
    PROVE  ConversationInv'
  <1>1. CASE op = "subscribe" /\ C!Next
    BY <1>1, SubNext DEF ConversationInv
  <1>2. CASE UNCHANGED vars
    <2>1. op' = op /\ chan' = chan /\ node' = node /\ rx' = rx /\ faults' = faults
      BY <1>2 DEF vars
    <2>2. CP!LockedSubInv => CP!LockedSubInv'
      BY <2>1 DEF CP!LockedSubInv, CP!SubInv, CP!OfNodes
    <2> QED
      BY <2>1, <2>2 DEF ConversationInv
  <1>3. op' = op
    BY <1>2 DEF Next, Selects, Joins, Starts, Subscribes, Channels, Locks, vars
  <1>4. CASE op # "subscribe"
    BY <1>3, <1>4 DEF ConversationInv
  <1>5. CASE op = "subscribe" /\ Next
    BY <1>1, <1>5 DEF Next, Selects, Joins, Starts, Subscribes, Channels, Locks
  <1> QED
    BY <1>2, <1>4, <1>5

\* The conversations are sound throughout.
LEMMA ConversationsThroughout == Spec => []ConversationInv
  <1>1. Init => ConversationInv
    BY SubInit DEF Init, ConversationInv
  <1> QED
    BY <1>1, ConversationStep, PTL DEF Spec

(***************************************************************************)
(* For any number of reserved conversations and of conversations opened:   *)
(* no packet reaches a node that does not have its conversation, none of   *)
(* the assertions of subscribe fails, the reader task never waits for the  *)
(* pre-action channel, and a channel's halt is verified to the node that   *)
(* waits for it (forward_packet, preaction_sync, postaction_sync, Drop).   *)
(***************************************************************************)
THEOREM ConversationsSound == Spec => []NoFault
  <1>1. OperationInv /\ ConversationInv => NoFault
    BY SubHolds, ChannelHolds DEF OperationInv, ConversationInv, NoFault
  <1> QED
    BY <1>1, OperationThroughout, ConversationsThroughout, PTL
=============================================================================
