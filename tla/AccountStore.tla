---------------------------- MODULE AccountStore ----------------------------
(***************************************************************************)
(* What the trait BackendConnection promises its callers, whichever store  *)
(* is behind it: accounts, who lists whom as a peer, and a map of bytes    *)
(* per account.  A call takes effect at once, with four exceptions, which  *)
(* "busy" announces while they last: a deregistration by the server may    *)
(* take one half of the pair off after the other, a synchronisation may    *)
(* empty the list before it fills it, a purge may go table by table, and   *)
(* an account that is deleted while another call is saving it may return.  *)
(* A call that fails changes nothing.  Of the bytes of an account that is  *)
(* not registered nothing is promised.                                     *)
(***************************************************************************)
EXTENDS TLC

CONSTANTS Cid,    \* ids of accounts, here or elsewhere
          Slot,   \* <<box, sub>>: a peer's cid and key, and a sub key
          Value   \* what a slot may hold

VARIABLES role,      \* whose store it is: "server" or "client"
          accounts,  \* the accounts registered here
          peers,     \* <<c, p>>: the account c lists p
          bytes,     \* <<c, slot>> to a value
          answer,    \* what the last call on a byte map found, and of whom
          busy       \* calls that are half way

vars == <<role, accounts, peers, bytes, answer, busy>>

data == <<accounts, peers, bytes, answer>>

Init == accounts = {} /\ peers = {} /\ bytes = <<>> /\ answer.found = <<>> /\ busy = {}

Entries(c) == {c} \X Slot

Forget(keys) == [k \in DOMAIN bytes \ keys |-> bytes[k]]

Held(c, slots) ==
    [of |-> c, found |-> [s \in {s \in slots : <<c, s>> \in DOMAIN bytes} |-> bytes[<<c, s>>]]]

Begins(call) == busy' = busy \cup {call}

Ends(call) == busy' = busy \ {call}
-----------------------------------------------------------------------------
\* save_cnac
Save(c) ==
    /\ accounts' = accounts \cup {c}
    /\ UNCHANGED <<peers, bytes, answer, busy>>

\* delete_cnac_by_cid: the account goes with its map and its list, and leaves at
\* least the lists of those it lists.
Delete(c) ==
    /\ c \in accounts
    /\ accounts' = accounts \ {c}
    /\ bytes' = Forget(Entries(c))
    /\ \E left \in SUBSET {pair \in peers : pair[2] = c} :
          /\ \A d \in Cid : <<c, d>> \in peers /\ <<d, c>> \in peers => <<d, c>> \in left
          /\ peers' = {pair \in peers \ left : pair[1] # c}
    /\ UNCHANGED busy \/ Begins(<<"gone", c>>)
    /\ UNCHANGED answer

\* The call that was saving the account puts it back, with what it had.
Return(c) ==
    /\ <<"gone", c>> \in busy /\ \E others \in SUBSET Cid : busy' = busy \ ({"gone"} \X ({c} \cup others))
    /\ accounts' = accounts \cup {c}
    /\ peers \subseteq peers' /\ peers' \subseteq peers \cup ({c} \X Cid)
    /\ bytes = [k \in DOMAIN bytes' \ Entries(c) |-> bytes'[k]]
    /\ UNCHANGED answer

\* Or it ends without doing so.
GivesUp == busy' \in {busy \ ({"gone"} \X S) : S \in SUBSET Cid} /\ UNCHANGED data

\* purge, all at once or a table at a time
Purge ==
    /\ accounts' = {} /\ peers' = {} /\ bytes' = <<>>
    /\ \/ Ends(<<"purge">>)
       \/ \E S \in SUBSET accounts : busy' = busy \cup ({"gone"} \X S)
    /\ UNCHANGED answer

PurgeBegins == Begins(<<"purge">>) /\ UNCHANGED data

PurgeTable ==
    /\ <<"purge">> \in busy
    /\ peers' \in {peers, {}} /\ bytes' \in {bytes, <<>>}
    /\ UNCHANGED <<accounts, answer, busy>>
-----------------------------------------------------------------------------
\* The calls on the lists.  A server lists two accounts with each other.
RegisterAsServer(c, d) ==
    /\ role = "server" /\ {c, d} \subseteq accounts
    /\ peers' = peers \cup {<<c, d>>, <<d, c>>}
    /\ UNCHANGED busy

DeregisterAsServer(c, d) ==
    /\ role = "server"
    /\ \/ UNCHANGED busy /\ peers' = peers \ {<<c, d>>, <<d, c>>}
       \/ Begins(<<"half", c, d>>) /\ <<c, d>> \in peers /\ peers' = peers \ {<<c, d>>}
       \/ <<"half", c, d>> \in busy /\ Ends(<<"half", c, d>>) /\ peers' = peers \ {<<d, c>>}

\* A client changes the list of one of its accounts.
RegisterAsClient(c, p) ==
    role = "client" /\ c \in accounts /\ peers' = peers \cup {<<c, p>>} /\ UNCHANGED busy

DeregisterAsClient(c, p) == role = "client" /\ peers' = peers \ {<<c, p>>} /\ UNCHANGED busy

ListOf(c) == {pair \in peers : pair[1] = c}

Synchronize(c, listed) ==
    /\ role = "client"
    /\ \/ c \in accounts /\ UNCHANGED busy /\ peers' = (peers \ ListOf(c)) \cup ({c} \X listed)
       \/ Begins(<<"fill", c>>) /\ peers' = peers \ ListOf(c)
       \/ /\ <<"fill", c>> \in busy /\ (UNCHANGED busy \/ Ends(<<"fill", c>>))
          /\ peers' = peers \cup (({c} \cap accounts) \X listed)

OnLists ==
    /\ UNCHANGED <<accounts, answer>> /\ UNCHANGED bytes
    /\ \/ \E c, d \in Cid : RegisterAsServer(c, d) \/ DeregisterAsServer(c, d)
       \/ \E c, p \in Cid : RegisterAsClient(c, p) \/ DeregisterAsClient(c, p)
       \/ \E c \in Cid, listed \in SUBSET Cid : Synchronize(c, listed)
-----------------------------------------------------------------------------
\* The calls on the bytes.  store_byte_map_value creates or overwrites, and returns
\* what was there.
Put(c, s, v) ==
    /\ bytes' = (<<c, s>> :> v) @@ bytes
    /\ answer' = Held(c, {s})

\* get_byte_map_value, get_byte_map_values_by_key
Get(c, slots) == UNCHANGED bytes /\ answer' = Held(c, slots)

\* remove_byte_map_value, remove_byte_map_values_by_key: each value is handed out
\* by the call that removes it.
Take(c, slots) == bytes' = Forget({c} \X slots) /\ answer' = Held(c, slots)

Box(b) == {s \in Slot : s[1] = b}

Calls == {{s} : s \in Slot} \cup {Box(s[1]) : s \in Slot}

OnBytes ==
    /\ UNCHANGED <<accounts, busy>> /\ UNCHANGED peers
    /\ \E c \in {answer'.of} :
          \/ c \in Cid \ accounts /\ UNCHANGED bytes
          \/ c \in accounts /\ \E s \in Slot, v \in Value : Put(c, s, v)
          \/ c \in accounts /\ \E slots \in Calls : Get(c, slots) \/ Take(c, slots)

Next ==
    /\ \/ Purge \/ PurgeBegins \/ PurgeTable
       \/ \E c \in Cid : Save(c) \/ Delete(c) \/ Return(c)
       \/ GivesUp
       \/ OnLists
       \/ OnBytes
    /\ UNCHANGED role
=============================================================================
