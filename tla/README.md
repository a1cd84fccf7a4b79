# Citadel Protocol: a TLA+ verification project

The Citadel Protocol connects clients to a server, and peers to each other
through the server or directly, with keys that are renewed while the
connection is in use. This directory holds TLA+ models of its protocol state,
TLC configurations that check them on small instances, and TLAPS proofs.

`PROJECT.json` is the machine-readable index: the components, the runs, the
mapping of every definition to the lines it stands for, a mutant for every
property, the hazards, the findings and the theorems.

## 1. The system

| Crate | Part |
| --- | --- |
| `citadel_proto` | sessions, packet handlers, state container, peer layer, groups, file transfer, kernel executor |
| `citadel_crypt` | ratchets, toolsets, the crypto container of a session, the splitter of file groups |
| `citadel_pqcrypto`, `dpb_kem` | primitives, anti-replay container |
| `citadel_user` | accounts, registered peers, storage backends |
| `netbeam` | synchronisation over a stream: mutex, read-write lock, select, join, multiplexing |
| `citadel_wire`, `async_ip` | NAT identification, hole punching, sockets, QUIC, TLS |
| `citadel_sdk` | an interface of requests over `citadel_proto` |
| `firebase-rtdb`, `citadel_runtime`, `citadel_logging` | external service, runtime and logging glue |

How the parts that hold protocol state interact:

    application --> message sender task --+             +--> ordered channel --> application
                                          v             |
    kernel executor --> session manager --> state container (one per session)
         |                 |              ^   |   crypto container, toolset, file transfers
         |                 |              |   +--> outbound streams --> the other end
         |                 |   stream reader --> packet handlers
         |                 +--> peer layer (server): postings, mailbox, message groups
         +--> account manager --> backend: memory, files, Redis or SQL

    netbeam, over one stream of two nodes: multiplexed conversations, and in them
    channels, mutex, read-write lock, select_ok, try_join, synchronised start

A *session* is a stream between a client and the server. A link is opened to
register an account or to log in; a login goes through a pre-connection, which
makes new keys, and a connection, which checks the credentials. A *virtual
connection* between two peers rides on the sessions of both with the server,
and may have a direct stream beside it. Each session and each virtual
connection has a *crypto container*: a *toolset*, which is a window of ratchets
by version, an update lock, and the version this end may encrypt with. Every
message carries, if the lock is free, the offer of the next key exchange; a
rekey request sends an offer on its own.

The state of a session is behind one lock. A handler runs under it, but lets it
go where it awaits; in the multi-threaded build the packet it returns is sent
afterwards. These are the places where steps of two handlers interleave.

## 2. The modules

| Module | Models | Source |
| --- | --- | --- |
| `Toolset`, `PeerSessionCrypto`, `Option` | the window of ratchets with wrapping versions; lock, owner, usable version, preference of the initiator, the two halves of an exchange | `citadel_crypt/src/toolset.rs`, `endpoint_crypto_container.rs` |
| `RatchetUpdate` | the two ends of a session: submitting, queueing, the six packets of messages and rekeys, replies, streams | `state_container.rs`, `primary_group_packet.rs`, `rekey_packet.rs`, `session.rs` |
| `RatchetAgreement` | what a session promises about its keys (abstract) | |
| `OrderedChannel`, `OrderedDelivery` | the reordering buffer, fed by a network without order | `proto/misc/ordered_channel.rs` |
| `NonceVersion`, `GroupSplitter` | the pairing of wave and group id; one group of bytes: configuration, packets, waves, receiver with its slab and acknowledgements, sender | `citadel_crypt/src/scramble/crypt_splitter.rs` |
| `WaveTransfer` | what a group promises (abstract): waves complete, then the bytes are there, then the sender knows | |
| `FileTransfer` | files in groups: header, answer, group headers, waves, tails, writing, expiry, faults | `file_packet.rs`, `primary_group_packet.rs`, `session.rs`, `state_container.rs`, `streaming_crypt_scrambler.rs` |
| `Sessions` | registration, pre-connection, login, disconnection, deregistration over links that may break | `preconnect_packet.rs`, `connect_packet.rs`, `register_packet.rs`, `disconnect_packet.rs`, `deregister_packet.rs`, `session.rs`, `session_manager.rs`, `validation.rs`, `account_manager.rs` |
| `Peers` | peers register, connect, disconnect, deregister through the server; postings, mailbox, key exchange, hole punching as an outcome | `peer_cmd_packet.rs`, `peer_layer.rs`, `session_manager.rs`, `state_container.rs` |
| `Groups` | a message group at the server and at its members | `group_broadcast.rs`, `message_group.rs`, `group_channel.rs`, `peer_layer.rs` |
| `NetMutex`, `NetRwLock` | the locks two nodes share | `netbeam/src/sync/primitives/` |
| `NetSelectOk`, `NetTryJoin`, `NetSyncStart` | the joint operations | `netbeam/src/sync/operations/`, `sync_start.rs` |
| `NetMultiplex`, `NetChannel` | conversations on one stream; the channel with its halt | `multiplex.rs`, `subscription.rs`, `network_application.rs`, `channel/bi_channel.rs` |
| `AccountStore` | what a backend promises (abstract) | `citadel_user/src/backend/mod.rs` |
| `MemoryBackend`, `FilesystemBackend`, `RedisBackend`, `SqlBackend` | the four backends | `citadel_user/src/backend/`, `client_account.rs` |
| `MC...` | instances for TLC | |
| `...Proofs` | lemmas and theorems, see section 4 | |

### Abstraction

Control is kept, data is reduced to what the properties tell apart. A ratchet
is its version and the exchange it came from: two ends hold the same keys
exactly when they finished the same exchange. A packet is dropped when its
receiver does not hold the ratchet it was sealed with. Credentials are right or
wrong. A cid stands for the username as well. A wave of a file travels as one
packet in `FileTransfer`; that this is what a group does is the refinement of
`WaveTransfer` by `GroupSplitter`. The bytes of packets, logging and tickets'
numbers are left out.

Where a handler awaits, its remainder is a task: `sess[e].tasks` in `Sessions`,
`server.tasks` in `Peers`, `rest` in `Groups`, `todo` in `FilesystemBackend`.
Other handlers run between.

### State and actions

**RatchetUpdate.** `state[p]` is the part of `StateContainerInner` of end `p`:
`crypt`, `transmitters` (groups whose acknowledgement is outstanding), `rekey`,
`ticket`, `enqueued` (the queue of Perfect secrecy), `inbox`, `session`,
`sender`. `streams[p][path]` is what is on its way to `p`, `replies[p][path]`
what a handler returned and its task has not sent. One action per packet
(`ReceiveGroupHeader`, `ReceiveGroupHeaderAck`, `ReceiveStage0`,
`ReceiveStage1`, `ReceiveTruncate`, `ReceiveTruncateAck`), and `SubmitMessage`,
`RequestRekey`, `ReplyToSender`, `DropReceiver`.

**OrderedDelivery.** `Send`, `Arrive` of any packet under way, `DropReceiver`, and
`SendFile`: the groups of a file are given ids of the same counter, but do not go
through the ordered channel.

**GroupSplitter.** `group` is what was split, `wire` its packets, `receiver`
and `sender` the two containers, `acks` the acknowledgements under way. Packets
arrive in any order and may be repeated.

**FileTransfer.** `node[n]` holds the maps of an end (groups in both
directions, files, handles, the tasks that send and write, what its kernel was
told), `todo` the files it will still send, `net` the packets. Actions: `SendingStep` (the task that takes groups from the
scrambler), `WritingStep` (the task that writes), `ReceiveStep` (a handler),
`KernelStep` (send, accept, decline, drop), `Fault` (disk errors, expiry).

**Sessions.** `link`, `sess[e]` (a session at each end of a link), `wire`, and
per node `sessions` and `prov` (the maps of the session manager), `acct` and
`toolset` (the account manager), `told` (what the kernel heard). Actions:
`Initiate`, `InitiateFails`, `Inbound`, one handler per packet under
`Processes`, `LoginExpires`, `Breaks`, `Disconnect`, `Deregister`.

**Peers.** `client[c]`, `server` (sessions, postings, mailbox, lists of
mutuals, virtual connections, tasks), `up` and `down` (signals), `req`
(tickets). Actions: `Request`, `Answers`, `DropChannel`, the server's handlers,
`Works` (their tasks), `Expire` (time-out of a posting),
`attempt_simultaneous_hole_punch`, `Drain` (the delayed removal of a
connection), `Leave`, `Shutdown`, `Login`. The server takes two steps for a
disconnection, one per list (`Disconnects`, `disconnect_virtual_conn`).

**Groups.** `group` (members and invited), `client`, `rest`, `up`, `down`,
`cmd`. Actions: `Given` (a command), `Handled` (at the server), `Heard` (at a
member), `Disconnects`, `on_session_shutdown`. `held` counts the receiving halves a
kernel keeps: each one sends a LeaveRoom when it is dropped, the group being there
or not.

**netbeam.** A node is the state of the tasks that compete for the local lock
(background handler, acquirer, code after a dropped guard); `chan` is the
ordered stream. The two sides of `NetSelectOk` and `NetTryJoin` are the
preferred end, which decides, and the other. In `NetSyncStart` the clocks of the
two hosts differ by a fixed amount. A close in `NetMultiplex` that waits for the
other node (`AwaitPostDrop`) keeps the lock on the receivers of all conversations
of its node (`rx`), which other closes and new conversations need.

**Backends.** One action per call of `BackendConnection`, queries as operators.
In `SqlBackend` a statement or transaction is a step, so a removal and a purge
take several; rows may be there twice, and the foreign keys and the trigger are
part of `Cascade`. In `RedisBackend` a script or atomic pipeline is a step, and
a script that fails half way keeps what it wrote; calls name any accounts,
registered or not, and several synchronisations may be half way. In
`MemoryBackend` a deregistration unlists one account, then the other. In
`FilesystemBackend` (which extends it) each call is a task with steps of its own:
a file is truncated, then filled, calls overlap, and the program may crash between
any two steps and be restarted, as often as it likes.

## 3. What is checked

### Runs that pass

Most runs play several *scenes* or settings: a variable that never changes says
which instance of which module a behaviour is about. A scene that weakens a
property says so in the comment of the property.

| Run | Scenes | Distinct states | Shows |
| --- | --- | --- | --- |
| `best_effort` | best effort (2 + 2 messages, 2 rekeys by the client), plain (2 + 1, 1, fair), threads (3 + 2), perfect (3 + 2), direct (3 + 1), dropped (2 + 1, 1) | 40,704 | the key agreement of a session in the settings it may have |
| `streams` | ordered (8 messages, 5 ids), split, single, pair, cross, faulty | 96,744 | the ordered channel, one group, files |
| `net_locks` | mutex and read-write lock, kept or dropped by their nodes | 1,037,248 | mutual exclusion and fresh values |
| `net_operations` | select_ok, try_join, sync, subscribe, channel, mutex | 57,235 | the joint operations agree and end |
| `sessions` | attempt (any purpose, the link may break anywhere), refusal, retries (two links) | 286,848 | logins, registrations and their ends |
| `peers` | seven of two peers, five of a group of two or three | 174,408 | the peer layer and message groups |
| `stores` | memory, files, redis, sql, as client and as server | 459,200 | the backends |

The properties:

- `best_effort`. `TypeOK`; `WindowInv`: the deque is the gapless run of versions
  that `get_adjusted_index` takes it for, across the wrap.
  `EndsUnderstandEachOther`: one exchange per version, a bounded window, what
  is on its way opens, what an end encrypts with both hold. `LocksAccounted`:
  flag and owner of an update agree, a TRUNCATE finds a lock to release
  (`maybe_unlock` negates the flag), a rekey request is answered once.
  `AgreeAtRest`: with nothing under way the ends are in step. `InOrder`: the
  application gets the messages in the order they were submitted, over one
  stream or two. `QueueWaitsForUpdate`: in Perfect secrecy a message waits in
  the queue only for an update in progress. `SessionImplementsAgreement`: the
  steps of the session are steps of `RatchetAgreement`, in which an exchange is
  held by one end, then held and used by the other, then used by the first, and
  only then the next begins. `UpdatesEnd` (liveness): messages arrive, rekeys
  are answered, locks released.
- `streams`. `TypesOK`; `InOrder`, `NothingHeldBack` of the ordered channel,
  and `AllDelivered` (liveness): what was sent before the first file is delivered; `GroupIsConfirmed` and `NonceVersionsDiffer` of a group, and
  `SplitterImplementsWaves`, its refinement of `WaveTransfer`;
  `StatusesAreTrue`: a file reported complete is whole, one reported as sent is
  stored, a kernel hears of a transfer in order; `GroupsAreTracked`: ids
  reserved for a file are free, answers find their group; `TransfersEnd`
  (liveness): an accepted file arrives, a refused one ends its sender's task.
- `net_locks`. `MutexGuards`: one guard, which shows what the one before left.
  `RwGuards`: one writer, alone on its node, with the latest value.
- `net_operations`. `SameOutcome`: the two sides of select_ok and of try_join
  resolve alike, on grounds they had. `StartsTogether`: no function starts before
  the payloads were exchanged, and the two start as far apart as the clocks are,
  or the initiator's when a late Ack arrives. `NoFault`: no packet without its
  conversation, no failed assertion, a reader that never waits. Liveness:
  `BothReturn`; `Closes`: what both nodes have dropped both forget, provided that
  each node drops what the other drops; `MutexReleases`.
- `sessions`. `OneOutcome`: a kernel hears one answer, first, and one
  disconnection, last. `LoginInOrder`: the server's kernel gets its channel
  after the client's, the UDP loader is alerted by the login.
  `ClientEntryIsLive`: the session map of a client leads to a session that is
  not shut down. `EveryAttemptAnswered` (liveness), wherever the link breaks.
- `peers`. `RegistrationsHold`, `ConnectionsHold`, `GroupsHold`: the records of
  the server and of the peers agree. The second says, too, that whoever ends a
  session is listed at its peers, also while channels are dropped and sessions
  come and go, except for connections made half way through a disconnection.
  `OneAnswer` (action property): an answer that was given is not replaced.
  Liveness: `EveryRequestAnswered` (connections and registrations that do not meet
  an exchange under way), `EveryCommandAnswered`.
- `stores`. `StoresImplement` (action property): every step of each backend is
  a step of `AccountStore` or changes nothing that its queries show.
  `AccountStore` has one step for a call, with four exceptions that it announces
  while they last: a deregistration removes one side, then the other; a list that is
  synchronised is empty for a while; a purge goes table by table; an account that is
  deleted while another call saves it may return.
  `QueriesAgree`: the several queries of a backend agree with each other, and a
  server lists two accounts at both or at neither. `RestartKeeps`: a restart
  finds what finished calls have done to an account, unless another call on the
  same account overlapped with them and it was not saved alone since.

### Runs that end in a counterexample

Each states what a comment or a test of the repository says, and TLC finds a
behaviour of the code that does otherwise. Quotations are in the `findings` of
`PROJECT.json`.

| Run | Property | What happens |
| --- | --- | --- |
| `rekey_by_both` | `KeyAgreement` | STAGE1 answers TRUNCATE even when the exchange was turned down. It advances the other end's usable version and takes its lock; with rekeys at both ends one version gets two keys |
| `net_rwlock_writer` | `RwWriterExcludesAll` | a node that wanted to write and yielded to a read goes on with the read lock; it later hands out read guards beside the other node's writer |
| `login_keys` | `KeysAgree` | the SYN of a second login replaces the account's toolset while the first login is under way |
| `peers_declined` | `OneAnswerAfterDecline` | the ticket of a declined connect request stays, and a later connection is handed out under it |
| `file_groups` | `EveryFileIsWhole` | the last group of a file is recognised by a group id that counts the groups of the connection: the second file is reported complete early, or never |

### Bounds

- Two ends, two peers, two nodes: the protocols are between two. Groups have
  three members in one scene, since a third hears what two others do.
- `MAX_HYPER_RATCHETS_IN_MEMORY = 2` (6 or 128 in the code): the third exchange
  already drops a version. One would be too few, as the old and the new ratchet
  are needed at once. `MaxVersion = 3`, `MaxId = 3` stand for `u32::MAX` and
  `u64::MAX`; versions and ids wrap within a behaviour. `MaxSent = 8` over five
  ids wraps the ordered channel once and goes on; a file takes up to `MaxGroups = 2`
  ids.
- `MaxMessages`, `MaxRekeys`, `MaxTicket` (2 or 3), `MaxCommand` (3 or 4),
  `MaxLogin` (2): the length of a behaviour, enough for requests that cross and
  for a third that finds what two have left.
- Groups of bytes: packets of 2 bytes, 2 ports, so waves hold 5 plaintext bytes
  with a tag of 1; lengths on both sides of a packet, a wave and two waves; one
  packet repeated. Files: up to 3 groups of up to 3 waves, channels of 1 or 2.
- Locks: times up to 3 (2 when the lock may be dropped), with equal times; two
  or three acquisitions of the read-write lock; one alert under way.
- Conversations: one reserved at the start (`Capacity`), ids up to 2, so that one
  is opened by the nodes while the other closes, one packet in flight per
  direction; a clock up to 8 and clocks that differ by at most `MaxSkew = 2`; two
  items in a channel.
- Backends: three accounts, of which a client has two; two slots of a byte map
  (one for Redis), two values (one in memory); two synchronisations at a time in
  Redis. For files two accounts, one slot, one value, two calls at a time.
- Symmetry is used in `net_locks` only: the locks do not look at which node is
  the initiator.
- Deadlock is checked in `stores`. The other runs end where the applications
  have no requests left, and a session that is done falls silent.

The backends are checked under assumptions about their callers, which are
constants of the modules: a pair is not registered twice, nor while it is being
deregistered (`Repeats`); in Redis an account is not registered under a cid of
which lists or bytes are left (`Reuse`); in SQL a value is not stored where there
is one (`MayOverwrite`) and nothing overlaps a removal (`MayOverlap`). There is
one purge at a time.

### Fairness

Always weak, and only of what runs by itself: streams are reliable and their
readers run as long as the session does, spawned tasks are scheduled, timers
fire. Nobody is obliged to send, to request, to break a link or to drop a
channel.

- `best_effort`: delivery, in the setting "plain".
- `streams`: arrival in "ordered"; in "single" the sending task, the writing
  task and the handlers of each end.
- `net_operations`: the futures complete, the two sides evaluate, the tasks of a
  node run and close the conversations that were dropped; a guard that was handed
  out is dropped at some time.
- `sessions`: packets are handled and tasks run (`Processes`), an inbound link
  is accepted, the login timer fires.
- `peers`: `Progress`, which is every step but those of kernels and faults.

## 4. What is proved

The theorems are checked by TLAPS for every value of the constants, under the
assumptions their modules or statements name.

| Theorem | Module | Says |
| --- | --- | --- |
| `LookupComplete` | `SessionPartsProofs` | in a window no longer than there are versions, each ratchet is found under its own version, also across the wrap |
| `TypeCorrect`, `WindowSound` | `RatchetUpdateProofs` | `TypeOK` and `WindowInv` of the whole session, in each build and mode, also those with counterexamples |
| `MessagesInOrder` | `RatchetUpdateProofs` | `InOrder` of the whole session: what is submitted at one end arrives in order, none twice, none left out in between |
| `TypeCorrect`, `OrderedThroughout`, `NeverHeldBack`, `ConservedThroughout` | `StreamsProofs` | types, order and conservation of the ordered channel |
| `NonceVersionsUnique` | `StreamsProofs` | `NonceVersionsDiffer`: no wave of the group that is sent shares its nonce version with another wave of any group |
| `MutexSafe` | `NetMutexProofs` | `MutexGuards`: one guard, which shows the value left last, also when nodes drop the mutex |
| `SubscriptionsSound` | `NetMultiplexProofs` | the conversations of a connection, any number of them: no packet without its conversation, no failed assertion, a reader that never waits |
| `OutcomesAgree`, `StartsInStep`, `ConversationsSound` | `NetOperationsProofs` | `SameOutcome`, `StartsTogether` and `NoFault` of the joint operations, the conversations and the channel |
| `SqlRowsSound` | `DatabaseProofs` | only accounts have rows, and a server lists two accounts at both or at neither, with repeated registrations and overlapping removals as well |
| `RedisKeysSound` | `DatabaseProofs` | whatever accounts calls name, the keys of every registered account agree, and a server lists two of them at both or at neither, if a new account finds nothing of an earlier one under its cid |

Leaves are left to Zenon (the `USE` at the head of each module) unless they name
SMT or PTL. A proof has one lemma or step per action. Each inductive invariant
was checked with TLC on a small instance before it was proved.

**Session.** `WindowInv` alone is not inductive: that a commit keeps the window
gapless needs the types of versions and that packets in the streams carry
well-typed statuses and transfers. The inductive invariant is
`SoundSession == TypeOK /\ WindowInv`. The argument goes bottom up: `Toolset`
operations keep a window (`UpdateFrom`, `Deregister`, from lemmas about wrapping
arithmetic); container operations keep a sound container; each handler maps a
sound state and a packet to a sound outcome; `NextSound` has one case per
action. It does not depend on which packets open, in what order they come, or
what the applications do. Assumed: `None` is not a number; a window of at least
one ratchet, smaller than the number of versions; two ends, one of them the
initiator; counts in `Nat`; `None` is not an exchange.

**Message order.** `InOrder` speaks of what an application got; messages are also
queued, on their way and held back. `OrderInv` adds: what an end has queued
follows without a gap what it has sent (`Queued`); a message travels, and is
stored, under the group id one below its number, and only if it was sent
(`AllNumbered`, `Received`); messages never travel as replies. Each handler has a
lemma that it keeps this of its own end and sends only messages numbered in turn
(`OrderedOutcome`). `PerformOrder` and `ReplyOrder` join this with the other end,
whose messages can only have become more. The cases that matter are
`PollOrdered` and `OutboundOrdered`, by which a message is sent past the queue
only when the queue is empty, and `ReceiveOrdered`, the scan of the reordering
buffer. The theorem does not ask for agreement of keys, so it covers two streams
and rekeys by both ends as well. Its hypothesis is that no end submits more than
`MaxId` messages: the u64 ids of the code do not run out.

**Ordered channel.** `InOrder` needs to know what is under way. `IInv` adds:
every packet under way or stored has the id that belongs to its number, the two
sets are disjoint, the expected packet is not stored, and every message sent
and not delivered is pending. The guard of `Send` keeps the pending numbers
within one turn of the ids, so an id names one of them. The interesting case is
`ArriveExpectedInv`: the scan takes out exactly the run of stored ids after the
one that arrived. `Conserved` then counts the pending set.

**Nonce versions.** The value for two ids lies between the square of the larger
one and the next square (`BetweenSquares`), so different larger ids give
different values (`LargerGivesLarger`), and for one larger id it is injective
(`SameLarger`).

**Mutex.** That two nodes do not hold the lock at once says nothing of the
packets between them, and a packet can hand the lock over. While both nodes
keep the mutex, the invariant (`Together`) lists the configurations: what a node
does in the protocol (it holds, waits, retries, has released, is flagged,
resigns or is idle) together with the same of the other and the at most four
packets in each direction. `Times` adds whose request is earlier where two
requests cross. `NetMutexProtocol` shows that the list is closed under what a
node may do, apart from the tasks that do it; `NetMutexProofs` adds who owns the
local lock (`Owned`) and shows that each action is such a step. When a node has
dropped its mutex the list no longer applies, as a handler that ended answers
nothing: the invariant then is `Alone`, that nothing on its way to a node can
make it acquire the lock while the other has a guard. Assumed: two nodes, times
in `Nat`.

**Conversations.** In `NetMultiplexProofs`, `SubInv` keeps three things
together. The numbering (`Turn`): one conversation is being opened at a time, and
its PreCreate is on its way, or in the pre-action channel, at one of the two
sides. The closing (`Closing`): how far each node may be, given how far the other
is. The streams (`ToInitiator`, `ToReceiver`, `Follows`): a message is only on its
way to a node that was not told of the end of its conversation, and the PostDrop
is the last packet of its conversation. The order within a stream is what makes
the last one inductive. A step is split in two: lemmas about the states of the two
nodes and the sets of packets between them (`Nodes`, `Conversations`), which know
nothing of actions, and one lemma per action that shows which of them it is.
Assumed (`Sized`): no more conversations reserved than ids, counts in `Nat`.

**Joint operations.** `OperationInv` of `NetOperationsProofs` has one invariant
per operation.
- `SelectInv` and `JoinInv`: what the receiver has said of its future is so, and
  what it is told is what the initiator resolved, on grounds it had.
- `StartInv`: the exchange has four stages, each with the one packet that is on
  its way (`StartStage`); it gives the initiator the later of the time the
  receiver fixed, on the initiator's clock, and the arrival of the Ack.
- `ChannelInv`: a node that was halted has taken the Halt from its stream and
  not verified it yet, and a Halt or its verification is on its way once.

`ConversationInv` is `SubInv` of the instance that the run plays, and
`ConversationsSound` follows from it and from `ChannelInv`.

**SQL.** `ListedAtBoth` is not inductive: `hyperlan_peer_exists` asks for
exactly one row, so one direction must have as many rows as the other
(`SameRows`). `SqlInv` adds the types and that rows belong to accounts;
`CascadeSound` is the case of a deletion and of the purge.

**Redis.** What a query shows of a registered account is spread over several keys,
and a script may stop half way when an account it names is gone. `RedisInv` has
the types, `KeysAgree` (the keys of every registered account, whatever is left
of others, agree, and a server lists two registered accounts at both or at
neither) and `SyncingSound` (a list that is deleted and not yet added back belongs
to an account of a client); `KeysSuffice` derives what `QueriesAgree` says of
Redis. The case that needs most is `DeleteSound`: the script finds the lists an
account is on by the account's own list, which are all of them because a server
lists two accounts at both. A deleted account may leave lists and bytes behind,
so the theorem assumes `Reuse = FALSE`, and it assumes that the lists of an
instance name its accounts.

**Only model-checked.** All liveness: fairness and `ENABLED` are out of the
prover's reach. So is induction over data, which the bytes of a group would need
(`GroupIsConfirmed`), and the lists of memory and files, which are folds
(`QueriesAgree` in memory, `RestartKeeps`). Key agreement, the accounting of locks and the refinement
of `RatchetAgreement` hold under the restrictions of section 3 only, so a
theorem about `RatchetUpdate` for every value of its constants would be false.
For the sessions, the peers, the message groups, the files, the read-write lock
and the refinements of `WaveTransfer` and `AccountStore` no inductive invariant
is given. `QueriesAgree` speaks of all backends at once: its parts for Redis and
SQL are proved in `DatabaseProofs`.

## 5. Variations

Changes of an instance, or properties that are defined in a module and that no
run checks, under which TLC finds a violation. They show why the instances of
section 3 are restricted as they are. Line numbers are those of the code that
causes it.

**RatchetUpdate.**
- `MultiThreaded` with rekeys: what is on its way does not open, locks are lost,
  the refinement fails (`session.rs:934`).
- `Droppers` not empty: the ends are not in step at rest, as no acknowledgement
  follows a message that could not be delivered (`primary_group_packet.rs:138`).
- `Perfect`: the poll of an empty queue leaves the lock set for good
  (`state_container.rs:1515`), so `LocksSound` and `QuiescentAgreement` fail and
  not every message is delivered. With rekeys no poll follows STAGE1
  (`rekey_packet.rs:113`). With `BasePerfect = FALSE`, GROUP_HEADER_ACK asks the
  session with the server for its mode (`primary_group_packet.rs:282`).
- `Direct`: `UsableAtBothEnds`, `LocksSound` and `QuiescentAgreement` fail. The
  TRUNCATE goes through the server, later exchanges take the direct stream
  (`primary_group_packet.rs:334`).

**GroupSplitter.** Lengths that are exact multiples of a wave (5, 10): with
three ports `EveryPacketFits` fails, a packet indexes beyond its wave; with two
the group never completes (`crypt_splitter.rs:120`). `get_missing_waves` has no
caller, so a lost packet is not asked for.

**FileTransfer.**
- In "cross", `StatusesInOrder` fails and an accepted file may not arrive: transfers in
  both directions share the map of handles (`state_container.rs:1166`).
- A receiver that drops an accepted handle, a read error of the scrambler or a
  local file that cannot be created leaves the sender without an answer
  (1078); a decline is not told to the sender's kernel (1174).
- An empty file would underflow `groups_needed - 1` (`session.rs:1232`); a file
  has at least one group in the model.

**Sessions.**
- `RegistrationIsKept` fails: the test of a username and the save of the account
  are two awaits apart (`account_manager.rs:116`).
- `ForceIsNotRefused` fails: a forced login is refused like any other while a
  session is active (`preconnect_packet.rs:64`, `node.rs:885`).
- `EndedIsRemoved` and `UdpIsAlerted` fail in "attempt" (`session_manager.rs:316`).
- `MayExpire` with two links: `ClientEntryIsLive` fails, as a provisional entry
  is found by address only (`session_manager.rs:638`).

**OrderedDelivery.** A message that is sent after a file is stored by the ordered
channel and not delivered: the groups of the file were given the ids before it
(`session.rs:1263`), and the channel waits for these (`ordered_channel.rs:30`).
`AllDelivered` speaks of what was sent before the first file. `RatchetUpdate`, and so
`MessagesInOrder`, has no files.

**Peers.**
- A connection that is made half way through a disconnection of the same two peers
  may be left in one of the two lists (`peer_cmd_packet.rs:1160`,
  `session_manager.rs:953`). When the session of the peer that is not listed ends,
  the server meets the case it logs as one to report (`session_manager.rs:410`).
  `server.crossed` records such connections, and `VconnsAreListed` leaves them out.
  With that, scene "part" with dropped channels holds too (565,178 states).
- In "part" `OneAnswer` fails: a connect request that ends in an error, as the peer
  left during the key exchange, keeps its ticket, and a later connection is handed
  out under it. The cause is that of `peers_declined`.
- `MayDrop`: `ActiveAtBothEnds` fails, since the delayed removal goes by the cid
  of the peer (`peer_cmd_packet.rs:143`).
- `Overlaps` with three tickets: `ChannelKeysAgree` fails (579); with two,
  `ActiveAtBothEnds` and `EveryRequestAnswered` do.
- `MaxLogin = 2`: `AcceptedIsRegistered` fails, and `on_session_shutdown` that
  runs late clears the mailbox of the new session (`session_manager.rs:380`,
  `peer_layer.rs:144`).
- Four tickets: a deregistration that crosses another may find the pair gone
  (951); a time-out sends a request back that was answered (1402).

**Groups.** `JoinHonoured` fails: the owner's answer to a request to join is
taken for the owner's own acceptance (`group_broadcast.rs:104`, doc at 35).
`SessionSurvives` fails when a member leaves and joins again, or is added while
invited (524). A kernel that drops the channel of an earlier membership after it has
joined again leaves the group with it (`group_channel.rs:153`). `InvitationHonoured` fails for peers invited by `Add`.

**netbeam.**
- A channel whose halves are dropped at once: both tasks wait for a packet of the
  other (`bi_channel.rs:185`); `Closes` excludes it.
- A conversation that only one node drops: its close waits for the other node and
  keeps the lock on the receivers (`network_application.rs:62`), so that no other
  conversation of the node closes and none is opened. `Closes` assumes that the other
  node drops it at some time.
- `other_side_succeeded` of `NetSelectOkResult` does not say whether the future of the
  other side succeeded, as its doc does (`net_select_ok.rs:73`): the preferred end
  may say no although the future of the other side has succeeded (146).
  Stated of both results, `BothDone => \A n \in Node : ret[Peer(n)] = "ok" =>
  result[n].other_side_succeeded` fails. `SameOutcome` has the converse: where it
  says yes, the future of the other side has a value.

**Backends**, by the assumption that is dropped:
- `Repeats`: a pair is listed twice and one deregistration removes one
  (`client_account.rs:340`); in SQL, two rows make `hyperlan_peer_exists`, which
  asks for exactly one, false (`mysql_backend.rs:504`).
- `MayOverlap`: a value stored between the two statements of a removal is
  deleted and never handed out (`mysql_backend.rs:687`).
- `MayOverwrite`: a row is inserted beside the one that is there, and a read
  returns either (724).
- `Repeats`, in memory: a pair that is registered between the two steps of a
  deregistration is left with one half (`client_account.rs:366`).
- `Reuse`: a Redis script that fails half way leaves entries of accounts that are
  gone (`redis_backend.rs:247`), and deleting an account leaves its byte map (180);
  an account registered later under the same cid finds both. `get_hyperlan_peers`
  fails, rather than skip it, when an account on the list has no name (468).
- Files: the other accounts are not saved when one is deleted, so that they list
  it again after a restart (`filesystem_backend.rs:72`); a crash between two
  saves leaves one half of a pair; a purge that meets a deletion fails half way
  (89). Calls on one account that overlap write its file without a lock, so an older
  state, or a file that cannot be read, may remain, and a deletion may be undone or
  be followed by a save that fails (49). `RestartKeeps` speaks of what these leave
  alone.
- SQL: synchronising with an empty list does nothing (`mysql_backend.rs:619`),
  where the list in memory (`client_account.rs:394`) loses what is not listed.

## 6. Not modelled, and why

- **Cryptography** (`citadel_pqcrypto`, `dpb_kem`, ratchet construction,
  entropy banks, argon): arithmetic, without protocol state. Failures of a
  primitive are left out.
- **Packet layout**: the bytes of headers and payloads. What packets carry and
  what their validation decides is in the modules.
- **Anti-replay container**: a window over the packet ids of one stream, which
  delivers in order; nothing in the modelled code reorders what it sees.
- **NAT identification, hole punching, sockets, QUIC, TLS**: network I/O in real
  time. The joint operations that hole punching rests on are modelled; its
  outcome is a choice in `Sessions` and `Peers`. Loss on a stream is not
  modelled: streams are TCP, TLS or QUIC, reliable until a link breaks.
- **Keep-alives and the session queue**: what matters is the distance of real
  times. Timers whose firing matters to a property are actions of the modules
  that set them, and may fire at any time.
- **Kernel executor, SDK**: hand requests and results over, without state that
  two of them share but the protocol's. What is told to a kernel, and in which
  order, is state of the modules.
- **Locks of two accounts**: a registration in memory is one step. The code locks the
  two accounts in the order they are named (`client_account.rs:333`), which two
  registrations of a pair from both sides at once must not do on two threads.
- **Shutdown of a whole node**, metrics, the paged listing of account metadata,
  streaming of objects into a backend.
- **The way through another server** (HyperWAN): not finished in the code.
- **net_join**: `try_join` without failures. **sync_establish_init**: the
  exchange of the initial values of a lock.
- **Firebase, logging, runtime, secure buffers**: I/O and glue.

`components` in `PROJECT.json` gives the state of every part.
