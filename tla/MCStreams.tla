----------------------------- MODULE MCStreams -----------------------------
(***************************************************************************)
(* Small instances of what a connection carries: the ordered channel of    *)
(* messages, one group of bytes and its packets, and files.                *)
(* "scene" says which of them a behaviour is about; the variables of the   *)
(* others stay fixed.                                                      *)
(***************************************************************************)
EXTENDS OrderedDelivery, NonceVersion

CONSTANTS Alice, Bob

VARIABLES
    scene,
    wire, receiver, acks, sender, repeats,         \* GroupSplitter, with group
    node, todo, net                                \* FileTransfer

splitting == <<group, wire, receiver, acks, sender, repeats>>

files == <<node, todo, net>>

allVars == <<scene, vars, splitting, files>>

Ends == {Alice, Bob}

From(a, b) == [n \in Ends |-> IF n = Alice THEN a ELSE b]

\* Lengths on both sides of the limits: of a packet (2), of a wave (5) and of two waves (10).
Split == INSTANCE GroupSplitter WITH
    Waveform <- 2, Tag <- 1, Lengths <- {1, 4, 6, 9, 12}, MaxRepeat <- 1

\* One file, accepted, declined or ignored
Single == INSTANCE FileTransfer WITH
    Node <- Ends, Plans <- {From(<<3>>, <<>>)}, WaveCount <- 3, ChannelLimit <- 2, MaxMessage <- From(0, 0),
    Responses <- {"accept", "decline", "drop"}, MayFail <- FALSE, MayExpire <- FALSE

\* Two files and a message that overlap
Pair == INSTANCE FileTransfer WITH
    Node <- Ends, Plans <- {From(<<2, 1>>, <<>>)}, WaveCount <- 2, ChannelLimit <- 1, MaxMessage <- From(1, 0),
    Responses <- {"accept", "decline"}, MayFail <- FALSE, MayExpire <- FALSE

\* A file each way
Cross == INSTANCE FileTransfer WITH
    Node <- Ends, Plans <- {From(<<1>>, <<2>>)}, WaveCount <- 2, ChannelLimit <- 1, MaxMessage <- From(0, 0),
    Responses <- {"accept"}, MayFail <- FALSE, MayExpire <- FALSE

\* One file while the disk fails and groups expire
Faulty == INSTANCE FileTransfer WITH
    Node <- Ends, Plans <- {From(<<3>>, <<>>)}, WaveCount <- 2, ChannelLimit <- 1, MaxMessage <- From(0, 0),
    Responses <- {"accept"}, MayFail <- TRUE, MayExpire <- TRUE

NoSplit == group = [id |-> 0] /\ wire = 0 /\ receiver = 0 /\ acks = 0 /\ sender = 0 /\ repeats = 0

NoFiles == node = 0 /\ todo = 0 /\ net = 0

StreamsInit ==
    /\ Init
    /\ \/ scene = "ordered" /\ NoSplit /\ NoFiles
       \/ scene = "split" /\ Split!SplitInit /\ NoFiles
       \/ scene = "single" /\ Single!FileInit /\ NoSplit
       \/ scene = "pair" /\ Pair!FileInit /\ NoSplit
       \/ scene = "cross" /\ Cross!FileInit /\ NoSplit
       \/ scene = "faulty" /\ Faulty!FileInit /\ NoSplit

Orders == scene = "ordered" /\ UNCHANGED <<scene, splitting, files>>
Splits == scene = "split" /\ UNCHANGED <<scene, vars, files>>
Sends(s) == scene = s /\ UNCHANGED <<scene, vars, splitting>>

StreamsNext ==
    \/ Orders /\ Next
    \/ Splits /\ Split!SplitNext
    \/ Sends("single") /\ Single!FileNext
    \/ Sends("pair") /\ Pair!FileNext
    \/ Sends("cross") /\ Cross!FileNext
    \/ Sends("faulty") /\ Faulty!FileNext

\* As the scene is fixed, each conjunct is the fairness of one component.
StreamsSpec ==
    /\ StreamsInit /\ [][StreamsNext]_allVars
    /\ WF_allVars(Orders /\ \E e \in network : Arrive(e))
    /\ \A n \in Ends :
          /\ WF_allVars(Sends("single") /\ Single!SendingStep(n))
          /\ WF_allVars(Sends("single") /\ Single!WritingStep(n))
          /\ WF_allVars(Sends("single") /\ Single!ReceiveStep(n))
-----------------------------------------------------------------------------
IsSplit == scene = "split"

IsFiles == scene \in {"single", "pair", "cross", "faulty"}

\* The types of the state of each component.
TypesOK == TypeOK /\ (IsSplit => Split!SplitTypeOK) /\ (IsFiles => Single!FileTypeOK)

\* However the packets of a group are shuffled or repeated, each is accepted or
\* recognised (on_packet_received of the group receiver), and when all packets and
\* acknowledgements have arrived, the group is there and the sender knows.
GroupIsConfirmed == IsSplit => Split!EveryPacketFits /\ Split!GroupIsConfirmed

\* A group is the waves that FileTransfer takes it for.
GroupIsItsWaves == INSTANCE WaveTransfer WITH
    waves <- IF IsSplit THEN 0..receiver.cfg.wave_count - 1 ELSE {},
    done <- IF IsSplit THEN Split!WavesDone ELSE {},
    rendered <- IsSplit /\ receiver.status = "GROUP_COMPLETE" /\ receiver.slab = Split!Plaintext(group.len),
    confirmed <- IsSplit /\ sender.complete

\* The splitter implements WaveTransfer: waves complete in any order, the bytes are there with the last one,
\* and the sender learns of it afterwards.
SplitterImplementsWaves == GroupIsItsWaves!Spec

\* ReceptionComplete is told of files that are complete, TransferComplete of files
\* that are stored, and the sender's kernel is told of a transfer in order.
StatusesAreTrue ==
    /\ IsFiles => Cross!FileIsWhole /\ Cross!SentMeansStored
    /\ scene \in {"single", "pair", "faulty"} => Cross!StatusesInOrder

\* The id of the next group of a file is free, and the answer to a group header
\* finds its group.
GroupsAreTracked == IsFiles => Cross!NextGroupIsFree /\ Cross!AnswersFindTheirGroup

\* An accepted file arrives and both kernels are told; a refused one ends the task
\* of its sender.
TransfersEnd ==
    \A n \in Ends :
        /\ (scene = "single" /\ Single!Accepted(n)) ~> (scene = "single" /\ Single!Arrived(n))
        /\ (scene = "single" /\ Single!Refused(n)) ~> (scene = "single" /\ Single!Abandoned(n))
=============================================================================
