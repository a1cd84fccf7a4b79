--------------------------- MODULE MCRekeySettings ---------------------------
(***************************************************************************)
(* RatchetUpdate in the settings a session may have.  "setting" says which *)
(* of them a behaviour is about; the setting of the constants themselves   *)
(* is "best effort".                                                       *)
(***************************************************************************)
EXTENDS MCRatchetUpdate

VARIABLE setting

allVars == <<setting, vars>>

\* The same, smaller, for liveness
Plain == INSTANCE RatchetUpdate WITH
    Perfect <- FALSE, BasePerfect <- FALSE, Direct <- FALSE,
    MultiThreaded <- FALSE, MAX_HYPER_RATCHETS_IN_MEMORY <- 2, MaxVersion <- 3, MaxId <- 3,
    MaxMessages <- Budget(2, 1), MaxRekeys <- Budget(1, 0), Droppers <- {}

\* The multi-threaded build
Threads == INSTANCE RatchetUpdate WITH
    Perfect <- FALSE, BasePerfect <- FALSE, Direct <- FALSE,
    MultiThreaded <- TRUE, MAX_HYPER_RATCHETS_IN_MEMORY <- 2, MaxVersion <- 3, MaxId <- 3,
    MaxMessages <- Budget(3, 2), MaxRekeys <- Budget(0, 0), Droppers <- {}

\* SecrecyMode::Perfect
Secret == INSTANCE RatchetUpdate WITH
    Perfect <- TRUE, BasePerfect <- TRUE, Direct <- FALSE,
    MultiThreaded <- FALSE, MAX_HYPER_RATCHETS_IN_MEMORY <- 2, MaxVersion <- 3, MaxId <- 3,
    MaxMessages <- Budget(3, 2), MaxRekeys <- Budget(0, 0), Droppers <- {}

\* Two peers with a stream of their own beside the server's
TwoStreams == INSTANCE RatchetUpdate WITH
    Perfect <- FALSE, BasePerfect <- FALSE, Direct <- TRUE,
    MultiThreaded <- FALSE, MAX_HYPER_RATCHETS_IN_MEMORY <- 2, MaxVersion <- 3, MaxId <- 3,
    MaxMessages <- Budget(3, 1), MaxRekeys <- Budget(0, 0), Droppers <- {}

\* Applications that may drop their receivers
Deaf == INSTANCE RatchetUpdate WITH
    Perfect <- FALSE, BasePerfect <- FALSE, Direct <- FALSE,
    MultiThreaded <- FALSE, MAX_HYPER_RATCHETS_IN_MEMORY <- 2, MaxVersion <- 3, MaxId <- 3,
    MaxMessages <- Budget(2, 1), MaxRekeys <- Budget(1, 0), Droppers <- Peers

SettingsInit ==
    \/ setting = "best effort" /\ Init
    \/ setting = "plain" /\ Plain!Init
    \/ setting = "threads" /\ Threads!Init
    \/ setting = "perfect" /\ Secret!Init
    \/ setting = "direct" /\ TwoStreams!Init
    \/ setting = "dropped" /\ Deaf!Init

In(s) == setting = s /\ UNCHANGED setting

SettingsNext ==
    \/ In("best effort") /\ Next
    \/ In("plain") /\ Plain!Next
    \/ In("threads") /\ Threads!Next
    \/ In("perfect") /\ Secret!Next
    \/ In("direct") /\ TwoStreams!Next
    \/ In("dropped") /\ Deaf!Next

(***************************************************************************)
(* Packets arrive and are handled: the streams are reliable and their      *)
(* readers run for as long as the session does.  Nobody has to send.       *)
(***************************************************************************)
SettingsSpec ==
    /\ SettingsInit /\ [][SettingsNext]_allVars
    /\ WF_allVars(In("plain") /\ \E p \in Peers, path \in Paths : Plain!Delivery(p, path))
-----------------------------------------------------------------------------
\* One key per version, in toolsets of bounded size; and, unless packets take two
\* streams, whatever is on its way opens and what either end encrypts with both hold.
EndsUnderstandEachOther ==
    /\ KeyAgreement /\ WindowBounded
    /\ setting # "direct" => InFlightOpens /\ UsableAtBothEnds

\* The lock of an update and the ticket of a rekey are neither lost nor released
\* twice.  (SecrecyMode::Perfect takes the lock again without recording an owner,
\* and over two streams a TRUNCATE may come after the lock was released.)
LocksAccounted == setting \notin {"perfect", "direct"} => LocksSound

\* Once nothing is on its way the ends are in step, in the multi-threaded build
\* too.  (In SecrecyMode::Perfect the poll of an empty queue leaves the lock set.)
AgreeAtRest == setting \in {"best effort", "plain", "threads"} => QuiescentAgreement

\* In SecrecyMode::Perfect a queued message waits only for an update in progress:
\* whoever ends the update takes the next one off (poll_next_enqueued).
QueueWaitsForUpdate == setting = "perfect" => QueuedOnlyWhileLocked

\* With one stream, the session implements RatchetAgreement: its exchanges happen
\* one after the other, each in three steps, however the packets interleave.
SessionImplementsAgreement ==
    [][ /\ setting \in {"best effort", "plain"} => [Agreement!NextKeys]_(Agreement!keys)
        /\ setting = "threads" => [Threads!Agreement!NextKeys]_(Threads!Agreement!keys)
        /\ setting = "perfect" => [Secret!Agreement!NextKeys]_(Secret!Agreement!keys)
        /\ setting = "dropped" => [Deaf!Agreement!NextKeys]_(Deaf!Agreement!keys) ]_allVars

\* Messages are delivered, rekey requests answered and the locks of updates
\* released, whatever the packets of the two ends do to each other.
UpdatesEnd ==
    /\ <>[](setting = "plain" =>
              \A p \in Peers : /\ Len(state[p].inbox.sink) = state[Peer(p)].submitted
                               /\ state[p].rekeys = state[p].answered)
    /\ \A p \in Peers :
          (setting = "plain" /\ state[p].crypt.update_in_progress)
              ~> (setting = "plain" /\ ~state[p].crypt.update_in_progress)
=============================================================================
