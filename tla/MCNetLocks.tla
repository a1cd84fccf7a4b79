----------------------------- MODULE MCNetLocks -----------------------------
(***************************************************************************)
(* Small instances of the locks of netbeam.  "lock" says which of them a   *)
(* behaviour is about; the variables of the other stay fixed.  The         *)
(* constants themselves are those of the mutex that is kept.               *)
(***************************************************************************)
EXTENDS NetMutex, TLC

CONSTANT
    DroppedTime   \* MaxTime of the locks that the nodes may drop

VARIABLES
    lock,
    rwNode, rwChan, rwLatest, acquires   \* NetRwLock

rwVars == <<rwNode, rwChan, rwLatest, acquires>>

allVars == <<lock, vars, rwVars>>

\* The locks do not look at the RelativeNodeType.
Symmetry == Permutations(Node)

M == INSTANCE NetMutex WITH MaxTime <- DroppedTime, MayHalt <- TRUE

RW == INSTANCE NetRwLock WITH
        MaxTime <- DroppedTime, MaxAcquires <- 2, MaxGuards <- 1, MaxAlerts <- 1, MayHalt <- TRUE,
        node <- rwNode, chan <- rwChan, latest <- rwLatest

KRW == INSTANCE NetRwLock WITH
        MaxAcquires <- 3, MaxGuards <- 1, MaxAlerts <- 1, MayHalt <- FALSE,
        node <- rwNode, chan <- rwChan, latest <- rwLatest

LocksInit ==
    \/ lock \in {"mutex", "kept mutex"} /\ Init
       /\ rwNode = 0 /\ rwChan = 0 /\ rwLatest = 0 /\ acquires = 0
    \/ lock = "rwlock" /\ RW!Init /\ Init
    \/ lock = "kept rwlock" /\ KRW!Init /\ Init

LocksNext ==
    \/ lock = "mutex" /\ M!Next /\ UNCHANGED <<lock, rwVars>>
    \/ lock = "kept mutex" /\ Next /\ UNCHANGED <<lock, rwVars>>
    \/ lock = "rwlock" /\ RW!Next /\ UNCHANGED <<lock, vars>>
    \/ lock = "kept rwlock" /\ KRW!Next /\ UNCHANGED <<lock, vars>>

LocksSpec == LocksInit /\ [][LocksNext]_allVars
-----------------------------------------------------------------------------
IsRwLock == lock \in {"rwlock", "kept rwlock"}

\* One writer at a time, alone on its node, and it starts from the value the
\* latest writer left.
RwGuards == IsRwLock => KRW!TypeOK /\ KRW!OneWriter /\ KRW!WriterIsFresh

\* A writer excludes every other guard.
RwWriterExcludesAll == IsRwLock => KRW!WriterExcludesAll
=============================================================================
