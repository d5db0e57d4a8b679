----------------------------- MODULE LockedTree -----------------------------
(***************************************************************************)
(* LockedTree (locked.go): a Tree behind a sync.RWMutex.  Each method      *)
(* checks its receiver, takes the write or the read lock, runs the Tree    *)
(* method of the same name, releases the lock and returns the result.      *)
(*                                                                         *)
(* The goroutines share the tree of ArtTree; nothing here but the lock     *)
(* keeps them to the usage contract of Tree.                               *)
(***************************************************************************)
EXTENDS ArtTree, RWMutex

ASSUME NobodyAssumption == nobody \notin Procs

VARIABLES
  constructed,   \* the receiver comes from NewLocked: its tree is not nil
  method         \* the method each goroutine is in

lockedVars == <<vars, mutex, constructed, method>>

Outside == [phase |-> "outside", req |-> none, result |-> none]

\* The methods that take the write lock; the others take the read lock.
IsWriterPutOnly(req) == req.op = "Put"

IsWriter(req) == req.op \in {"Put", "Delete", "Clear"}

GoTo(p, phase) == method' = [method EXCEPT ![p].phase = phase]

-----------------------------------------------------------------------------
LTInit ==
  /\ Init /\ MutexInit
  /\ constructed \in BOOLEAN
  /\ method = [p \in Procs |-> Outside]

CallMethod(p, req) ==
  /\ method[p].phase = "outside"
  /\ method' = [method EXCEPT ![p] = [Outside EXCEPT !.phase = "entered", !.req = req]]
  /\ UNCHANGED <<vars, mutex, constructed>>

\* requireConstructed lets the call through to the lock, or panics before it.
RequireConstructedUnderLock(p) ==
  /\ method[p].phase = "entered"
  /\ IF constructed THEN GoTo(p, "called") /\ UNCHANGED mutex
                    ELSE GoTo(p, "panicked") /\ LockBegin(p)
  /\ UNCHANGED <<vars, constructed>>

RequireConstructed(p) ==
  /\ method[p].phase = "entered"
  /\ GoTo(p, IF constructed THEN "called" ELSE "panicked")
  /\ UNCHANGED <<vars, mutex, constructed>>

\* The caller recovers from the panic.
Recover(p) ==
  /\ method[p].phase = "panicked"
  /\ method' = [method EXCEPT ![p] = Outside]
  /\ UNCHANGED <<vars, mutex, constructed>>

Acquire(p) ==
  /\ method[p].phase = "called"
  /\ IF IsWriter(method[p].req) THEN LockBegin(p) ELSE RLockBegin(p)
  /\ GoTo(p, "waiting")
  /\ UNCHANGED <<vars, constructed>>

CallTreeReadsUnlocked(p) ==
  /\ method[p].phase = "waiting"
  /\ IsWriter(method[p].req) => HasLock(p)
  /\ Begin(p, method[p].req)
  /\ GoTo(p, "inside")
  /\ UNCHANGED <<mutex, constructed>>

CallTree(p) ==
  /\ method[p].phase = "waiting"
  /\ IF IsWriter(method[p].req) THEN HasLock(p) ELSE HasRLock(p)
  /\ Begin(p, method[p].req)
  /\ GoTo(p, "inside")
  /\ UNCHANGED <<mutex, constructed>>

InTree(p) ==
  /\ method[p].phase = "inside"
  /\ Step(p)
  /\ UNCHANGED <<mutex, constructed, method>>

TreeReturns(p) ==
  /\ method[p].phase = "inside"
  /\ Return(p)
  /\ method' = [method EXCEPT ![p].phase = "returned", ![p].result = call[p].result]
  /\ UNCHANGED <<mutex, constructed>>

ReleaseWriteLock(p) ==
  /\ method[p].phase = "returned"
  /\ Unlock(p)
  /\ GoTo(p, "unlocked")
  /\ UNCHANGED <<vars, constructed>>

Release(p) ==
  /\ method[p].phase = "returned"
  /\ IF IsWriter(method[p].req) THEN Unlock(p) ELSE RUnlock(p)
  /\ GoTo(p, "unlocked")
  /\ UNCHANGED <<vars, constructed>>

ReturnResult(p) ==
  /\ method[p].phase = "unlocked"
  /\ method' = [method EXCEPT ![p] = Outside]
  /\ UNCHANGED <<vars, mutex, constructed>>

LTStep(p) ==
  \/ RequireConstructed(p) \/ Recover(p) \/ CallTree(p) \/ InTree(p) \/ TreeReturns(p)
  \/ Release(p) \/ ReturnResult(p)

LTNext ==
  \E p \in Procs :
    \/ \E req \in SM!Calls : CallMethod(p, req)
    \/ Acquire(p)
    \/ LTStep(p)

(***************************************************************************)
(* A goroutine keeps running.  The place of the writer may be taken from   *)
(* under a waiting goroutine any number of times: strong fairness is the   *)
(* starvation mode of the sync.Mutex inside sync.RWMutex.                  *)
(***************************************************************************)
LTFairness ==
  \A p \in Procs : WF_lockedVars(LTStep(p)) /\ SF_lockedVars(Acquire(p))

LTSpec == LTInit /\ [][LTNext]_lockedVars /\ LTFairness
-----------------------------------------------------------------------------
(***************************************************************************)
(* Properties.                                                             *)
(***************************************************************************)

\* A goroutine between taking and releasing its lock, and one that has it.
Claims(p) == method[p].phase \in {"waiting", "inside", "returned"}
Holds(p)  == method[p].phase \in {"inside", "returned"}

\* The lock's state and each goroutine's place in its method agree: what is
\* taken is released, once, as it was taken, by the goroutine that took it.
LTTypeOK ==
  /\ constructed \in BOOLEAN
  /\ writer \in Procs \cup {nobody}
  /\ awaited \subseteq readers /\ readers \cup queued \subseteq Procs
  /\ queued # {} => writer # nobody
  /\ readers \cap queued = {}
  /\ \A p \in Procs :
       /\ method[p].phase \in {"outside", "entered", "panicked", "called", "waiting",
                               "inside", "returned", "unlocked"}
       /\ writer = p <=> Claims(p) /\ IsWriter(method[p].req)
       /\ p \in readers \cup queued <=> Claims(p) /\ ~ IsWriter(method[p].req)

\* While Put, Delete or Clear runs on the tree no other method does: no reader
\* meets a node between two writes, and no two writers meet.
WritersExclude ==
  \A p, q \in Procs :
    p # q /\ Holds(p) /\ Holds(q) => method[p].req.op \notin SM!Writers

\* The calls that LockedTree makes on its Tree keep to the usage contract of
\* Tree, so that everything shown of Tree holds of the tree inside.
KeepsTreeContract == Init /\ [][Next]_vars

\* The state of a goroutine's method as its caller sees it.
MethodClient ==
  [p \in Procs |->
    IF ~ constructed \/ method[p].phase = "outside"
    THEN [phase |-> "idle", req |-> none, result |-> none]
    ELSE CASE method[p].phase \in {"entered", "called", "waiting"} ->
                [phase |-> "pending", req |-> method[p].req, result |-> none]
           [] method[p].phase = "inside" -> TreeClient[p]
           [] OTHER ->
                [phase |-> "applied", req |-> method[p].req,
                 result |-> IF method[p].req.op = "Clone" THEN method[p].result.leaves
                            ELSE method[p].result]]

LockedSM == INSTANCE SortedMap WITH dict <- leaves, client <- MethodClient

\* Seen from its callers, a LockedTree is an atomic sorted map: each method
\* takes effect at one instant between its call and its return, although the
\* lock is taken and released around it.
Linearizable == LockedSM!SMSpec

\* No caller waits for ever: not behind readers that keep coming, not behind
\* other writers, not behind a caller whose method panicked.
EveryMethodReturns ==
  \A p \in Procs : method[p].phase # "outside" ~> method[p].phase = "outside"
=============================================================================
