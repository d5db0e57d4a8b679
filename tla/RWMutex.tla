------------------------------- MODULE RWMutex -------------------------------
(***************************************************************************)
(* sync.RWMutex as locked.go uses it.  Lock has two parts: it takes the    *)
(* place of the writer, from where new readers queue behind it, and then   *)
(* waits for the readers it found.  Unlock admits every queued reader      *)
(* before the next writer can find the place free.                         *)
(***************************************************************************)
CONSTANT nobody   \* no goroutine

VARIABLES
  writer,    \* the goroutine that holds the writer's place, or nobody
  awaited,   \* the readers it still waits for
  readers,   \* the goroutines that hold a read lock
  queued     \* the goroutines that RLock has blocked

mutex == <<writer, awaited, readers, queued>>

MutexInit ==
  /\ writer = nobody
  /\ awaited = {} /\ readers = {} /\ queued = {}

LockBegin(p) ==
  /\ writer = nobody
  /\ writer' = p /\ awaited' = readers
  /\ UNCHANGED <<readers, queued>>

HasLock(p) == writer = p /\ awaited = {}

Unlock(p) ==
  /\ writer' = nobody
  /\ readers' = readers \cup queued /\ queued' = {}
  /\ UNCHANGED awaited

RLockBegin(p) ==
  /\ \/ writer = nobody /\ readers' = readers \cup {p} /\ UNCHANGED queued
     \/ writer # nobody /\ queued' = queued \cup {p} /\ UNCHANGED readers
  /\ UNCHANGED <<writer, awaited>>

HasRLock(p) == p \in readers

RUnlock(p) ==
  /\ readers' = readers \ {p} /\ awaited' = awaited \ {p}
  /\ UNCHANGED <<writer, queued>>
=============================================================================
