--------------------------- MODULE LockedTreeProofs ---------------------------
(***************************************************************************)
(* For every number of goroutines, keys and values: the lock is taken and  *)
(* released consistently, writers exclude every other method, the tree is  *)
(* used within its contract, and each method takes effect at one instant.  *)
(*                                                                         *)
(* The inductive invariant is LockInv /\ InsideInv /\ CheckedInv /\        *)
(* TreeInv.  LockInv: the lock agrees with the methods (LTTypeOK), a       *)
(* writer in place awaits every reader there is (Waited), and who is past  *)
(* waiting has what it waited for (Granted).  InsideInv: the calls on the  *)
(* tree are those of the methods inside it.  CheckedInv: nobody gets past  *)
(* the constructor's check of a zero LockedTree.  TreeInv: the tree's own  *)
(* invariant, which the steps of a LockedTree keep because they are the    *)
(* steps of a tree that is used within its contract.                       *)
(***************************************************************************)
EXTENDS LockedTree, ArtTreeProofs

\* Where a goroutine can be in a method of LockedTree.
Phases == {"outside", "entered", "panicked", "called", "waiting",
           "inside", "returned", "unlocked"}

\* Every goroutine has the record of a method, in one of these places.
MethodOK ==
  /\ DOMAIN method = Procs
  /\ \A p \in Procs : /\ DOMAIN method[p] = DOMAIN Outside
                      /\ method[p].phase \in Phases

\* A writer that has announced itself awaits every reader there is.
Waited ==
  /\ writer # nobody => awaited = readers
  /\ writer = nobody => awaited = {} /\ queued = {}

\* Who is inside holds the side of the lock its method takes.
Granted ==
  \A p \in Procs : Holds(p) =>
    IF IsWriter(method[p].req) THEN HasLock(p) ELSE HasRLock(p)

\* The lock is claimed by exactly the methods between its Lock or RLock and
\* its Unlock or RUnlock, each on its own side.
Claimed ==
  /\ writer \in Procs \cup {nobody}
  /\ readers \cap queued = {}
  /\ \A p \in Procs :
       /\ writer = p <=> Claims(p) /\ IsWriter(method[p].req)
       /\ p \in readers \cup queued <=> Claims(p) /\ ~ IsWriter(method[p].req)

\* The lock and the methods agree.
LockInv ==
  /\ constructed \in BOOLEAN
  /\ readers \subseteq Procs /\ queued \subseteq Procs
  /\ MethodOK /\ Claimed /\ Waited /\ Granted

\* A new LockedTree is unlocked and nobody is in a method.
LEMMA InitLockInv == LTInit => LockInv
  BY NobodyAssumption
  DEF LTInit, MutexInit, LockInv, MethodOK, Claimed, Waited, Granted, Outside,
      Phases, Claims, Holds

\* Only p's method moves on, to the given phase.
Moves(p, phase) ==
  /\ DOMAIN method' = Procs
  /\ \A q \in Procs \ {p} : method'[q] = method[q]
  /\ DOMAIN method'[p] = DOMAIN Outside
  /\ method'[p].phase = phase

\* A method that moves on to a place is still a method.
LEMMA MovesMethodOK ==
  ASSUME MethodOK, NEW p \in Procs, NEW phase \in Phases, Moves(p, phase)
  PROVE  MethodOK'
  BY DEF MethodOK, Moves

\* GoTo moves one method on and keeps its request.
LEMMA GoToMoves ==
  ASSUME MethodOK, NEW p \in Procs, NEW phase \in Phases, GoTo(p, phase)
  PROVE  Moves(p, phase) /\ method'[p].req = method[p].req
  BY DEF MethodOK, Moves, GoTo, Outside

\* Without touching the lock, a method may go where it claims what it claimed
\* and holds nothing that it was not granted.
LEMMA LockUntouched ==
  ASSUME LockInv, UNCHANGED <<mutex, constructed>>,
         NEW p \in Procs, NEW phase \in Phases, Moves(p, phase),
         Claims(p) <=> phase \in {"waiting", "inside", "returned"},
         Claims(p) => method'[p].req = method[p].req,
         phase \in {"inside", "returned"} =>
           IF IsWriter(method[p].req) THEN HasLock(p) ELSE HasRLock(p)
  PROVE  LockInv'
<1>1. MethodOK'
  BY MovesMethodOK DEF LockInv
<1>2. Claimed' /\ Waited'
  BY DEF LockInv, mutex, Claimed, Waited, Claims, Moves, IsWriter
<1>3. Granted'
  BY DEF LockInv, mutex, Granted, Claims, Holds, HasLock, HasRLock, Moves, IsWriter
<1>4. QED
  BY <1>1, <1>2, <1>3 DEF LockInv, mutex

\* Every step keeps the lock and the methods in agreement.
LEMMA NextLockInv == LockInv /\ [LTNext]_lockedVars => LockInv'
<1> SUFFICES ASSUME LockInv, [LTNext]_lockedVars
             PROVE  LockInv'
  OBVIOUS
<1>0. MethodOK
  BY DEF LockInv
<1>1. ASSUME UNCHANGED lockedVars
      PROVE  LockInv'
  BY <1>1 DEF lockedVars, mutex, LockInv, MethodOK, Claimed, Waited, Granted, Claims,
              Holds, HasLock, HasRLock
<1>2. ASSUME NEW p \in Procs, NEW req, CallMethod(p, req)
      PROVE  LockInv'
  <2>1. Moves(p, "entered")
    BY <1>0, <1>2 DEF CallMethod, Moves, MethodOK, Outside
  <2>2. QED
    BY <1>2, <2>1, LockUntouched DEF CallMethod, Claims, Phases
<1>3. ASSUME NEW p \in Procs, RequireConstructed(p)
      PROVE  LockInv'
  <2> DEFINE phase == IF constructed THEN "called" ELSE "panicked"
  <2>1. GoTo(p, phase) /\ phase \in {"called", "panicked"}
    BY <1>3 DEF RequireConstructed
  <2> HIDE DEF phase
  <2>2. QED
    BY <1>0, <1>3, <2>1, GoToMoves, LockUntouched DEF RequireConstructed, Claims, Phases
<1>4. ASSUME NEW p \in Procs, Recover(p)
      PROVE  LockInv'
  <2>1. Moves(p, "outside")
    BY <1>0, <1>4 DEF Recover, Moves, MethodOK, Outside
  <2>2. QED
    BY <1>4, <2>1, LockUntouched DEF Recover, Claims, Phases
<1>5. ASSUME NEW p \in Procs, Acquire(p)
      PROVE  LockInv'
  <2>1. Moves(p, "waiting") /\ method'[p].req = method[p].req
    BY <1>0, <1>5, GoToMoves DEF Acquire, Phases
  <2>2. MethodOK'
    BY <1>0, <2>1, MovesMethodOK DEF Phases
  <2>3. ~ Claims(p) /\ ~ Holds(p) /\ p # nobody
    BY <1>5, NobodyAssumption DEF Acquire, Claims, Holds
  <2>4. CASE IsWriter(method[p].req)
    <3>1. LockBegin(p)
      BY <1>5, <2>4 DEF Acquire
    <3>2. Claimed' /\ Waited'
      BY <2>1, <2>3, <2>4, <3>1, NobodyAssumption
      DEF LockInv, LockBegin, Claimed, Waited, Claims, Moves, IsWriter
    <3>3. Granted'
      BY <2>1, <2>3, <2>4, <3>1, NobodyAssumption
      DEF LockInv, LockBegin, Claimed, Granted, Claims, Holds, HasLock, HasRLock,
          Moves, IsWriter
    <3>4. QED
      BY <1>5, <2>2, <3>1, <3>2, <3>3 DEF LockInv, LockBegin, Acquire
  <2>5. CASE ~ IsWriter(method[p].req)
    <3>1. RLockBegin(p)
      BY <1>5, <2>5 DEF Acquire
    <3>2. Claimed' /\ Waited'
      BY <2>1, <2>3, <2>5, <3>1
      DEF LockInv, RLockBegin, Claimed, Waited, Claims, Moves, IsWriter
    <3>3. Granted'
      BY <2>1, <2>3, <2>5, <3>1
      DEF LockInv, RLockBegin, Granted, Claims, Holds, HasLock, HasRLock, Moves, IsWriter
    <3>4. QED
      BY <1>5, <2>2, <3>1, <3>2, <3>3 DEF LockInv, RLockBegin, Acquire
  <2>6. QED
    BY <2>4, <2>5
<1>6. ASSUME NEW p \in Procs, CallTree(p)
      PROVE  LockInv'
  BY <1>0, <1>6, GoToMoves, LockUntouched DEF CallTree, Claims, Phases
<1>7. ASSUME NEW p \in Procs, InTree(p)
      PROVE  LockInv'
  BY <1>7 DEF InTree, mutex, LockInv, MethodOK, Claimed, Waited, Granted, Claims,
              Holds, HasLock, HasRLock
<1>8. ASSUME NEW p \in Procs, TreeReturns(p)
      PROVE  LockInv'
  <2>1. Moves(p, "returned") /\ method'[p].req = method[p].req
    BY <1>0, <1>8 DEF TreeReturns, Moves, MethodOK, Outside
  <2>2. Claims(p) /\ IF IsWriter(method[p].req) THEN HasLock(p) ELSE HasRLock(p)
    BY <1>8 DEF TreeReturns, LockInv, Granted, Holds, Claims
  <2>3. QED
    BY <1>8, <2>1, <2>2, LockUntouched DEF TreeReturns, Phases
<1>9. ASSUME NEW p \in Procs, Release(p)
      PROVE  LockInv'
  <2>1. Moves(p, "unlocked") /\ method'[p].req = method[p].req
    BY <1>0, <1>9, GoToMoves DEF Release, Phases
  <2>2. MethodOK'
    BY <1>0, <2>1, MovesMethodOK DEF Phases
  <2>3. Claims(p) /\ Holds(p) /\ p # nobody
    BY <1>9, NobodyAssumption DEF Release, Claims, Holds
  <2>4. CASE IsWriter(method[p].req)
    <3>1. Unlock(p) /\ HasLock(p)
      BY <1>9, <2>3, <2>4 DEF Release, LockInv, Granted
    <3>2. readers = {}
      BY <2>3, <3>1 DEF LockInv, Waited, HasLock
    <3>3. Claimed' /\ Waited'
      BY <2>1, <2>3, <2>4, <3>1, <3>2, NobodyAssumption
      DEF LockInv, Unlock, HasLock, Claimed, Waited, Claims, Moves, IsWriter
    <3>4. Granted'
      BY <2>1, <2>3, <2>4, <3>1, <3>2
      DEF LockInv, Unlock, Claimed, Granted, Claims, Holds, HasLock, HasRLock, Moves,
          IsWriter
    <3>5. QED
      BY <1>9, <2>2, <3>1, <3>3, <3>4 DEF LockInv, Unlock, Release
  <2>5. CASE ~ IsWriter(method[p].req)
    <3>1. RUnlock(p) /\ p \in readers
      BY <1>9, <2>3, <2>5 DEF Release, LockInv, Granted, HasRLock
    <3>2. Claimed' /\ Waited'
      BY <2>1, <2>3, <2>5, <3>1
      DEF LockInv, RUnlock, Claimed, Waited, Claims, Moves, IsWriter
    <3>3. Granted'
      BY <2>1, <2>3, <2>5, <3>1
      DEF LockInv, RUnlock, Granted, Claims, Holds, HasLock, HasRLock, Moves, IsWriter
    <3>4. QED
      BY <1>9, <2>2, <3>1, <3>2, <3>3 DEF LockInv, RUnlock, Release
  <2>6. QED
    BY <2>4, <2>5
<1>10. ASSUME NEW p \in Procs, ReturnResult(p)
       PROVE  LockInv'
  <2>1. Moves(p, "outside")
    BY <1>0, <1>10 DEF ReturnResult, Moves, MethodOK, Outside
  <2>2. QED
    BY <1>10, <2>1, LockUntouched DEF ReturnResult, Claims, Phases
<1>11. QED
  BY <1>1, <1>2, <1>3, <1>4, <1>5, <1>6, <1>7, <1>8, <1>9, <1>10
  DEF LTNext, LTStep

\* The lock's state and the methods' phases agree in every execution.
THEOREM LockAgreement == LTSpec => []LTTypeOK
<1>1. LockInv => LTTypeOK
  BY NobodyAssumption
  DEF LockInv, MethodOK, Phases, Claimed, Waited, LTTypeOK
<1>2. QED
  BY <1>1, InitLockInv, NextLockInv, PTL DEF LTSpec

\* No method is on the tree together with Put, Delete or Clear.
THEOREM MutualExclusion == LTSpec => []WritersExclude
<1>1. LockInv => WritersExclude
  BY NobodyAssumption
  DEF LockInv, WritersExclude, Granted, Waited, HasLock, HasRLock, IsWriter, SM!Writers
<1>2. QED
  BY <1>1, InitLockInv, NextLockInv, PTL DEF LTSpec
-----------------------------------------------------------------------------
(***************************************************************************)
(* LockedTree implements ArtTree: its steps are steps of the tree that the *)
(* usage contract permits, or leave the tree alone.  InsideInv ties the call *)
(* on the tree to the method it runs in.                                   *)
(***************************************************************************)
\* Every goroutine has the record of a call on the tree.
CallsOK ==
  /\ DOMAIN call = Procs
  /\ \A p \in Procs : DOMAIN call[p] = DOMAIN Idle

\* Who is inside the tree is on the call its method asked for; nobody else is.
InsideInv ==
  /\ CallsOK
  /\ \A p \in Procs :
       /\ call[p].phase = "idle" <=> method[p].phase # "inside"
       /\ method[p].phase = "inside" => call[p].req = method[p].req
       /\ method[p].phase # "outside" => method[p].req \in SM!Calls

\* p's call goes on, and no other call is affected.
Continues(p) ==
  /\ DOMAIN call' = Procs
  /\ \A q \in Procs \ {p} : call'[q] = call[q]
  /\ DOMAIN call'[p] = DOMAIN Idle
  /\ call'[p].phase # "idle" /\ call'[p].req = call[p].req

\* Whatever ends a step of the tree, its call goes on with the same request.
LEMMA FramesContinue ==
  ASSUME CallsOK, NEW p \in Procs, call[p].phase # "idle"
  PROVE  /\ \A r : ReturnNode(p, r) => Continues(p)
         /\ \A r : Unwind(p, r) => Continues(p)
         /\ \A x : Done(p, x) => Continues(p)
         /\ \A b, c, d : Recurse(p, b, c, d) => Continues(p)
         /\ Panic(p) => Continues(p)
<1>1. ASSUME NEW r, ReturnNode(p, r) PROVE Continues(p)
  BY <1>1 DEF ReturnNode, Continues, CallsOK, Idle
<1>2. ASSUME NEW r, Unwind(p, r) PROVE Continues(p)
  BY <1>2 DEF Unwind, Continues, CallsOK, Idle
<1>3. ASSUME NEW x, Done(p, x) PROVE Continues(p)
  BY <1>3 DEF Done, Continues, CallsOK, Idle
<1>4. ASSUME NEW b, NEW c, NEW d, Recurse(p, b, c, d) PROVE Continues(p)
  BY <1>4 DEF Recurse, Continues, CallsOK, Idle
<1>5. ASSUME Panic(p) PROVE Continues(p)
  BY <1>5 DEF Panic, Continues, CallsOK, Idle
<1>6. QED
  BY <1>1, <1>2, <1>3, <1>4, <1>5

\* So it does after every step inside the tree.
LEMMA StepContinues ==
  ASSUME CallsOK, NEW p \in Procs, Step(p)
  PROVE  Continues(p)
<1>1. call[p].phase # "idle"
  BY DEF Step, Entered, Ended, PutNil, PutLeaf, PutSplit, PutTerminal, PutAbsent,
         PutBesideLeaf, PutRecurse, PutResume, PutFinish, InPutInner, GetEnd, GetStep,
         DeleteLeaf, DeleteTerminal, DeleteMiss, DeleteRecurse, DeleteResume,
         DeleteFinish, LenStep, ClearStep, CloneStep, CloneFinish
<1>2. CASE PutNil(p) \/ PutLeaf(p) \/ PutSplit(p) \/ PutTerminal(p) \/ PutAbsent(p)
  BY <1>1, <1>2, FramesContinue DEF PutNil, PutLeaf, PutSplit, PutTerminal, PutAbsent
<1>3. CASE PutBesideLeaf(p) \/ PutRecurse(p) \/ PutResume(p) \/ PutFinish(p)
  BY <1>1, <1>3, FramesContinue DEF PutBesideLeaf, PutRecurse, PutResume, PutFinish
<1>4. CASE GetEnd(p) \/ LenStep(p) \/ ClearStep(p) \/ CloneFinish(p)
  BY <1>1, <1>4, FramesContinue DEF GetEnd, LenStep, ClearStep, CloneFinish
<1>5. CASE GetStep(p)
  BY <1>1, <1>5 DEF GetStep, Continues, CallsOK, Idle
<1>6. CASE CloneStep(p)
  BY <1>1, <1>6 DEF CloneStep, Continues, CallsOK, Idle
<1>7. CASE DeleteLeaf(p) \/ DeleteTerminal(p) \/ DeleteMiss(p)
  BY <1>1, <1>7, FramesContinue DEF DeleteLeaf, DeleteTerminal, DeleteMiss
<1>8. CASE DeleteRecurse(p) \/ DeleteResume(p) \/ DeleteFinish(p)
  BY <1>1, <1>8, FramesContinue DEF DeleteRecurse, DeleteResume, DeleteFinish
<1>9. QED
  BY <1>2, <1>3, <1>4, <1>5, <1>6, <1>7, <1>8 DEF Step

\* In a new LockedTree nobody is inside the tree.
LEMMA InitInsideInv == LTInit => InsideInv
  BY DEF LTInit, Init, InsideInv, CallsOK, Idle, Outside

\* Every step keeps the calls on the tree those of the methods inside it.
LEMMA NextInsideInv == LockInv /\ InsideInv /\ [LTNext]_lockedVars => InsideInv'
<1> SUFFICES ASSUME LockInv, InsideInv, [LTNext]_lockedVars
             PROVE  InsideInv'
  OBVIOUS
<1>0. MethodOK /\ CallsOK
  BY DEF LockInv, InsideInv
<1>1. CASE UNCHANGED lockedVars
  BY <1>1 DEF lockedVars, vars, InsideInv, CallsOK
<1>2. ASSUME NEW p \in Procs, NEW req \in SM!Calls, CallMethod(p, req)
      PROVE  InsideInv'
  BY <1>0, <1>2 DEF CallMethod, vars, InsideInv, CallsOK, MethodOK, Outside
<1>3. ASSUME NEW p \in Procs, RequireConstructed(p) \/ Acquire(p) \/ Release(p)
      PROVE  InsideInv'
  <2>1. PICK phase \in Phases \ {"inside", "outside"} :
          GoTo(p, phase) /\ UNCHANGED call
    BY <1>3 DEF RequireConstructed, Acquire, Release, vars, Phases
  <2>2. method[p].phase # "outside" /\ method[p].phase # "inside"
    BY <1>3 DEF RequireConstructed, Acquire, Release
  <2>3. Moves(p, phase) /\ method'[p].req = method[p].req
    BY <1>0, <2>1, GoToMoves
  <2>4. QED
    BY <2>1, <2>2, <2>3 DEF InsideInv, CallsOK, Moves
<1>4. ASSUME NEW p \in Procs, Recover(p) \/ ReturnResult(p)
      PROVE  InsideInv'
  BY <1>0, <1>4 DEF Recover, ReturnResult, vars, InsideInv, CallsOK, MethodOK, Outside
<1>5. ASSUME NEW p \in Procs, CallTree(p)
      PROVE  InsideInv'
  <2>1. Moves(p, "inside") /\ method'[p].req = method[p].req
    BY <1>0, <1>5, GoToMoves DEF CallTree, Phases
  <2>2. /\ DOMAIN call' = Procs /\ \A q \in Procs \ {p} : call'[q] = call[q]
        /\ DOMAIN call'[p] = DOMAIN Idle
        /\ call'[p].phase = "enter" /\ call'[p].req = method[p].req
    BY <1>0, <1>5 DEF CallTree, Begin, CallsOK, Idle
  <2>3. method[p].phase = "waiting"
    BY <1>5 DEF CallTree
  <2>4. QED
    BY <2>1, <2>2, <2>3 DEF InsideInv, CallsOK, Moves
<1>6. ASSUME NEW p \in Procs, InTree(p)
      PROVE  InsideInv'
  <2>1. Continues(p)
    BY <1>0, <1>6, StepContinues DEF InTree
  <2>2. QED
    BY <1>6, <2>1 DEF InTree, InsideInv, CallsOK, Continues
<1>7. ASSUME NEW p \in Procs, TreeReturns(p)
      PROVE  InsideInv'
  <2>1. Moves(p, "returned") /\ method'[p].req = method[p].req
    BY <1>0, <1>7 DEF TreeReturns, Moves, MethodOK, Outside
  <2>2. /\ DOMAIN call' = Procs /\ \A q \in Procs \ {p} : call'[q] = call[q]
        /\ call'[p] = Idle
    BY <1>0, <1>7 DEF TreeReturns, Return, CallsOK
  <2>3. method[p].phase = "inside"
    BY <1>7 DEF TreeReturns
  <2>4. QED
    BY <2>1, <2>2, <2>3 DEF InsideInv, CallsOK, Moves, Idle
<1>8. QED
  BY <1>1, <1>2, <1>3, <1>4, <1>5, <1>6, <1>7 DEF LTNext, LTStep

\* Whoever may enter the tree finds it as the usage contract asks.
LEMMA EntryPermitted ==
  ASSUME LockInv, InsideInv, NEW p \in Procs, CallTree(p)
  PROVE  Permitted(p, method[p].req)
<1>1. \A q \in Procs : call[q].phase # "idle" =>
        /\ Holds(q) /\ q # p /\ call[q].req = method[q].req
        /\ IF IsWriter(method[q].req) THEN HasLock(q) ELSE HasRLock(q)
  BY DEF CallTree, LockInv, InsideInv, Granted, Holds
<1>2. CASE IsWriter(method[p].req)
  <2>1. HasLock(p) /\ readers = {} /\ p # nobody
    BY <1>2, NobodyAssumption DEF CallTree, LockInv, Waited, HasLock
  <2>2. \A q \in Procs : call[q].phase = "idle"
    BY <1>1, <2>1 DEF HasLock, HasRLock
  <2>3. QED
    BY <2>2 DEF Permitted
<1>3. CASE ~ IsWriter(method[p].req)
  <2>1. p \in readers
    BY <1>3 DEF CallTree, HasRLock
  <2>2. \A q \in Procs : call[q].phase # "idle" => ~ IsWriter(call[q].req)
    BY <1>1, <2>1, NobodyAssumption DEF LockInv, Waited, HasLock
  <2>3. QED
    BY <1>3, <2>2 DEF Permitted, IsWriter, SM!Writers
<1>4. QED
  BY <1>2, <1>3

\* A step of a method is a step of the tree that its contract permits, or none.
LEMMA ContractStep ==
  ASSUME LockInv, InsideInv, [LTNext]_lockedVars
  PROVE  [Next]_vars
<1>1. ASSUME NEW p \in Procs, CallTree(p) PROVE Next
  <2>1. Permitted(p, method[p].req) /\ method[p].req \in SM!Calls
    BY <1>1, EntryPermitted DEF CallTree, InsideInv
  <2>2. QED
    BY <1>1, <2>1 DEF CallTree, Next
<1>2. ASSUME NEW p \in Procs, InTree(p) \/ TreeReturns(p) PROVE Next
  BY <1>2 DEF InTree, TreeReturns, Next
<1>3. ASSUME NEW p \in Procs,
             \/ \E req \in SM!Calls : CallMethod(p, req)
             \/ Acquire(p) \/ RequireConstructed(p) \/ Recover(p)
             \/ Release(p) \/ ReturnResult(p)
      PROVE  UNCHANGED vars
  BY <1>3 DEF CallMethod, Acquire, RequireConstructed, Recover, Release, ReturnResult
<1>4. CASE UNCHANGED lockedVars
  BY <1>4 DEF lockedVars
<1>5. QED
  BY <1>1, <1>2, <1>3, <1>4 DEF LTNext, LTStep

\* A LockedTree uses its Tree as Tree demands: all that holds of ArtTree's
\* executions holds of the tree behind the lock.
THEOREM TreeContractKept == LTSpec => KeepsTreeContract
<1>1. LTInit => Init
  BY DEF LTInit
<1>2. LockInv /\ InsideInv /\ [LTNext]_lockedVars => [Next]_vars
  BY ContractStep
<1>3. QED
  BY <1>1, <1>2, InitLockInv, NextLockInv, InitInsideInv, NextInsideInv, PTL
  DEF LTSpec, KeepsTreeContract
-----------------------------------------------------------------------------
(***************************************************************************)
(* LockedTree implements the sorted map: what the tree inside promises,    *)
(* its methods promise with the lock around it.                            *)
(***************************************************************************)
\* The method m, as its caller sees it when the caller's call on the tree is d.
MethodView(built, m, d) ==
  IF ~ built \/ m.phase = "outside"
  THEN [phase |-> "idle", req |-> none, result |-> none]
  ELSE CASE m.phase \in {"entered", "called", "waiting"} ->
              [phase |-> "pending", req |-> m.req, result |-> none]
         [] m.phase = "inside" -> d
         [] OTHER ->
              [phase |-> "applied", req |-> m.req,
               result |-> IF m.req.op = "Clone" THEN m.result.leaves ELSE m.result]

\* MethodClient, method by method.
LEMMA MethodViews ==
  /\ MethodClient = [p \in Procs |-> MethodView(constructed, method[p], TreeClient[p])]
  /\ MethodClient' = [p \in Procs |-> MethodView(constructed', method'[p], TreeClient'[p])]
  BY DEF MethodClient, MethodView

\* Nobody gets past the check of a LockedTree that was not constructed, and only
\* that check panics.
CheckedInv ==
  \A p \in Procs :
    IF constructed THEN method[p].phase # "panicked"
    ELSE method[p].phase \in {"outside", "entered", "panicked"}

\* The check is never passed by.
LEMMA NextCheckedInv ==
  LockInv /\ CheckedInv /\ [LTNext]_lockedVars => CheckedInv'
<1> SUFFICES ASSUME LockInv, CheckedInv, [LTNext]_lockedVars
             PROVE  CheckedInv'
  OBVIOUS
<1>0. MethodOK
  BY DEF LockInv
<1>1. CASE UNCHANGED lockedVars
  BY <1>1 DEF lockedVars, CheckedInv
<1>2. ASSUME NEW p \in Procs, NEW req, CallMethod(p, req)
      PROVE  CheckedInv'
  <2>1. Moves(p, "entered") /\ constructed' = constructed
    BY <1>0, <1>2 DEF CallMethod, Moves, MethodOK, Outside
  <2> QED BY <2>1 DEF CheckedInv, Moves
<1>3. ASSUME NEW p \in Procs, RequireConstructed(p)
      PROVE  CheckedInv'
  <2>1. constructed' = constructed
    BY <1>3 DEF RequireConstructed
  <2>2. CASE constructed
    <3>1. Moves(p, "called")
      BY <1>0, <1>3, <2>2, GoToMoves DEF RequireConstructed, Phases
    <3> QED BY <2>1, <2>2, <3>1 DEF CheckedInv, Moves
  <2>3. CASE ~ constructed
    <3>1. Moves(p, "panicked")
      BY <1>0, <1>3, <2>3, GoToMoves DEF RequireConstructed, Phases
    <3> QED BY <2>1, <2>3, <3>1 DEF CheckedInv, Moves
  <2> QED BY <2>2, <2>3
<1>4. ASSUME NEW p \in Procs, Recover(p) \/ ReturnResult(p)
      PROVE  CheckedInv'
  <2>1. Moves(p, "outside") /\ constructed' = constructed
    BY <1>0, <1>4 DEF Recover, ReturnResult, Moves, MethodOK, Outside
  <2> QED BY <2>1 DEF CheckedInv, Moves
<1>5. ASSUME NEW p \in Procs, Acquire(p) \/ CallTree(p) \/ Release(p) \/ TreeReturns(p)
      PROVE  CheckedInv'
  <2>1. /\ constructed' = constructed
        /\ method[p].phase \in {"called", "waiting", "returned", "inside"}
    BY <1>5 DEF Acquire, CallTree, Release, TreeReturns
  <2>2. constructed
    BY <2>1 DEF CheckedInv
  <2>3. Moves(p, "waiting") \/ Moves(p, "inside") \/ Moves(p, "unlocked") \/ Moves(p, "returned")
    <3>1. CASE Acquire(p)
      BY <1>0, <3>1, GoToMoves DEF Acquire, Phases
    <3>2. CASE CallTree(p)
      BY <1>0, <3>2, GoToMoves DEF CallTree, Phases
    <3>3. CASE Release(p)
      BY <1>0, <3>3, GoToMoves DEF Release, Phases
    <3>4. CASE TreeReturns(p)
      BY <1>0, <3>4 DEF TreeReturns, Moves, MethodOK, Outside
    <3> QED BY <1>5, <3>1, <3>2, <3>3, <3>4
  <2> QED BY <2>1, <2>2, <2>3 DEF CheckedInv, Moves
<1>6. ASSUME NEW p \in Procs, InTree(p)
      PROVE  CheckedInv'
  BY <1>6 DEF InTree, CheckedInv
<1> QED BY <1>1, <1>2, <1>3, <1>4, <1>5, <1>6 DEF LTNext, LTStep

\* The two sorted maps answer alike.
LEMMA SameAnswers ==
  ASSUME NEW req
  PROVE  /\ LockedSM!Answered(req) = SM!Answered(req) /\ LockedSM!Effect(req) = SM!Effect(req)
         /\ LockedSM!Calls = SM!Calls
<1>1. LockedSM!Effect(req) = SM!Effect(req)
  BY DEF LockedSM!Effect, SM!Effect, LockedSM!With, SM!With, LockedSM!Without, SM!Without,
         LockedSM!Empty, SM!Empty
<1>2. LockedSM!Count(leaves) = SM!Count(leaves)
  <2>1. \A S : LockedSM!Cardinality(S) = SM!Cardinality(S)
    BY DEF LockedSM!Cardinality, SM!Cardinality
  <2> QED BY <2>1 DEF LockedSM!Count, SM!Count
<1>3. LockedSM!Answered(req) = SM!Answered(req)
  BY <1>2 DEF LockedSM!Answered, SM!Answered
<1>4. LockedSM!Calls = SM!Calls
  BY DEF LockedSM!Calls, SM!Calls, LockedSM!KeyOps, SM!KeyOps, LockedSM!PlainOps, SM!PlainOps
<1> QED BY <1>1, <1>3, <1>4

\* A method is called: the sorted map sees its request arrive.
LEMMA MapCall ==
  ASSUME NEW p \in Procs, NEW req, MethodClient[p].phase = "idle", leaves' = leaves,
         MethodClient' = [MethodClient EXCEPT ![p] = Seen("pending", req, none)]
  PROVE  LockedSM!SMCall(p, req)
  BY DEF LockedSM!SMCall, Seen

\* A pending method takes effect.
LEMMA MapApply ==
  ASSUME NEW p \in Procs, NEW c, MethodClient[p] = c, c.phase = "pending",
         MethodClient' = [MethodClient EXCEPT ![p] =
                            [c EXCEPT !.phase = "applied", !.result = SM!Answered(c.req)]],
         leaves' = SM!Effect(c.req)
  PROVE  LockedSM!SMApply(p)
<1>1. LockedSM!Answered(c.req) = SM!Answered(c.req) /\ LockedSM!Effect(c.req) = SM!Effect(c.req)
  BY SameAnswers
<1> QED BY <1>1 DEF LockedSM!SMApply

\* A method that has taken effect returns.
LEMMA MapReturn ==
  ASSUME NEW p \in Procs, MethodClient[p].phase = "applied", leaves' = leaves,
         MethodClient' = [MethodClient EXCEPT ![p] = SM!IdleClient]
  PROVE  LockedSM!SMReturn(p)
  BY DEF LockedSM!SMReturn, LockedSM!IdleClient, SM!IdleClient

\* Only p's method is seen to move, to the view v.
LEMMA MethodMoves ==
  ASSUME NEW p \in Procs, constructed' = constructed,
         \A q \in Procs \ {p} : method'[q] = method[q] /\ TreeClient'[q] = TreeClient[q],
         NEW v, v = MethodView(constructed', method'[p], TreeClient'[p])
  PROVE  MethodClient' = [MethodClient EXCEPT ![p] = v]
<1>1. \A q \in Procs \ {p} : MethodView(constructed', method'[q], TreeClient'[q])
                                = MethodView(constructed, method[q], TreeClient[q])
  OBVIOUS
<1> QED BY <1>1, MethodViews

\* A step that keeps p's view is not seen at all.
LEMMA MethodUnseen ==
  ASSUME NEW p \in Procs, constructed' = constructed, leaves' = leaves,
         \A q \in Procs \ {p} : method'[q] = method[q] /\ TreeClient'[q] = TreeClient[q],
         MethodView(constructed, method'[p], TreeClient'[p])
           = MethodView(constructed, method[p], TreeClient[p])
  PROVE  UNCHANGED LockedSM!smVars
<1>1. \A q \in Procs : MethodView(constructed', method'[q], TreeClient'[q])
                          = MethodView(constructed, method[q], TreeClient[q])
  OBVIOUS
<1>2. MethodClient' = MethodClient
  BY <1>1, MethodViews
<1> QED BY <1>2 DEF LockedSM!smVars

\* What a caller sees in each phase of its method.
LEMMA ViewPhases ==
  ASSUME NEW built, NEW m, NEW d
  PROVE  /\ ~ built \/ m.phase = "outside" => MethodView(built, m, d) = SM!IdleClient
         /\ built /\ m.phase \in {"entered", "called", "waiting"} =>
              MethodView(built, m, d) = Seen("pending", m.req, none)
         /\ built /\ m.phase = "inside" => MethodView(built, m, d) = d
         /\ built /\ m.phase \in {"returned", "unlocked"} =>
              MethodView(built, m, d) =
                Seen("applied", m.req,
                     IF m.req.op = "Clone" THEN m.result.leaves ELSE m.result)
<1>1. ~ built \/ m.phase = "outside" => MethodView(built, m, d) = SM!IdleClient
  BY DEF MethodView, SM!IdleClient
<1>2. built /\ m.phase \in {"entered", "called", "waiting"} =>
        MethodView(built, m, d) = Seen("pending", m.req, none)
  BY DEF MethodView, Seen
<1>3. built /\ m.phase = "inside" => MethodView(built, m, d) = d
  BY DEF MethodView
<1>4. built /\ m.phase \in {"returned", "unlocked"} =>
        MethodView(built, m, d) =
          Seen("applied", m.req, IF m.req.op = "Clone" THEN m.result.leaves ELSE m.result)
  BY DEF MethodView, Seen
<1> QED BY <1>1, <1>2, <1>3, <1>4

\* Two states of one method between which it neither enters nor leaves the tree.
AsFar(m, n) ==
  /\ m.req = n.req /\ m.result = n.result
  /\ \/ m.phase \in {"entered", "called", "waiting"} /\ n.phase \in {"entered", "called", "waiting"}
     \/ m.phase \in {"returned", "unlocked"} /\ n.phase \in {"returned", "unlocked"}

\* Method m, with d for its call on the tree, looks like method n with e for it.
LooksAs(m, d, n, e) == MethodView(constructed, m, d) = MethodView(constructed, n, e)

\* A method looks the same while it waits for the tree, and while it has left it.
LEMMA SameView ==
  ASSUME NEW m, NEW n, NEW d, NEW e,
         constructed, AsFar(m, n)
  PROVE  LooksAs(m, d, n, e)
<1>0. m.req = n.req /\ m.result = n.result
  BY DEF AsFar
<1>1. CASE m.phase \in {"entered", "called", "waiting"} /\ n.phase \in {"entered", "called", "waiting"}
  <2>1. MethodView(constructed, m, d) = Seen("pending", m.req, none)
    BY <1>1, ViewPhases
  <2>2. MethodView(constructed, n, e) = Seen("pending", n.req, none)
    BY <1>1, ViewPhases
  <2> QED BY <1>0, <2>1, <2>2 DEF LooksAs
<1>2. CASE m.phase \in {"returned", "unlocked"} /\ n.phase \in {"returned", "unlocked"}
  <2> DEFINE Left(x) == IF x.req.op = "Clone" THEN x.result.leaves ELSE x.result
  <2>1. MethodView(constructed, m, d) = Seen("applied", m.req, Left(m))
    BY <1>2, ViewPhases
  <2>2. MethodView(constructed, n, e) = Seen("applied", n.req, Left(n))
    BY <1>2, ViewPhases
  <2>3. Left(m) = Left(n)
    BY <1>0
  <2> HIDE DEF Left
  <2> QED BY <1>0, <2>1, <2>2, <2>3 DEF LooksAs
<1> QED BY <1>1, <1>2 DEF AsFar, LooksAs

\* A method that has its result is seen as one whose effect has happened.
LEMMA LeftView ==
  ASSUME NEW built, built, NEW m, NEW d, m.phase = "unlocked"
  PROVE  MethodView(built, m, d).phase = "applied"
<1> DEFINE left == IF m.req.op = "Clone" THEN m.result.leaves ELSE m.result
<1>1. MethodView(built, m, d) = Seen("applied", m.req, left)
  BY ViewPhases
<1> HIDE DEF left
<1>2. Seen("applied", m.req, left).phase = "applied"
  BY DEF Seen
<1> QED BY <1>1, <1>2

\* The others' calls on the tree look the same when the tree and the calls do.
LEMMA TreeClientsSame ==
  UNCHANGED vars => TreeClient' = TreeClient /\ leaves' = leaves
  BY Clients DEF vars

\* A step inside the tree is what the tree's own invariant makes of it.
LEMMA InTreeSeen ==
  ASSUME LockInv, CheckedInv, TreeInv, NEW p \in Procs, InTree(p)
  PROVE  LockedSM!SMApply(p) \/ UNCHANGED LockedSM!smVars
<1> DEFINE c == TreeClient[p]
<1>1. method' = method /\ constructed' = constructed /\ method[p].phase = "inside" /\ Step(p)
  BY DEF InTree
<1>2. constructed
  BY <1>1 DEF CheckedInv
<1>3. MethodView(constructed, method[p], c) = c
      /\ MethodView(constructed', method'[p], TreeClient'[p]) = TreeClient'[p]
  BY <1>1, <1>2, ViewPhases
<1>4. CASE UNCHANGED SM!smVars
  <2>1. TreeClient' = TreeClient /\ leaves' = leaves
    BY <1>4 DEF SM!smVars
  <2> QED BY <1>1, <2>1, MethodUnseen
<1>5. CASE SM!SMApply(p)
  <2> DEFINE v == [c EXCEPT !.phase = "applied", !.result = SM!Answered(c.req)]
  <2>1. /\ c.phase = "pending" /\ TreeClient' = [TreeClient EXCEPT ![p] = v]
        /\ leaves' = SM!Effect(c.req)
    BY <1>5 DEF SM!SMApply
  <2> HIDE DEF v
  <2>2. TreeClient'[p] = v /\ \A q \in Procs \ {p} : TreeClient'[q] = TreeClient[q]
    BY <2>1, Clients
  <2>3. v = MethodView(constructed', method'[p], TreeClient'[p])
    BY <1>3, <2>2
  <2>4. MethodClient' = [MethodClient EXCEPT ![p] = v]
    BY <1>1, <2>2, <2>3, MethodMoves
  <2>5. MethodClient[p] = c
    BY <1>3, MethodViews
  <2> QED BY <2>1, <2>4, <2>5, MapApply DEF v
<1> QED BY <1>1, <1>4, <1>5, StepInv

\* A step of a LockedTree is a step of the sorted map, or none.
LEMMA NextSeen ==
  ASSUME LockInv, InsideInv, CheckedInv, TreeInv, [LTNext]_lockedVars
  PROVE  [LockedSM!SMNext]_LockedSM!smVars
<1>0. MethodOK
  BY DEF LockInv
<1>1. CASE UNCHANGED lockedVars
  <2>1. TreeClient' = TreeClient /\ leaves' = leaves
    BY <1>1, TreeClientsSame DEF lockedVars
  <2>2. MethodClient' = MethodClient
    BY <1>1, <2>1, MethodViews DEF lockedVars
  <2> QED BY <2>1, <2>2 DEF LockedSM!smVars
<1>2. ASSUME NEW p \in Procs, NEW req \in SM!Calls, CallMethod(p, req)
      PROVE  [LockedSM!SMNext]_LockedSM!smVars
  <2>1. /\ TreeClient' = TreeClient /\ leaves' = leaves /\ constructed' = constructed
        /\ method[p].phase = "outside"
    BY <1>2, TreeClientsSame DEF CallMethod
  <2>2. /\ \A q \in Procs \ {p} : method'[q] = method[q]
        /\ method'[p].phase = "entered" /\ method'[p].req = req
    BY <1>0, <1>2 DEF CallMethod, MethodOK, Outside
  <2>3. MethodClient[p] = SM!IdleClient
    BY <2>1, MethodViews, ViewPhases
  <2>4. CASE constructed
    <3> DEFINE v == Seen("pending", req, none)
    <3>1. v = MethodView(constructed', method'[p], TreeClient'[p])
      BY <2>1, <2>2, <2>4, ViewPhases
    <3>2. MethodClient' = [MethodClient EXCEPT ![p] = v]
      BY <2>1, <2>2, <3>1, MethodMoves
    <3>3. MethodClient[p].phase = "idle"
      BY <2>3 DEF SM!IdleClient
    <3>4. LockedSM!SMCall(p, req)
      BY <2>1, <3>2, <3>3, MapCall
    <3> QED BY <3>4, SameAnswers DEF LockedSM!SMNext
  <2>5. CASE ~ constructed
    <3>1. MethodView(constructed, method'[p], TreeClient'[p])
           = MethodView(constructed, method[p], TreeClient[p])
      BY <2>5, ViewPhases
    <3> QED BY <2>1, <2>2, <3>1, MethodUnseen
  <2> QED BY <2>4, <2>5
<1>3. ASSUME NEW p \in Procs, RequireConstructed(p) \/ Acquire(p) \/ Release(p) \/ Recover(p)
      PROVE  [LockedSM!SMNext]_LockedSM!smVars
  <2>1. TreeClient' = TreeClient /\ leaves' = leaves /\ constructed' = constructed
    BY <1>3, TreeClientsSame DEF RequireConstructed, Acquire, Release, Recover
  <2>2. /\ \A q \in Procs \ {p} : method'[q] = method[q]
        /\ constructed => /\ method'[p].req = method[p].req /\ method'[p].result = method[p].result
                          /\ \/ /\ method[p].phase \in {"entered", "called", "waiting"}
                                /\ method'[p].phase \in {"entered", "called", "waiting"}
                             \/ /\ method[p].phase \in {"returned", "unlocked"}
                                /\ method'[p].phase \in {"returned", "unlocked"}
    <3>1. CASE RequireConstructed(p)
      BY <1>0, <3>1 DEF RequireConstructed, GoTo, MethodOK, Outside
    <3>2. CASE Acquire(p)
      BY <1>0, <3>2 DEF Acquire, GoTo, MethodOK, Outside
    <3>3. CASE Release(p)
      BY <1>0, <3>3 DEF Release, GoTo, MethodOK, Outside
    <3>4. CASE Recover(p)
      BY <1>0, <3>4 DEF Recover, MethodOK, CheckedInv, Outside
    <3> QED BY <1>3, <3>1, <3>2, <3>3, <3>4
  <2>3. MethodView(constructed, method'[p], TreeClient'[p])
         = MethodView(constructed, method[p], TreeClient[p])
    <3>1. CASE ~ constructed
      BY <3>1, ViewPhases
    <3>2. CASE constructed
      <4>1. ASSUME NEW m, m = method[p], NEW n, n = method'[p], NEW d, NEW e
            PROVE  MethodView(constructed, m, d) = MethodView(constructed, n, e)
        <5>1. AsFar(m, n)
          BY <2>2, <3>2, <4>1 DEF AsFar
        <5>2. LooksAs(m, d, n, e)
          BY ONLY <3>2, <5>1, SameView
        <5> QED BY <5>2 DEF LooksAs
      <4> QED BY <4>1
    <3> QED BY <3>1, <3>2
  <2> QED BY <2>1, <2>2, <2>3, MethodUnseen
<1>4. ASSUME NEW p \in Procs, CallTree(p)
      PROVE  [LockedSM!SMNext]_LockedSM!smVars
  <2> DEFINE d == Starting(method[p].req, root, size)
  <2>1. /\ method[p].phase = "waiting" /\ constructed' = constructed
        /\ size' = size /\ leaves' = leaves
    BY <1>4 DEF CallTree, Begin, tree
  <2>2. constructed
    BY <2>1 DEF CheckedInv
  <2>3. Becomes(p, d)
    BY <1>4, CallBecomes DEF CallTree, Begin, Starting
  <2>4. /\ \A q \in Procs \ {p} : method'[q] = method[q]
        /\ method'[p].phase = "inside"
    BY <1>0, <1>4 DEF CallTree, GoTo, MethodOK, Outside
  <2>5. d.phase = "enter" /\ d.req = method[p].req /\ d.result = none
    BY StartingFields
  <2> HIDE DEF d
  <2>6. TreeClient' = [TreeClient EXCEPT ![p] = ClientOf(d, size)]
    BY <2>1, <2>3, OnlyCaller
  <2>7. ClientOf(d, size) = Seen("pending", method[p].req, none)
    BY <2>5, ClientPhases
  <2>8. /\ \A q \in Procs \ {p} : TreeClient'[q] = TreeClient[q]
        /\ TreeClient'[p] = Seen("pending", method[p].req, none)
    BY <2>6, <2>7, Clients
  <2>9. MethodView(constructed, method'[p], TreeClient'[p])
         = MethodView(constructed, method[p], TreeClient[p])
    <3>1. MethodView(constructed, method[p], TreeClient[p]) = Seen("pending", method[p].req, none)
      BY <2>1, <2>2, ViewPhases
    <3>2. MethodView(constructed, method'[p], TreeClient'[p]) = TreeClient'[p]
      BY <2>2, <2>4, ViewPhases
    <3> QED BY <2>8, <3>1, <3>2
  <2> QED BY <2>1, <2>4, <2>8, <2>9, MethodUnseen
<1>5. ASSUME NEW p \in Procs, InTree(p)
      PROVE  [LockedSM!SMNext]_LockedSM!smVars
  BY <1>5, InTreeSeen DEF LockedSM!SMNext
<1>6. ASSUME NEW p \in Procs, TreeReturns(p)
      PROVE  [LockedSM!SMNext]_LockedSM!smVars
  <2> DEFINE c == call[p]
             result == IF c.req.op = "Clone" THEN c.result.leaves ELSE c.result
  <2>1. /\ method[p].phase = "inside" /\ constructed' = constructed /\ c.phase = "done"
        /\ size' = size /\ leaves' = leaves /\ call' = [call EXCEPT ![p] = Idle]
    BY <1>6 DEF TreeReturns, Return, tree
  <2>2. constructed
    BY <2>1 DEF CheckedInv
  <2>3. /\ \A q \in Procs \ {p} : method'[q] = method[q]
        /\ method'[p].phase = "returned" /\ method'[p].req = method[p].req
        /\ method'[p].result = c.result
    BY <1>0, <1>6 DEF TreeReturns, MethodOK, Outside
  <2>4. c.req = method[p].req
    BY <2>1 DEF InsideInv
  <2>5. Becomes(p, Idle)
    BY <2>1, CallBecomes
  <2>6. \A q \in Procs \ {p} : TreeClient'[q] = TreeClient[q]
    <3>1. TreeClient' = [TreeClient EXCEPT ![p] = ClientOf(Idle, size)]
      BY <2>1, <2>5, OnlyCaller
    <3> QED BY <3>1, Clients
  <2>7. TreeClient[p] = Seen("applied", c.req, result)
    BY <2>1, Clients, ClientPhases
  <2> HIDE DEF c
  <2>8. MethodView(constructed, method'[p], TreeClient'[p])
         = MethodView(constructed, method[p], TreeClient[p])
    <3>1. MethodView(constructed, method[p], TreeClient[p]) = TreeClient[p]
      BY <2>1, <2>2, ViewPhases
    <3> DEFINE m == method'[p]
    <3>2. m.phase = "returned" /\ m.req = c.req /\ m.result = c.result
      BY <2>3, <2>4
    <3> HIDE DEF m
    <3>3. MethodView(constructed, m, TreeClient'[p]) = Seen("applied", c.req, result)
      BY <2>2, <3>2, ViewPhases
    <3> QED BY <2>7, <3>1, <3>3 DEF m
  <2> QED BY <2>1, <2>3, <2>6, <2>8, MethodUnseen
<1>7. ASSUME NEW p \in Procs, ReturnResult(p)
      PROVE  [LockedSM!SMNext]_LockedSM!smVars
  <2>1. /\ TreeClient' = TreeClient /\ leaves' = leaves /\ constructed' = constructed
        /\ method[p].phase = "unlocked"
    BY <1>7, TreeClientsSame DEF ReturnResult
  <2>2. constructed
    BY <2>1 DEF CheckedInv
  <2>3. /\ \A q \in Procs \ {p} : method'[q] = method[q]
        /\ method'[p].phase = "outside"
    BY <1>0, <1>7 DEF ReturnResult, MethodOK, Outside
  <2>4. SM!IdleClient = MethodView(constructed', method'[p], TreeClient'[p])
    BY <2>3, ViewPhases
  <2>5. MethodClient' = [MethodClient EXCEPT ![p] = SM!IdleClient]
    BY <2>1, <2>3, <2>4, MethodMoves
  <2>6. MethodClient[p].phase = "applied"
    <3>1. MethodClient[p] = MethodView(constructed, method[p], TreeClient[p])
      BY MethodViews
    <3> DEFINE m == method[p]
    <3>2. m.phase = "unlocked"
      BY <2>1
    <3> HIDE DEF m
    <3>3. MethodView(constructed, m, TreeClient[p]).phase = "applied"
      BY <2>2, <3>2, LeftView
    <3> QED BY <3>1, <3>3 DEF m
  <2>7. LockedSM!SMReturn(p)
    BY <2>1, <2>5, <2>6, MapReturn
  <2> QED BY <2>7 DEF LockedSM!SMNext
<1> QED BY <1>1, <1>2, <1>3, <1>4, <1>5, <1>6, <1>7 DEF LTNext, LTStep

\* A new LockedTree is an empty map that nobody calls.
LEMMA InitSeen == LTInit => CheckedInv /\ TreeInv /\ LockedSM!SMInit
<1> SUFFICES ASSUME LTInit
             PROVE  CheckedInv /\ TreeInv /\ LockedSM!SMInit
  OBVIOUS
<1>1. Init /\ method = [p \in Procs |-> Outside] /\ constructed \in BOOLEAN
  BY DEF LTInit
<1>2. \A p \in Procs : method[p].phase = "outside"
  BY <1>1 DEF Outside
<1>3. TreeInv
  BY <1>1, InitInv
<1>4. MethodClient = [p \in Procs |-> LockedSM!IdleClient]
  BY <1>2, MethodViews, ViewPhases DEF LockedSM!IdleClient, SM!IdleClient
<1>5. LockedSM!SMInit
  BY <1>1, <1>4 DEF LockedSM!SMInit, Init, LockedSM!Empty, Empty
<1> QED BY <1>1, <1>2, <1>3, <1>5 DEF CheckedInv

\* A LockedTree is linearizable: each method takes effect at one instant between
\* its call and its return, whatever the other goroutines are doing.
THEOREM LockedTreeLinearizable == LTSpec => Linearizable
<1>1. LTInit => LockInv /\ InsideInv /\ CheckedInv /\ TreeInv /\ LockedSM!SMInit
  BY InitLockInv, InitInsideInv, InitSeen
<1>2. LockInv /\ InsideInv /\ CheckedInv /\ TreeInv /\ [LTNext]_lockedVars
        => (LockInv /\ InsideInv /\ CheckedInv /\ TreeInv)'
  BY NextLockInv, NextInsideInv, NextCheckedInv, ContractStep, NextInv
<1>3. LockInv /\ InsideInv /\ CheckedInv /\ TreeInv /\ [LTNext]_lockedVars
        => [LockedSM!SMNext]_LockedSM!smVars
  BY NextSeen
<1> QED BY <1>1, <1>2, <1>3, PTL DEF LTSpec, Linearizable, LockedSM!SMSpec
=============================================================================
