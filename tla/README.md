# Adaptive radix tree: models, checks and proofs

TLA+ models of the Go packages `art` (the repository root), `artmap` and the chapters
of `tutorial`: a sorted map from byte strings to values, kept in an adaptive radix tree,
with a lock-guarded wrapper, a typed facade, and the eight earlier trees from which the
tutorial builds it up. Every definition is translated from the
source; `PROJECT.json` ("map") gives the lines of each.

Contents: 1 inventory, 2 the modules and the code, 3 what the runs check, 4 bounds,
5 fairness, 6 proofs, 7 findings, 8 what is not modelled, 9 plan.

## 1. Inventory

| Part | State it keeps | Operations | Hard behaviour |
|---|---|---|---|
| Inner nodes (`types.go`) | a header (compressed prefix, terminal leaf) and up to 256 children in one of four array layouts with a counter | `findChild`, `addOrGrow`, `replaceChild`, `removeChild`, `reshape`, `eachAscending`, `eachDescending` | type changes at exact counts; swap-removal in `node48`; counter width in `node256`; six hand-written conversions |
| Point operations (`put.go`, `get.go`, `delete.go`, `helpers.go`) | `Tree.root`, `Tree.size` and the node graph | `Put`, `Get`, `Delete`, `Len` | recursion that rebuilds nodes on the way back; prefix split and merge; size accounting on seven paths; a panic that must be unreachable |
| `Clear`, `Clone` (`sorted.go`) | the same; a second tree | `Clear`, `Clone` | a copy taken while readers run; two trees that share prefix bytes |
| Range loops (`iterate.go`) | a stack of frames and one shared path buffer per loop | `All`, `Range`, `RangeFrom`, `RangeTo`, `AllDescending`, `RangeDescending` | pruning; a loop body that breaks at any key; the buffer restored on every exit |
| Ordered queries (`sorted.go`) | none | `Min`, `Max`, `Ceiling`, `Floor` | targets that end or diverge inside a prefix; falling back to a sibling |
| `LockedTree` (`locked.go`) | `mu`, `tree` | `Put`, `Get`, `Delete`, `Len`, `Clear`, `Clone` | interleaving; unlocking without `defer`; zero-valued receivers |
| `artmap.Ordered`, codec (`artmap/`) | `tree`, `dec`, `kind` | the surface of `Tree` on typed keys; encoders and decoders | order preservation of signed and float encodings; copies of encoded bounds |
| Tutorial chapters 2 to 9 (`tutorial/0*/art.go`) | each a tree with `root` and `size` | `Put`, `Get`, `Delete`, `Len`, `Range`, the counts that the chapters print | each chapter adds one idea (leaves with keys, prefixes, smaller nodes, pruning) that must lose no key |
| Tutorial harness (`01-test-harness`, `buildcheck`) | a candidate, a reference (`google/btree`), a trace | `runDiff`; scenarios, memory probe, build checks | compares after each operation, and ends at the first difference in `Len` |

Interaction: `LockedTree` and `artmap.Ordered` call `Tree`; a `Tree` and its `Clone`
share prefix byte arrays; `runDiff` calls a chapter's tree and the reference in turn; `Tree` walks nodes through
the `innerNode` interface, which hides the four layouts; `reshape` and `addOrGrow`
return the node that takes the old one's place in the parent's slot, and the caller
stores it. Range loops call back into user code at each key. Nothing is persisted
and there are no messages: the hazards are long sequences of legal calls, boundary
counts, stale copies and the interleaving of goroutines. `PROJECT.json` lists them
with the lines where they bite and the properties that cover them.

What makes each part correct:

* inner nodes: every layout is the same map from bytes to children, in edge order,
  in the only type its count allows;
* point operations: each call is an atomic step of a sorted map; the tree is a
  function of the set of keys; `size` is exact; nothing panics; every call ends;
* range loops: exactly the keys of the interval, in order, none after a break;
* ordered queries: the nearest key on the asked side;
* `LockedTree`: writers exclude everybody, the whole is linearizable, every caller
  gets through;
* `Clone`: from then on the two trees do not notice each other;
* `artmap`: encodings keep the order of `cmp.Compare` and come back bit by bit; the
  caller sees a map sorted by typed keys;
* the chapters: each is the same sorted map; from chapter to chapter the same keys need
  fewer nodes, and from chapter 4 on the tree is a function of the keys.

## 2. Modules

```
NodeKinds ── ChildMap            what an inner node promises
   │  └──── InnerNode ─────────  implements ChildMap (four array layouts)
   │            └─ InnerNodeProofs (with NodeKindsProofs)
ByteStrings, FiniteMaps
   ├─ TreeShape ─┬─ ArtTree ── implements SortedMap
   │             │     ├─ ArtTreeProofs (with TreeShapeProofs)
   │             │     └─ LockedTree (with RWMutex) ── implements SortedMap
   │             │            └─ LockedTreeProofs (with ArtTreeProofs)
   │             ├─ ArtIterate ── implements SortedScan
   │             │     └─ ArtIterateProofs (with TreeShapeProofs)
   │             └─ ArtSorted
   │                   └─ ArtSortedProofs (with TreeShapeProofs)
   ├─ ArtClone                   two trees over one heap of prefix arrays
   ├─ OrderedCodec ── OrderedMap ── implements TypedMap
   │                     └─ OrderedMapProofs
   └─ ChapterBase ─┬─ Node256Only, LazyExpansion, PathCompression ─┐
                   └─ LadderNodes ── LadderTree ── Polish ─────────┴─ TutorialDiff
```

| Module | Models | How |
|---|---|---|
| `NodeKinds` | the four types, their capacities, promotion and demotion decisions | capacities are parameters, so a few bytes reach every type |
| `ChildMap` | the `innerNode` interface | a finite map from edge bytes, a header, and the heir left in the parent's slot |
| `InnerNode` | `node4` … `node256` | the Go arrays as functions on `0 .. capacity-1`, counters modulo their width; one action per interface call, `reshape` part of the removal as in `deleteFrom` |
| `FiniteMaps` | nothing of the code | the maps with finite domains that the models use |
| `ByteStrings`, `TreeShape` | byte strings; node references; the tree a set of keys determines | a reference is the node's type and path, so two references are equal exactly when the Go pointers are (the comparison `newChild == child` in `deleteFrom` is about pointers) |
| `ArtTree` | `Tree` | `root`, `size`, leaves, inner nodes, and per goroutine a call with the frames of its recursion; one action per visited node, in the order of the code's side effects |
| `SortedMap` | what `Tree` and `LockedTree` promise their callers | a call begins, takes effect atomically, returns |
| `SortedScan` | what a range loop promises | begin, yield the next key in order, end |
| `ArtIterate` | `iterate.go` | the walk's frames, the shared path buffer, the pruning tests, and a loop body that goes on or breaks at each yield |
| `ArtSorted` | `Min`, `Max`, `Ceiling`, `Floor` | recursive functions on the nodes; `CeilingFrom` and `FloorFrom` are one call of the Go functions, given the answers of the calls they make; a query is one step |
| `RWMutex` | `sync.RWMutex` (external) | two-part `Lock`, readers queueing behind a writer |
| `LockedTree` | `locked.go` | receiver check, lock, the whole of `ArtTree` below, unlock, return |
| `ArtClone` | `Put`, `Delete` and `Clone` as far as they touch prefixes | a prefix is a slice of a byte array in a heap; `putInto` slices it, `newNode4With`, `splitPrefixedInner` and `mergePrefixIntoChild` allocate, `cloneNode` copies the slice and not the array |
| `OrderedCodec` | `artmap/codec.go` | `pickKind`, `encode` and the decoders as arithmetic on words; a byte has `ByteSize` values |
| `OrderedMap` | `artmap/ordered.go` | the caller's variables, zero-valued or constructed, and the last sequence it obtained; one action per method |
| `TypedMap` | what `artmap` promises | maps on typed keys in the order of `cmp.Compare`, sequences with bounds fixed when obtained |
| `ChapterBase`, `Node256Only`, `LazyExpansion`, `PathCompression` | chapters 2, 3, 4 | a tree is a value; one recursive operator per recursive function |
| `LadderNodes`, `LadderTree` | chapters 5 to 9 | the arrays of the node types, and the tree code the chapters share; `Ladder` lists the types a chapter has |
| `Polish` | chapter 9's `Range` | the walk with pruning and one path buffer |
| `TutorialDiff` | `runDiff`, `BTreeAdapter`, the counts | every operation goes to all chapters and to the reference; `reports` holds what `Errorf` was called with |

`ArtTree` uses the map view of children; `InnerNode` justifies it by refinement.
`ArtIterate` and `ArtSorted` start from the tree of a set of keys (`ShapeOf`); the
invariant `HistoryIndependent` of `ArtTree` says that these are exactly the trees
that calls leave behind. `LockedTree` composes the lock with `ArtTree` itself, not
with its abstraction: readers are inside the tree while others come and go.

`ArtClone` is the only module in which bytes have an identity: everywhere else a prefix
is a value, which nothing can change behind a node's back. It says that this is sound.
`OrderedMap` stands on a sorted map of byte strings, which `ArtTree` and `ArtIterate`
show the tree to be. In the chapters no two nodes share a child or an array and every
call is sequential, so a changed node is a changed value; one `LadderTree` serves five
chapters because their code for the tree is the same text, and `Ch5` ... `Ch9` in
`TutorialDiff` instantiate it once per chapter. Chapter 6 moves the code of chapter 5
into methods and has the same ladder, so the two are one candidate.

## 3. Runs

| Run | Question | Properties |
|---|---|---|
| `inner_node` | do the array layouts keep their structure and agree with one map? | `TypeOK`, `SortedLayout`, `DenseLayout`, `DirectCount`, `CapacityBand`, `WalksAreOrdered`, `ImplementsChildMap` |
| `tree` | is the tree right after, and during, every sequence of calls? | `TreeInv`, `SizeIsLeafCount`, `NoPanic`, `HistoryIndependent`, `ImplementsSortedMap` |
| `tree_readers` | are overlapping readers, overwrites and clones right, and do calls end? | `CloneIsWhole`, `ImplementsSortedMap`, `EveryCallReturns` |
| `iterate` | does every range loop yield its interval, stop when told, and end? | `WalkInv`, `ImplementsScan`, `TypeOK`, `PathFollowsWalk`, `EntersOnlyRange`, `EveryLoopEnds` |
| `iterate_reversed` | does `Range` do what README says with reversed bounds? | `ReversedBoundsYieldNothing` (violated) |
| `sorted` | do the ordered queries agree with the set of keys? | `CeilingIsLeast`, `FloorIsGreatest` |
| `locked` | is the lock used consistently, and does everybody get through? | `LTTypeOK`, `WritersExclude`, `EveryMethodReturns` |
| `locked_values` | is `LockedTree` linearizable, and does it keep the contract of `Tree`? | `KeepsTreeContract`, `Linearizable` |
| `clones` | do a tree and its clones go separate ways? | `TreesAgreeWithCallers`, `ClonesStayApart` |
| `ordered` | is `artmap.Ordered` a map sorted by its typed keys, for every key type? | `TypeOK`, `EncodingKeepsOrder`, `EncodingRoundTrips`, `ImplementsTypedMap` |
| `ordered_zeros` | do encodings compare as `cmp.Compare` does, as the comment on `OrderedKey` says? | `ComparisonsAgree` (violated) |
| `chapters` | do all chapters' trees answer as the reference does, and what do they spend on it? | `NothingReported`, `OnlyForksRemain`, `ArraysLaidOut`, `Footprint` |

The properties worth reading first:

* `HistoryIndependent` (ArtTree). Between writes the tree equals `ShapeOf` of its set
  of keys: every prefix, terminal, edge, node type and the root. It contains the
  structural rules 1 to 8 of `INVARIANTS.md` that concern the graph, and says more:
  two histories with the same keys give the same tree, and nothing is left over.
* `TreeInv` (ArtTreeProofs). While a `Put` or `Delete` is at work, every slot of the tree
  holds what the keys and nodes behind it ask for, but for the one slot that the frame on
  its way back is about to fill: the invariant that the proofs of section 6 rest on.
* `ImplementsSortedMap` (ArtTree, LockedTree as `Linearizable`). Each call takes effect
  in one step between its call and its return, with the answer a sorted map gives at
  that step, `Clone`'s contents included.
* `ImplementsChildMap` (InnerNode). `findChild` is the same function before and after
  any growth, shrink, shift or swap; the heir `reshape` leaves is the terminal or the
  only child.
* `ImplementsScan` (ArtIterate). No pruning loses a key, and no yield follows a break:
  the Go runtime panics on a range function that does that.
* `WalkInv` (ArtIterateProofs). What the frames of a walk have still before them is
  exactly what the loop body has not been given; only a walk that returns false may leave
  something, and only because the body broke out or nothing wanted is left.
* `ClonesStayApart` (ArtClone). No call on one tree changes a byte that a prefix of
  another tree shows, although a split works on slices of arrays both trees hold.
* `ImplementsTypedMap` (OrderedMap). A loop over a sequence yields what the map holds
  when it runs, between the bounds as they were when it was obtained; the empty string is
  a bound and not "no bound"; reversed bounds and zero-valued receivers panic at the
  call, also in methods that only return an iterator.
* `OnlyForksRemain` (TutorialDiff). After any trace the nodes of chapter 2 are the
  prefixes of the keys, those of chapter 3 lie between these and the forks, and those of
  chapters 4 to 9 are exactly the forks.

Each property has a mutant in `PROJECT.json`: a plausible slip in one definition
(a `uint8` counter, a shrink in slot order, a stale index, a merge without the branch
byte, a pruning test off by one, a read without the lock) that TLC refutes under the
run's own configuration.

## 4. Bounds

* Capacities 2/3/5/6 (`inner_node`) and 2/3/4/5 (elsewhere) stand for 4/16/48/256: the
  code uses a capacity only in comparisons with a count, and `uint8` wraps at the
  number of bytes, as it does in Go. `inner_node` leaves `node48` two counts of its own,
  so that its swap-removal meets first, last and middle slots. Two child nodes and two
  prefixes are enough to tell slots and headers apart.
* `tree`: ten keys, chosen so that the root takes every type with and without a
  terminal and prefixes of length 0, 1 and 2 are split and merged at each byte. All
  1024 key sets and every order of calls are reached.
* `tree_readers`: two goroutines, three keys, two values. Calls of goroutines touch
  each other only through the tree, and a writer excludes everyone.
* `iterate`: all 128 trees on seven keys, 81 pairs of bounds, both directions, a break
  at any yield. Bounds lie before, on, inside and behind nodes. `sorted`: all 512 trees
  on nine keys, 21 targets.
* `locked`: three goroutines, so that a reader queues behind a writer that waits for
  another reader; one key, because the lock does not look at keys. `locked_values`: two
  goroutines with two keys and two values.
* `clones`: two trees, six keys. The four keys of length four make forks below a prefix of
  two bytes, which deletes merge from either side; the others split it at each byte.
  Values and array layouts are left out, and an array no tree reaches is collected.
* `ordered`: bytes of two values, so a word of 1, 2, 4 and 8 bytes has 2, 4, 16 and 256
  values, and the two codec properties go through all keys of every type of
  `cmp.Ordered`, with `int`, `uint` and `uintptr` at both machine sizes. The encoders
  look at a word's sign bit and at its bytes; neither depends on how many values a byte
  has. Floats have magnitudes below, at and above infinity. The maps hold up to three
  keys (the empty string, a string and its extension; negative, positive and infinite
  floats; integers on both sides of the sign bit), two variables of type `Ordered`, one
  value, and at most one sequence at a time. The two variables are symmetric.
* `chapters`: nine keys, chosen so that the root takes each type, with and without a
  terminal, above prefixes and chains that every byte splits; one key with two values;
  seven bounds; bodies that break after one or two pairs or not at all; capacities
  2/3/4/5. All 512 key sets are reached. Chapter 3's tree depends on the history of
  deletes, the others only on the keys: hence 2652 states. A trace ends with the final
  `Range`, which is why that run does not check for deadlock.
* `node4Capacity` ... `node256Capacity`, `Keys`, `Values`, `Procs`, `Bounds`, `Targets`,
  `Nodes`, `Prefixes`, `Handles`, `Trees`,
  `Puts`, `Takes`, `ByteSize`, `Infinity` and `Strings` are all the bounds there are; no counter is capped.

## 5. Fairness

* `ArtTree`: weak fairness of each goroutine's steps inside a call. Nothing in `Tree`
  blocks, and the Go scheduler is preemptive. No call has to begin.
* `ArtIterate`: weak fairness of the walk; no loop has to begin, and the loop body is
  assumed to return. The walk is finite by its structure, so `EveryLoopEnds` is no hazard
  of its own: it is what `ImplementsScan`, a safety property, lacks to say that every key
  of the interval is yielded in the end.
* `ArtClone`, `OrderedMap`, `TutorialDiff`: none; their calls are single steps.
* `LockedTree`: weak fairness of every step except taking the place of the writer,
  which has strong fairness: `sync.RWMutex` takes its inner `sync.Mutex` there, whose
  starvation mode hands the mutex over to the longest waiter. Readers need no more than
  weak fairness: `Unlock` admits the readers it finds before a new writer can start.

## 6. Proofs

All proofs are checked by TLAPS, for every value of the constants.

**Inner nodes** (`NodeKindsProofs`, `InnerNodeProofs`): every property
of run `inner_node`, for any capacities with 2 <= node4 < node16 < node48 < node256, any
children and any prefixes; 4/16/48/256 is the instance the code has.

* `InnerNodeTypeOK`, `InnerNodeSortedLayout`, `InnerNodeDenseLayout`,
  `InnerNodeDirectCount`, `InnerNodeCapacityBand`, `InnerNodeWalksAreOrdered`;
* `InnerNodeImplementsChildMap`: `Spec => ImplementsChildMap`.

The layouts of one type are not inductive alone, because a node arrives in a type by
growing or shrinking from its neighbour: the invariant `IInv` therefore speaks of all
four (`Laid`), and adds two facts no layout states. `Counted`: the counter equals the
number of bytes that `findChild` answers for; without it a shrink from `node48` or
`node256`, which gathers children by scanning bytes, could meet more of them than the
new arrays hold. `KindFits`: the type is the one the count allows; without it a full
`node256` could be asked to grow, and a shrink triggered by equality could be missed.
`InnerNodeProofs` has one lemma per operation and type, each of which gives the layout
of the result and its answer at every byte; `FindInSlots` reduces `findChild` of the
three slot-based types to one statement about slots. The counters never wrap
(`CountersFit`): `uint8` in `node48` because 48 < 256, `uint16` in `node256`.
`NodeKindsProofs` shows that the loops over all bytes enumerate the live ones in order.

**Tree** (`TreeShapeProofs`, `ArtTreeProofs`): every safety property of the runs `tree` and
`tree_readers`, for every set of keys and values, any capacities that ascend from two, and
any number of goroutines that keep to the usage contract:

* `TreeInvariant`: `Spec => []TreeInv`;
* `TreeIsSortedMap`: `Spec => ImplementsSortedMap`, the refinement;
* `History`, `SizeExact`, `NoPanics`, `ClonesWhole`, `TypesOK`.

`HistoryIndependent` says nothing of a tree in the middle of a `Put`, and what it says is
not local: one step changes one node, and `ShapeOf` is about all of them. So the argument
is in two parts.

*What a tree is* (`TreeShapeProofs`). `NodeOK` and `SlotOK` say of one node and of one
slot what the keys behind them ask for: a slot at the place `at` with no key below it
holds nil, with one key its leaf, with more the node that stands where they part; a node's
prefix is what its keys share, its terminal is the key that ends there, it has a child for
each byte that goes on, and the type its count allows. `Whole` is this for every node and
the root. `WholeIsShape`: a heap that is `Whole` is `Top` and `ShapeOf` of its keys, so
local conditions fix the tree. The lemmas on the way are about byte strings (`Starts`,
`SharedLen`) and the places where a set of keys forks.

*How it changes* (`ArtTreeProofs`). `TreeInv` says that the tree is `Whole` unless some
call is on its way back; then it is `Linked`, every slot is right except one, the hole:
the slot that the innermost suspended frame went through. `Chained` says that the frames
lie one below the other on the way to the key, so that when one resumes, the hole moves
up by one frame. Per phase: `Descending` (the active frame holds what its slot holds, at
the depth where the slot is), `Ascending` (`ret` is what the hole asks for), `Searching`
(`Get`), `Copying` (`Clone`: what is missing from the copy is below the nodes still to be
copied) and `Snapshot`. There is one lemma per action (`PutSplitStep`, `DeleteResumeStep`,
…), which proves that `TreeInv` is kept and that the step is one of the sorted map's or
none. The lemmas before them are about the code that builds nodes: `newNode4With` puts its
node where two keys part and never panics, a split leaves both halves right, a `Grown`
node has the type of its new count, and a `Reshaped` one gives way to its terminal or to
its only child exactly when the keys ask for that. Two facts beyond the tree's shape are
needed: `Exclusive` (a writing call is alone; it follows from `Permitted`), without which
a reader's position could be lost under it, and that `before` is the size before the call,
on which the answer of `Delete` depends.

**Range loops** (`ArtIterateProofs`), every safety property of the run `iterate`, for every
tree, any bounds and both directions:

* `WalkInvariant`: `Spec => []WalkInv`;
* `WalkIsSortedScan`: `Spec => ImplementsScan`, the refinement;
* `BufferFollowsWalk`, `PruningIsTight`, `WalkTypeOK`.

The argument has three parts. *Pruning*: `subtreeBeforeWithByte` and
`subtreeAtOrAfterWithByte` compare a bound with the path of an edge without building that
path, in four cases. The theorem `Pruning` says what they decide: the first holds exactly
if all strings behind the edge are below the bound, the second exactly if none is.
*Debt*: what a walk has yet to give is spread over its frames. A frame owes the keys
behind its unvisited edges, and downwards its own terminal (`Owes`); a subtree that is
about to be entered owes all its keys (`Debt`). `WalkInv` says that the keys of the
interval not yet given are exactly those owed (`Settled`), unless the walk returns false.
`PathFollowsWalk` and `EntersOnlyRange` are not inductive without this: that a subtree is
entered at the right place depends on where the frame's node stands, and that a walk may
end early depends on what the frames below it owe. *Order*: each frame's node is behind an
edge of every frame below it which came before all that frame has not visited (`Leads`),
so whatever is owed below comes later than whatever is behind the slot at hand
(`OwedLater`), and the key at hand is the next one. There is one lemma per action
(`SkipEdgeOK`, `StopAtEdgeOK`, …). The tree itself comes from `ShapeIsWhole`, the converse
of `WholeIsShape`, so that these loops run over the trees that `History` says calls leave.

**Ordered queries** (`ArtSortedProofs`), both properties of the run `sorted`, for every
finite tree and every target:

* `SortedCeilingIsLeast`: `Spec => []CeilingIsLeast`;
* `SortedFloorIsGreatest`: `Spec => []FloorIsGreatest`.

A query changes nothing, so the state invariant (`TreeOK`: the tree is `Whole`) is plain
and the work is in what the recursive descents compute. A recursive function of TLA+ is a
choice among the functions that satisfy its equation, so there are two things to show.
*Some function does* (`ExtremeLeaves`, `AnswersExist`): for `minLeafOf` and `maxLeafOf` the
right answers themselves form one; for `ceilingLeafOf` and `floorLeafOf`, which are also
defined for calls no descent makes, partial solutions are extended from the end of the
target towards its start, because a call asks only calls that have consumed more
(`AsksDeeper`). *Every one answers rightly* (`MinimaRight`, `AnswersRight`): otherwise
there would be a deepest node, or a longest consumed part of the target, with a wrong
answer, and right ones below it; but a step of the descent turns right answers into right
ones (`ExtremeStep`, `NodeAnswers`). That step is where the code could be wrong.
`Outcomes` says what the four results of `walkPrefixToward` mean: the node's path begins
the target, or the target lies before or after everything behind the node.
`SidesOfEdge` splits the keys behind a node at the edge the target takes, and
`ExtremesJoin` says whose answer counts when the nearer part has none.

**LockedTree** (`LockedTreeProofs`), for every number of goroutines, any set of keys and
values, and every capacity:

* `LockAgreement`: `LTSpec => []LTTypeOK`;
* `MutualExclusion`: `LTSpec => []WritersExclude`;
* `TreeContractKept`: `LTSpec => KeepsTreeContract`, every step of `LockedTree` is a step
  `ArtTree` permits, or leaves the tree alone;
* `LockedTreeLinearizable`: `LTSpec => Linearizable`, each method is an atomic operation of
  a sorted map.

`LTTypeOK` alone is not inductive: that a writer past the lock is alone needs to know
that the readers it waits for were all the readers there were. `LockInv` adds this:
`Waited` (while somebody holds the place of the writer, the readers still there are the
ones awaited, later ones queue) and `Granted` (whoever is past waiting has the lock it
asked for). Each action moves one goroutine and touches the lock in one of five ways; the
lemma `LockUntouched` serves the actions that leave it alone. `InsideInv` links the phase
of each goroutine's method to the phase of its call in the tree, from which `Permitted`
follows by mutual exclusion. Linearizability then follows without a second look at
the tree: its steps keep `TreeInv`, since they are steps `ArtTree` permits, and are steps of
the sorted map (`InTreeSeen`); the method around the call is seen as pending before it,
and as applied after it (`ViewPhases`). `CheckedInv` (nobody gets past the check of a
zero-valued receiver) keeps the panicking methods out of the map's sight.

**The typed map and its codec** (`OrderedMapProofs`), every property of the run `ordered`:

* `EveryTypeRoundTrips`, `EveryTypeKeepsOrder`: what the codec does to all keys of every
  type of `cmp.Ordered`; from them `OrderedMapEncodingRoundTrips` and
  `OrderedMapEncodingKeepsOrder`, for every map that is ever constructed;
* `OrderedMapTypeOK`: `Spec => []TypeOK`;
* `OrderedMapImplementsTypedMap`: `Spec => ImplementsTypedMap`, the refinement.

A byte may have any even number of values (`ByteAssumption`; a word must have a sign bit),
so the theorems speak of Go's 256 and of the two values of TLC's bytes alike.

*Words.* `Flipped` says what the code's `^ (1 << n)` does in arithmetic: half the word is
added below the middle and taken away above; `Picked` says that `pickKind` chooses
the encoding of the type's own family and size. `WordRoundTrips` and `WordKeepsOrder` are
about the word that is then written: it fits its width, comes back, and sorts as the key.
*Bytes.* `Leading(word, width, i)` is the word without its last `width - i` bytes. `Digits`:
each byte adds itself to what the bytes before it make. So reading the bytes gives the word
(`ReadBack`), and of two words the one that is smaller at the first byte they differ in is
smaller (`BytesKeepOrder`), which is how `bytes.Compare` decides (`LessBytewise`).

*The map.* The inductive invariant `Inv` says that an object is zero-valued or has the kind
`New` picked for its type and a finite tree of encoded keys, and that the sequence in the
caller's hands is one of a constructed map, between encoded keys or nil. `TypeOK` alone
does not say that bounds are encoded keys, without which a loop could not be compared with
one over keys. The refinement mapping decodes every tree and bound: `TypedLookup` and
`TypedWrites` say that decoding commutes with lookups, `Put` and `Delete`. For ordered
answers both sides list by places: the place of a key is the number of keys before it.
`Places` shows for any finite set in any total order that there is one element at each
place, counted from either end; `KeysListed` and `Listings` carry this from encodings to
keys, and with it `Min`, `Max`, `Ceiling`, `Floor` (`FirstEntries`) and the loops in both
directions (`LoopShown`), which break at any entry. There is one lemma per action.

The refinement has the hypothesis `ToldApart`: the caller's keys contain no NaN and only one
of the two zeros. It is not a weakness of the proof: for those keys the order of encodings
and `cmp.Compare` do differ (section 7, run `ordered_zeros`). The keys of run `ordered` are
told apart (`OrdinaryKeysToldApart`, which TLC evaluates). The codec theorems and the
invariants hold without it.

Assumptions: `CapacityAssumption` (the ladder of capacities), `NilAssumption` and
`NoneAssumption` (the values for "nothing" are not nodes, leaves, keys, maps or sequences),
`KeysAssumption`, `StringsAssumption`, `TargetsAssumption` and `BoundsAssumption` (keys,
targets, and bounds that are not nil, are byte strings, or keys of their type),
`NobodyAssumption` (the value for "no goroutine" is not a goroutine) and `ByteAssumption`
(half the patterns of a word have the sign bit: 256 is even).

Left to TLC: liveness under fairness (`EveryCallReturns`, `EveryMethodReturns`,
`EveryLoopEnds`), which is beyond these provers. `ArtClone`, the chapters and
`TutorialDiff` descend with recursive operators, which the provers do not take; their five
invariants and `ClonesStayApart` are model-checked only. Every other property of a passing
run is stated by a theorem.

Four things the proofs brought to light in the models. The refinement mapping of
`LockedTree` was a `CASE` whose arms overlapped for a zero-valued receiver; TLA+ leaves
open which arm is meant, TLC takes the first, and the proof does not go through:
`MethodClient` decides by `IF` now. And `NilAssumption` and `KeysAssumption`, which every
configuration satisfied, were nowhere stated; the same went for the
finiteness of the tree that `ArtSorted` starts from, without which there need be no greatest key.
The sizes of words were powers written with `^`, of which the provers know nothing; `Power`
is now a table made by repeated multiplication. And the lists of `TypedMap` and `OrderedMap`
were sorted by an operator that takes the order as an argument, which no prover here can
instantiate; they are now the elements by their places.

## 7. Findings

`README.md:142` says that `Range(start, end)` with `start >= end` yields nothing. For
`start > end` the code panics (`iterate.go:78`), as the function's own comment and
`CONTRACT.md:306` say. Run `iterate_reversed` shows the panic.

`artmap/ordered.go:21` says that for any two keys `cmp.Compare` and `bytes.Compare` on the
encodings agree in sign. For `-0.0` and `+0.0` they do not: the encoding puts `-0.0`
first, as `ordered.go:37` says, and `cmp.Compare` holds the two equal. A value put under
one zero is not found under the other. Run `ordered_zeros` stores one and asks for the
other; `EncodingKeepsOrder` states what does hold for every key. (The comment leaves the
order of NaN open, and so does the run.)

`CONTRACT.md:631` can be read as saying that the iterator methods of a zero-valued
`Ordered` panic when the iterator is invoked; in the code they panic at the call, which
is what `ImplementsTypedMap` states.

## 8. Not modelled

* The inline key buffer of small leaves and the copying of keys: keys are values.
* Loops whose body changes the tree: `CONTRACT.md:264` forbids them.
* The harness's fixed scenarios (`regression.go`), the choice of random traces, the memory
  probe (`capacity.go`) and `buildcheck`: they generate inputs, measure the heap or run
  the Go tool. `TutorialDiff` takes every trace over its keys instead.
* `google/btree`, `sync.RWMutex` and the garbage collector are external and modelled from
  how the code uses them.
* Benchmarks and the fuzz corpus.

## 9. Plan

All the modules of the plan are written and every safety property outside `ArtClone` and the
chapters is proved. What a next step could take up:

1. `ArtClone` and the chapters with recursive functions in place of recursive operators, as
   `ArtSorted` has them, which would bring `TreesAgreeWithCallers`, `ClonesStayApart` and
   the invariants of `TutorialDiff` within the provers' reach.
2. Liveness, once a prover for it is at hand: the measures are the bytes of a key still to
   be consumed (`EveryCallReturns`) and the keys a walk still owes (`EveryLoopEnds`).
