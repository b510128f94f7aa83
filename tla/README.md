# NAND combinator: TLA+ verification

A TLA+ model of [NAND combinator](../src/README.md), model-checked with TLC
and proved with TLAPS. Source locations below are `file:line` in `src/`.

## 1. The system

The toolset computes, for every set of truth tables, the smallest network of
2-input NAND gates that produces it. It is a pipeline of programs that hand
files to each other:

    gatebuilder --> gates-IIinput-GGgate-threadT.dat --> nandcombinator
        --> datalog_I_O.dat --> import*.php --> db_XXinYYout --> backend (web)

| Part | State | Operations | Talks to |
|---|---|---|---|
| **gatebuilder** (`gatebuilder.cc`) | the odometer `gate_inputs` of each job, one output file per thread | enumerate wirings in order, skip those that cannot count, append a record | files |
| **nandcombinator** (`nandcombinator.cc`) | `Knowledge` (the lore), `logfps`, `Combinations`, per round `next_file`, `next_record`, two locks | claim records, choose outputs, sort and key them, look up, insert, write a line | gate files, datalogs, KerboString |
| **KerboString** (`kerbostring.hh`) | 4096 pools with `data` and `cap`, a packed `m_data` per string | allocate, move, free | owned by nandcombinator's hash sets |
| **keys and values** (`nandcombinator.cc:296`, `backend/base64.php`, `backend/solver.php`) | a bit cache | pack and unpack bit fields | datalog, databases |
| **importers** (`import*.php`) | one database per datalog, mtimes, tables `temp` and `conundrum` | skip, recreate, insert, rename | datalogs, databases |
| **backend** (`backend/*.php`) | parse stack, definitions, cache table | parse an expression, compute its truth table, look it up, cache the page | databases, cache |
| **radix tree** (`radixtree/`) | per tree a root and a size; for all trees one storage: places of the nodes, holes, one buffer | find, add, ensure, clear | container of the lore with `USE_RADIX_TREE`, not in the default build |
| **async pool** (`unused/async_pool.hh`) | task queue, counts of threads, two condition variables | run, parallelize_for, wait, construct, destroy | no program of the repository |
| graphing, pages, wrappers | none of their own | output | - |

What is hard about it:

* **Threads** in nandcombinator share the files of a round, the lore and the
  datalogs; keys are looked up under a shared lock and again under an
  exclusive one; completeness tests read sizes without a lock; the mutex that
  guards the step to the next file is only *tried*.
* **Order**: optimality of a line rests on the rounds (gate counts) running in
  ascending order without overlap. Nothing in a line's code checks it.
* **Reruns**: the lore is in memory, the datalogs stay on disk; a killed run
  is started again over what it left behind.
* **Enumeration**: gatebuilder's odometer skips ahead in six places (unused
  inputs, swappable gates, constant gates, duplicate pairs, double negation,
  jobs with a bad start). Each skip must drop only networks that are built
  elsewhere or are never needed.
* **Representation**: keys are sorted by a comparison that subtracts 32-bit
  words; strings live in pools that a "copy" empties; two programs in two
  languages must make the same string of the same functions; the links of the
  radix tree are distances cut to as few bytes as will do.
* **Shared buffers and sleeping threads**: all radix trees are read through one
  buffer; the threads and the users of the async pool sleep on one condition
  variable and are woken one at a time.

## 2. Modules

### `OptimalCatalogue` - what the datalogs promise

`datalog[k]` has the gate counts on the lines written for key `k`, `opened` the
numbers of outputs whose file the current run has opened. A run opens a file
once, which empties it (`Open`: `fopen` with `"w"`), before it writes a line to
it. A key that can be built gets exactly one line, with the fewest gates that
build it (`Publish`). A run can end at any point and another one begin
(`NewRun`), also between the opening of a file and its first line. Under `Spec`
every key that can be built ends up in the catalogue.

### `NandCombinator` - the worker threads

`main()`, `CreateNANDcombinations()` and the part of `SaveOrIgnoreResult()`
that touches shared state, for one `num_inputs` (knowledge, files and datalogs
of different `num_inputs` are disjoint).

| Code | Model |
|---|---|
| `num_gates` of the loop over `choices` | `num_gates`; `main` is `"begin"` before `test_missing` and `"join"` in `join()` |
| `next_file`, `std::get<0>(files[f])`, `filenumber_lock` | `next_file`, `next_record[f]`, `filenumber_lock` |
| `io_lock` (shared mutex) | `io_lock`, the exclusive holder; a shared section is one step that needs `io_lock = NoThread` |
| `Knowledge[..][n-1]` | `lore`, a set of pairs `<<n, key>>` |
| `logfps[..]`, the datalog files | `logfps`, `datalog` |
| a thread's position and its `filenum`, `record`, `b`, `num_outputs`, combination | `pc[t]`, `at[t]` |
| the process is killed and run again | `Restart` |

One action per step between two accesses of shared state: `TestMissing`,
`ReadNextFile`, `ClaimGroup`/`ClaimNothing` (`next_record++`), `TryLockFails`/
`TryLockSucceeds`/`AdvanceFile`, `NextRecord`, `NextOutputs`/`TakeOffer`/
`RecordFinished` (the loops of `Catalogue`), `LookUp`, `Lock`, `RaceEvaded`/
`Recheck`, `Insert`, `OpenDatalog` (`fopen`), `WriteLine` (`fprintf` and
`fflush`).

Abstractions. A record *is* its lists of offers (keys per number of outputs).
Keys are values; how they come about and how they are stored are separate
concerns. Files are numbered from 1. `next_record` stays at its first value
past the end of the file, since a larger one claims nothing either. The
unlocked read of `LoreSize` (line 551) yields the size before or after an
insert that is under way: both are reachable interleavings. The compare and
increment of `next_file` (line 715) is one step because only the holder of
`filenumber_lock` writes it. The progress display is left out. A file that is
missing or unreadable has no records. `Files`, `HypSize`, `OutputsOf` and the
numbers of threads, gates, outputs and records per group are CONSTANTS.

### `NandCombinatorMC` - instances for TLC

Made-up records that make keys collide within a record, between the records
of a group, between files and between rounds.

### `NandCombinatorProofs` and the other proofs - every instance

`OutputOrderProofs`, `GateBuilderProofs`, `CatalogueProofs`, `KerboPoolProofs`,
`RadixTreeProofs` and `AsyncPoolProofs` extend the module they are named after.
`SharedFacts` has the lemmas that several of them need: least and greatest
numbers, counting by injections, functions defined by recursion, that `Truth` is
the function its definition describes, and that a network stays useful, and in
its class, when its gates are numbered in another way. See section 5.

### `NandNetwork` - networks, without state

A network is the sequence of the pairs of sources of its gates. `Truth` is its
truth table; `LoopFree`, `IsUseful` and `Class` say, independently of the code,
which networks there are, which are of use (no gate constant or a copy of an
input, no input unused, pairs ordered and distinct, no double negation) and
which differ in the numbering of their gates only.

### `GateBuilder` - the enumeration

`main()`, `CreateNANDcombinations()`, `Catalogue()` and the file handles of
`gatebuilder.cc`, for a list of work (`Work`) and a team of threads.

| Code | Model |
|---|---|
| the loop over `num_inputs`, `num_gates` in `main` | `round`, `Work`; `EndWork` |
| the parallel loop over `first`..`fourth` | `Iterations`, `SkipJob`, `Jobs`, `InLoopOrder`; `jobs`, those not handed out yet; `TakeJob` |
| `gate_inputs`, the place the odometer is at | `gate_inputs[t]`, `pos[t]` |
| the labels and `goto`s of the odometer | `pc[t]` and one action per label: `FixUnused`, `CheckOrder`, `SkipBadGate`/`Record`/`Abort` (`Catalogue`), `Reset`, `HasDuplicates`, `NotNots`, `JobDone`/`Increment`/`Wrap` |
| `handles`, `gates-...dat` | `handles`, `files`; opening truncates |
| killed and run again | `Restart` |

The truth table in a record is a function of the network and is left out of
it; so are the progress display and the buffering of `fwrite`.

### `OutputOrder` - the sort that makes a search key

The insertion sort of `SaveOrIgnoreResult()` step by step, with the width of
the 32-bit subtraction (`Half` stands for 2^31). Two networks offer the same
tables in two orders, so that the invariants can compare their keys.

### `KeyString` - the strings of a line

What `SaveOrIgnoreResult()` makes of the sorted outputs, on top of
`OutputOrder`: the key of the lore (8 bits per character), the key and the
value of the datalog line (6 bits per character); and the back-end's side of
it: the key `LookUp()` makes of a truth table (`parser.php`), the fields
`Solve()` reads from key and value (`solver.php`, `base64.php`).

| Code | Model |
|---|---|
| `cache`, `cached_bits`, `binary` of `make_string` | a record, folded over the fields by `AddBits` |
| `keymaker`, `valuemaker` | `KeyFields`, `ValueFields`: sequences of pairs of a value and a width |
| `BASE64decoder` | `Decoder`, `Get` |
| `$data` of a key, in `LookUp`, `Solve` | `LookUp`, `SolverSizes`, `SolverGates` |

A character is its index in the character set; `|` of the cache is `+`, since
the bits do not overlap. `BASE64encoder` repeats `make_string` and is modelled
by it. The parser's table has a row per value of the inputs with a bit per
output, the combinator's a table per output (`Rows`). The gates of a wiring are
an input, as `OutputOrder` has no networks. Up to 4 inputs.

### `Catalogue` - which keys a network offers

`BuildCombinations()`, `Catalogue()` and `CalculateMaxSize()` of
`nandcombinator.cc`: the odometer over sets of outputs, the tests that leave
out idle gates, the assertion, the size limit. A key is a *set* of truth
tables here; that the order does not matter is what `OutputOrder` is about.

The size limit is a `double`, and the model follows its way out of the numbers.
A value is a number below `Reach`, a finite one from there on (`Large`), infinite
or not a number; no lore ever has `Reach` keys.

| Inputs | `CalculateMaxSize` | Model |
|---|---|---|
| up to 3 | `binomial` multiplies and divides; there are at most 251 tables | `Quotient` |
| 4, one output | the 65530 tables | a number |
| 4, more outputs; 5 | more than 1000 tables: `tgamma` of so many is infinite, the quotient is not a number and becomes 1e200 (one output of 5 inputs: the number of tables) | `NotANumber`, `Large` |
| 6 and more | `pow`, infinite from 2^1024 on, which becomes 1e200 | `Power`: `Large`, `Infinite` |

The rounding of a double is not modelled: the numbers below `Reach` are exact in
it, but for a quotient whose dividend takes more than 53 bits.

### `PipelineMC` - the tools in a row

`NandCombinator` on real networks: the records are those of the networks
`GateBuilder` is checked to store, their offers those `Catalogue` is checked to
make, and the datalogs are compared with the fewest gates of *any* network,
useful or not.

### `KerboPool` - the memory of the keys

`kerbostring.hh` as `SaveOrIgnoreResult()` uses it: construction (`Construct`,
`FindRoom`, `NextPool`, `OutOfMemory`: the loop over the pools with its test of
the space; `Begin`, `Allocate`, `Fill`: the bytes are taken and written), the
move into the hash set, the destructor that frees the last bytes of a pool. Each
read and each write of `cap` is a step of its own, since no lock or atomic orders
them: also the space is tested in one step and taken in later ones.
`sparse_hash_set` is external: it finds a string with the same bytes and takes
over the string it is given (a "copy" empties its source). The mapping of the
memory, which the first use of a pool asks for, is left out.

### `KnowledgeMap` and `RadixTree` - the lore as a trie

`KnowledgeMap` is what `SaveOrIgnoreResult()` needs of a container: for every
number of outputs a map from keys to gate counts, in which a count only gets
smaller, with its size. `RadixTree` is the container that `USE_RADIX_TREE`
selects, with its callers' threads.

| Code | Model |
|---|---|
| `VectorStorage`: `ID`, `used`, the `StupidVec`s, `Buf`, `BufOwner` | the variables of these names; `ptrs[id]` |
| `storage`, `storage_size`, `holes` of `vectorstorage.cc` | the same; `storage[p]` is the node written at `p` |
| `RootID`, `Size` of a tree | `RootID[tree]`, `Size[tree]` |
| `io_lock` | `readers` (any number of them), `writer` |
| `VectorStorage::Read` | `Seek` (is the node in the buffer, was the one in it changed), `WriteBack`, `TakeOver`, `Load` |
| `Process`, `ProcessHelper` | a `Read` and `Descend` or `Found` per level (`Focus`, `Hit`) |
| `AddBack`, `add_or_find_or_update` | `AddLeaf`, `AddInner`, `Update` |
| `DeleteArray`, `clear` | `DeleteRoot`, `Recreate` |

A node is the sequence of its entries instead of their bytes; a link takes
`Base` values per byte instead of 256, so that nodes widen at once, but sizes
and places are counted in bytes as in the code (`Bytes`, `Reassign`). Reading a
node is up to four steps, as two threads under the shared lock may overlap
there: the tests of `BufOwner` and of `was_changed()`, the write-back of the
buffer, the change of its owner and its filling. Under the exclusive lock
nothing else can overlap. Each of the four is one step although none is atomic
in the code: that they interleave is enough to lose a node (`radix_race`), and
nothing is said of what two look-ups can do to each other beyond that. The
variable `overlapped` becomes true when a look-up begins while another one is
under way; the properties of the tree are about the states before that.
The trees are made one after the other and never destroyed
but by `clear()`, which SaveOrIgnoreResult() does not call and the interface
offers. IDs are never used again, hence the bound `MaxID`; the roots of the trees
fit in it (`NumTrees <= MaxID`).

### `TaskPool` and `AsyncPool` - a pool of threads

`TaskPool` says what the pool promises: tasks are started in the order in
which they were submitted, once each, at most as many at a time as there are
threads, and the pool is gone only when all have ended. `AsyncPool` is the
class: its threads (`Runner`), its users (`RunTask`, `ParallelizeFor` with its
two loops, `Wait`) and its owner (`Lifetime`: constructor and destructor).

| Code | Model |
|---|---|
| `lock` | `lock`; a section is one step, unless another thread can write what it has read, or it goes to sleep: `Drowse`/`FallAsleep`, `NotAllRegistered`/`AwaitRunner` |
| `num_running`, `num_runners`, `ending`, `waiting`, `tasks` | the same |
| `state_changed`, `runner_registered` | a thread at `"asleep"`, the owner at `"unregistered"`; `NotifyOne`, `NotifyAll`, `SpuriousWake` |
| `ind`, `cap`, `b`, `saved` of `parallelize_for` | `loop[u]`, `saved[u]` |
| a `std::future` | `finished`, the tasks whose future is ready |

`notify_one` wakes any sleeper, a user as well as a thread. A task is a value
that names its call and its range of indices; what it computes is left out.

## 3. Runs

| Run | Instance | Checks |
|---|---|---|
| `contention` | 3 threads, 3 rounds, groups of 2, files of several lengths (a partial group, an empty file), one kill and rerun at any moment; the numbers of outputs complete in mid-round, the last round is skipped | `TypeOK`, `OneLinePerKey`, `OptimalLines`, `LinesMatchLore`, `RoundsComplete`, `RecordsClaimedOnce`, `NeverReplaced`, `Terminates`, refinement of `OptimalCatalogue` with its liveness (`ImplementsCatalogue`) |
| `gates_single` | 1 thread, eight sizes up to 3 inputs and 4 gates | `TypeOK`, `NetworksComplete`, `NetworksUnique`, `NetworksUseful`, `Terminates` |
| `gates_team` | 3 threads with room for 2 file handles, two sizes and the first again, two kills and reruns at any moment | `NetworksComplete` |
| `order_narrow` | up to 4 outputs, 2 inputs, words below half their range; three wirings | `TypeOK`, `SameKey`, `DuplicatesDiscarded`, `KeyAsParsed`, `LineTellsTheTruth`, `LoreKeysDiffer` |
| `order_full` | up to 4 outputs, words of the full range | `SameKey` is violated |
| `catalogue` | every useful network of 1 input and 1 gate and of 2 inputs and up to 3 gates, one of 4 gates, a chain of gates for 3, 4, 5, 6 and 9 inputs, at most 4 outputs | `TypeOK`, `CombinationsComplete`, `OffersComplete`, `OffersAreKeys`, `LimitIsLastKey` |
| `pipeline` | 2 inputs, up to 3 gates and 3 outputs, 1 thread | `DatalogsTellTheTruth` |
| `kerbo_own` | 2 threads, 2 pools of 3 bytes each, keys of 1, 2 and 2 bytes | `TypeOK`, `IntactElsewhere`, `NoLeak` |
| `kerbo_race` | the same | `StoredIntact` is violated |
| `async_pool` | 2 threads, the owner with two calls of `run` or `parallelize_for` (3 indices), a second user with one `wait`, one spurious wake-up | `TypeOK`, `NoLostWakeup`, `EachIndexOnce`, `Terminates`, refinement of `TaskPool` (`KeepsPromise`) |
| `radix_tree` | 2 threads, 1 or 2 trees, 3 keys of 3 tokens, 2 gate counts, 8 nodes, one `clear`, until two look-ups overlap | `TypeOK`, `SlotsDisjoint`, `UsedCountsNodes`, `FindTellsTheTruth`, refinement of `KnowledgeMap` (`ImplementsMap`) |
| `radix_race` | 2 threads, 1 tree, 8 nodes, any number of look-ups at a time | `LookUpsLoseNothing` is violated |

**Bounds.** Two threads are enough for a race between look-up and insert; the
third one in `contention` lets a thread act on a stale file number while a
second holds `filenumber_lock`. Groups of 2 over 3 records give a partial group.
`MaxRestarts` bounds the number of kills. Four gates are the fewest with two
gates the odometer moves, which is where its skips meet; 3 inputs and 4 gates
leave inputs unused in many ways. Four outputs are enough for a comparison that
is not transitive to leave a set of tables in two orders. A fourth gate in
`catalogue` reaches the assertion; with 1 input there are fewer tables than
outputs, and the other numbers of inputs take every branch of the size limit.
`Reach` = 70000 is beyond the 65530 tables of 4 inputs. Keys of two lengths over pools of 3 bytes
fill a pool exactly, overflow into the second one and run out of memory. In
`order_narrow` a key of 2 inputs and 4 outputs has 26 bits, a value of three
gates 56: characters are split in every way. Two threads and a waiting user are
enough for a notification to reach the wrong one, two calls for the second one
to meet threads that fall asleep after the first; a loop over 3 indices has
shares of both kinds. Eight nodes are two trees of three levels and one more
branch, which takes a link of two bytes (`Base` = 2), moves a node to another
place and fills the hole it left. `radix_tree` does not go on from states in
which two look-ups have overlapped (`CONSTRAINT BeforeOverlap`): its properties
are true of them by their hypothesis, and there are more than 13 million. What
can happen there is the subject of `radix_race`, which has no such constraint.

**Fairness.** Weak fairness of `Main` and of each thread: the operating system
schedules every runnable thread preemptively. No fairness of locks is assumed:
a thread takes a lock only finitely often, so that weak fairness suffices.
`Restart` is not fair. The threads of gatebuilder are scheduled in the same
way, and so are those of `AsyncPool`: weak fairness per thread, although a
condition variable need not be fair, since spurious wake-ups are bounded
(`MaxSpurious`), only the owner submits and each call is made a bounded number
of times. Its users go on with a call they have begun, and leave at last, or
the destructor would rightly wait for ever. Only one user waits: see "Noticed".
The other modules state safety only. The runs of `KerboPool` do not check
for deadlock: the uncaught exception of a full memory ends the program; nor
do those of `RadixTree`, which stops at `MaxID` nodes.

### Disagreements found

* `order_full`: from 5 inputs on, `comp = a[w] - b[w]` (nandcombinator.cc:282)
  overflows an `int`; one set of tables gets several keys, and a duplicate
  output can go unnoticed. Up to 4 inputs (`order_narrow`) the sort is right.
* `kerbo_race`: the destructor of an empty string "frees" no bytes at offset 0
  of pool 0 (kerbostring.hh:54, 123). It can undo a first allocation of thread
  0, whose next string then overwrites a stored key.
* `radix_race`: `lore.find()` of a radix tree runs under the *shared* lock
  (nandcombinator.cc:376), but reads through the one buffer of `VectorStorage`,
  which also holds the last change of a node. One thread writes that change, a
  leaf, back to its place and makes the root the owner of the buffer; another
  one, which has seen before that the buffer was changed, writes it back too: the
  leaf, to the place of the root. The stored key is lost for good, although
  `Size` still counts it. (A look-up may also find its node in the buffer before
  it has been filled, and miss a key that is stored. That one the second look-up,
  under the exclusive lock, makes up for.)

Noticed on the way, not the subject of a run:

* `assert(thr < MAX_THREADS)` (gatebuilder.cc:107) fails on a machine with more
  than 8 cores, of which README.md:26 says that all are utilized: nothing limits
  the team to the 8 threads that have room for a file handle. `gates_team` has
  three threads and room for two (`Abort`).
* Thread n has the pools n, n + 8, n + 16 and so on (kerbostring.hh:141). With
  more than 8 threads the second pool of one is the first of another, and neither
  the test of the space nor the taking of it has a lock: two strings are put at
  one place, and a stored key is overwritten. With `ThreadIDs = {1, 3}`,
  `NumPools = 4` and `Stride = 2` TLC finds `IntactElsewhere` violated in 23
  states.
* `std::thread::hardware_concurrency()` may return 0 (nandcombinator.cc:687). Then
  no thread is started, and every round ends at once without a network having
  been read: with `Threads = {}` TLC finds `RoundsComplete` violated in 3 states.
* `assert(num_outputs < global_max_outputs)` (nandcombinator.cc:569) is stricter
  than the loop around it (line 531): 16 gates that are all outputs abort, unless
  there are fewer than 16 tables and so the size limit is 0. This is the case for
  2 inputs (12 tables), which is what `main()` processes at present
  (`CatalogueProofs.AssertionHolds`).
* Lines for functions that do not depend on all of their inputs are not
  optimal, because gatebuilder drops networks with an unused input
  (`DatalogsTellTheTruth` says what holds instead). The back-end leaves such
  inputs out before it asks.
* With two users in `wait()` of the async pool one may sleep for ever: the first
  to leave resets `waiting` (async_pool.hh:67), and the last notification goes
  to any one thread (line 193). Line 196, which would count a thread out, comes
  after an endless loop. With one core `parallelize_for` divides by 0 (line 107).
* `binomial(double, double)` divides infinity by infinity beyond 1000 tables
  (nandcombinator.cc:96), from 4 inputs with 2 outputs on: there the size limit is
  1e200. No lore gets that far, nor to the number that it should be, so that no
  round ends early that should not (`LimitIsLastKey`).
* README.md:115 describes the truth table of a key as a bit per output for
  each row; nandcombinator.cc:334-341 and parser.php:308-310 both write all rows
  of an output before the next output. README.md:119 has inputs of gates in 5
  bits, nandcombinator.cc:511 and solver.php:46 use 6.
* An importer killed while it fills a database leaves it newer than its datalog,
  and the next run skips it (import.php:22).
* The page cache stores with `add`, which does not replace a page of an older
  version (smallcache.php:109-115, 144): such a page is made again until it
  expires.

## 4. Mutants

Each property has a mutant: a definition next to the one it stands in for,
named after the bug it introduces (`RecheckForgotten`, `InsertUnlocks`,
`AdvanceFileBlindly`, ...). TLC finds the property violated by its mutant.

## 5. Proofs

`NandCombinatorProofs` proves for every number of threads, gates, outputs,
files, records and kills:

* `TypeCorrect`, `LinesUnique`, `LinesOptimal`, `NothingLost`,
  `LinesAndLoreAgree`, `ClaimsDisjoint`: `SafeSpec => []P` for the invariants
  the runs check;
* `NeverTakenOut`: the action property `NeverReplaced`;
* `CatalogueImplemented`: `SafeSpec` implements the safety part of
  `OptimalCatalogue`.

All follow from `Invariance`: the inductive invariant `IInv` holds. Its parts,
each needed by the next:

1. `StructureInv`: types; a thread at a record or key is at one that exists
   and in a group that has been claimed; `io_lock` is held exactly from the
   second look-up to the end of the line; a key is at one level, no higher
   than the current round.
2. `ProgressInv`: every record of the round is stored, unclaimed, or ahead of
   the thread that claimed it; `next_file` passes exhausted files only; a
   thread ends only if no file is left or all keys are stored; the rounds
   before this one have stored whatever they offered. The last part is what
   makes a stored key optimal: the current round could only offer it again.
3. `DatalogInv`: a key is stored with as many gates as it needs, and has its
   line unless a thread is about to write it.

Assumptions, named in `NandCombinator`: no thread is `NoThread`
(`ThreadsAssumption`), the key set is finite (`KeysAssumption`), `HypSize` is
no smaller than the number of keys (`HypSizeAssumption`), records offer keys
of the right number of outputs (`FilesAssumption`). `NothingLost` also assumes
that there is a thread, see "Noticed". All others hold without one, as nothing is
stored or written then.

Liveness (`Terminates`, the liveness half of `ImplementsCatalogue`) is only
model-checked: TLAPS has no support for it here.

`OutputOrderProofs` proves for every number of outputs, words and word values:

* `TypeCorrect`: the loops stay within the array, without further assumptions;
* `KeysAgree`, `DuplicatesAreDiscarded`, `KeysAreAsParsed`: `SameKey`,
  `DuplicatesDiscarded` and `KeyAsParsed`, *assuming* `NarrowWords`: words are
  below `Half`. This is the case up to 4 inputs (16 rows in a 32-bit word);
  `order_full` shows that the assumption cannot be dropped.

The argument: without overflow `Comp` decides `Above`, a strict order
(`CompIsOrder`, `AboveTransitive`). The invariant `SortInv` says that the
output in hand, put down where the search for its place has come to, gives a
permutation; that the outputs sorted so far descend, leaving out that place;
and that the output in hand belongs above those it has passed. So a finished
key descends and lists all tables (`KeysInv`), and two descending lists of the
same tables are equal: at the first place where they differ, each would have to
be above the other (`DescendingListsAgree`, by a least counterexample instead
of an induction).

`AsyncPoolProofs` proves for every number of threads, users, calls, spurious
wake-ups and every limit of a loop:

* `TypeCorrect`: `TypeOK`, with `num_running` as the number of threads at work;
* `IndicesOnce`: `EachIndexOnce`, whatever the number of threads;
* `WakeupsKept`: `NoLostWakeup`;
* `PromiseKept`: `SafeSpec` implements `TaskPool`.

The last two assume that the pool has a thread: a queue without one never
empties, and the destructor has nothing to wait for. All assume
`PoolAssumption`, of which the code justifies each part but `N > 1` for loops:
with one core `parallelize_for` divides by 0.

The argument: a step is one thread's and moves the others only by waking them
(`OthersAreRoused`). The inductive invariant `IInv` has one part per concern:

1. `LockInv`, `CountInv`: who is between two halves of a locked section, and
   what the counters count. So a thread that finds nothing to do finds an empty
   queue: with all threads at work it would be one of them (`DrowseEmpty`).
2. `LifeInv`: threads end and fall asleep over an empty queue only, and the
   pool ends after its users. With this, each step that puts a task in the queue
   or uses up a notification leaves somebody awake (`WakeKept`).
3. `LoopsInv`: the tasks of a loop cover each index up to its position once.
   The position ascends piece by piece and reaches the limit, which is arithmetic
   of integer division (`Cuts`).
4. `TasksInv`: a task is in one place only, and belongs to a call that has been
   made; in an unfinished loop it is among those saved. So the next task is a new
   one (`PushesNew`), which is what TaskPool's `Submit` asks for.

`GateBuilderProofs` proves for every list of work, number of threads, file
handles and kills, without assumptions but `WorkAssumption`:

* `TypeCorrect`: `TypeOK`, by which every wiring is free of loops;
* `NothingIsLost`: `NetworksComplete`;
* `NothingIsStoredTwice`: `NetworksUnique`;
* `BooksBalance`: while a round lasts, each wiring that is to be stored is either
  still to come or stored (`Balanced`), and no record is there twice (`Once`);
* `OnlyUsefulNetworks`: `NetworksUseful`;
* `RecordsAreUseful`: the same of every record at any time, also of those that a
  killed run has left, with the right number of gates (`RecordsUseful`).

The invariant `JobInv` says what is known of a wiring at each label (`HereAt`).
Two things are not seen from the code at once. The first wiring of a job needs a
new pair for each gate: among the pairs `<<0, s>>` there is one more than gates
before (`SharedFacts.InjectionMeetsAll`). And nothing tests whether the second
gate of a job is a double negation, nor whether the unused input put into the
last place makes the last pair an old one. It does not, as no earlier gate reads
that input; and a double negation in the second gate copies an input, which
`Catalogue()` finds.

`NetworksComplete` and `NetworksUnique` rest on a second invariant, the ledger
(`LedgerInv`), and on what the tests of the odometer amount to:

1. A wiring is `Good` if it passes all tests. It is `Open` if its job was not
   handed out, or if it comes after the wiring of the thread that has its job, in
   the order of the odometer: `Ahead` says for each label which places that order
   looks at. `LedgerInv` says that the jobs of the threads are apart
   (`JobsApart`), that a good wiring is open or stored, never both (`Balanced`),
   that the records are those of good wirings (`AreGood`) and no two are equal
   (`Once`), and that a first run finds no files (`Fresh`).
2. Each step of a thread leaves the same good wirings ahead (`GoesOn`), except
   the one that stores one (`RecordBooks`). A skip over a gate loses nothing
   because what it skips has in common the gates that the test looked at
   (`SkipTo` with `MisplacedToo`, `NotNotToo`, `BadToo`); the input put into the
   last place is the only one that helps (`UnusedInputNeeded`); and a job may
   start where it does because an earlier start would repeat a gate
   (`FirstComes`).
3. The networks of good wirings are the useful ones that are `Settled`: no gate
   could be exchanged for a later one that sorts before it (`GoodIsSettled`,
   `SettledIsGood`). Each network can be settled by other numbers
   (`CanBeSettled`: the least gate that could come first is moved there, gate by
   gate), which keeps it useful (`SharedFacts.UsefulKept`); and two settled
   networks without repeated gates that differ in the numbers only are equal
   (`SettledOnce`). So the good wirings have one network of each class.

The second point needs none of the limits of a run: it holds for any number of
inputs and gates, for any order in which the threads take their jobs and
however often the program is killed. That the files of a killed run stay behind
is why `NetworksUnique` is about a run without kills.

`CatalogueProofs` proves for all networks and limits of outputs:

* `TypeCorrect`: `TypeOK`;
* `EveryCombinationOnce`: `CombinationsComplete`. The lists ascend in
  lexicographic order, and between a combination and the next one of the odometer
  there is no other (`NextCombination`);
* `EverythingOffered`: `OffersComplete`, *assuming* `KeysExist`: gates that are
  all needed have tables that are a key, unless more outputs are taken than the
  assertion allows;
* `KeysAreCounted`: `OffersAreKeys`, *assuming* that the networks are useful and
  in order, which `GateBuilderProofs.RecordsAreUseful` says of the files;
* `AssertionHolds`: if the tables worth a gate are fewer than `MaxOutputs`, the
  assertion never fails, for networks of any number of gates: the size limit of
  so many outputs is 0 (`TooManyChosen`), and nothing is tried.

`KerboPoolProofs` proves for every number of threads, pools, keys and every size
of a pool:

* `TypeCorrect`, `StoredElsewhereIntact` and `PoolsDoNotLeak`: `TypeOK`,
  `IntactElsewhere` and `NoLeak`, *assuming* `PoolsApart`: no two threads share a
  pool but pool 0. So it is with as many threads as the stride, 8
  (`FewThreadsArePoolsApart`); beyond that they share pools without a lock, see
  "Noticed".

Its `IInv` follows a string from `Allocate()` to the set or to `Free()`: a
thread's string is the last one of its pool (`StringInv`), has its bytes
(`FilledInv`) and lies above all stored ones (`BelowInv`), which are apart
(`ApartInv`) and leave no gap (`FullInv`).

`RadixTreeProofs` proves for any number of threads, trees, keys, tokens of a key
and nodes:

* `PlacesNeverOverlap`: `SlotsDisjoint`;
* `OthersKeep`: a step that writes back the buffer, or writes where the node in
  it is, changes no other node, also of another tree (`WritesKeepOthers`);
* `NodesWellFormed`: `TypeOK`, with the entries of each node in order and its
  links in the bytes it has for them;
* `NodesCounted`: `UsedCountsNodes`;
* `FindIsRight`: `FindTellsTheTruth`;
* `TreesAreMaps`: `Spec` implements `KnowledgeMap` (`ImplementsMap`).

All six are about a behaviour up to the moment when two look-ups overlap: the
code allows that, and `radix_race` shows that nothing can be promised from then
on. So whatever goes wrong in the trees takes two look-ups at the same time.

The first two follow from `IInv`: all nodes and holes are within the storage and
apart (`Layout`), and what has a length can be read (`Readable`). It says nothing
of where links lead. The three ways of `Reassign()` are one: give up the place,
then take a hole, or the end of the storage (`GiveUp`, `TakeHole`, `PutLast`).

The other four follow from `NoOverlapYet`: the invariant `RInv` holds until two
look-ups overlap. It is about the nodes as they are now, `View`: the one in the
buffer as the buffer has it, the others as the storage has them. `BufferInv` says
when the two agree. So to write back the buffer, to move a node to another place
or to change the owner of the buffer is no change at all (`WriteBackView`,
`TakeOverView`, `LoadView`), and the rest is about the tree:

1. `LockInv`: who is not idle and does not wait for the lock holds it, so that
   before two look-ups overlap there is at most one such thread (`Alone`).
2. `ForestInv`: the nodes that are counted are those of the trees, where no node
   is in two trees or on two levels of one, and the root of each tree is a node of
   its own (`Forest`). A walk along a key meets one node per level at most
   (`OneNode`). A new entry in a node is then met by the keys with its token
   only (`ContentGrows`), and what is written to a leaf by one key
   (`ContentChanges`). A tree that is cleared takes none of another one's nodes
   with it (`ForestLess`).
3. `PlaceInv`: a thread is at the node that its key leads to on its level, and
   has the answer that is there (`PlaceOf`). Nobody else can write meanwhile.
4. `RoomInv`: the thread that adds a key may still make as many nodes as its key
   has levels below the root, which is what the guard `Room` reserves.

`StepKeepsTrees` puts this together: each step is one of `KnowledgeMap` or none.
The walks are recursions over the levels of a tree. What is needed of them is
proved by a least counterexample (`FollowerExists`, `SameRecursion`), not by an
induction.

**Model-checked only.** Liveness (`Terminates`, the liveness of
`ImplementsCatalogue`) and whatever rests on `ENABLED`: TLAPS has no support for
it here. What a fold over the fields of a string computes (`LineTellsTheTruth`,
`LoreKeysDiffer`, `DatalogsTellTheTruth`), and that a binomial counts sets
(`LimitIsLastKey`): inductions over data.

## 6. Not modelled

The list of components in `PROJECT.json` names every part. Left out for good
are drawings, pages and configuration (output without state), thin wrappers of
system calls and intrinsics, and the vendored allocator.

* The importers: each runs alone, and the effects of a crash within their
  statements are those of MySQL, of which the repository says nothing.
* The page cache: one `get` and one `add` of an external cache. Pages are
  functions of the expression, so that two requests that race add equal pages.
* The shunting-yard parser and the analysis of a truth table in the back-end:
  sequential text processing within one request. What ties it to the combinator
  is modelled: the order of the outputs and the key.
* The other containers of the lore (`USE_PATRICIA_TRIE`, `USE_SPARSE_MAP`) are
  libraries.

An I/O error while writing is not modelled, as the programs do not look for one,
and neither is the rounding of the size limit. What two look-ups under the shared
lock do to the inside of one step of a write-back, or to the vectors of the
library, is undefined behaviour of which `radix_race` needs nothing.

## 7. Plan

Done: all modules of section 2 and the proofs of section 5.

Every safety invariant, action property and refinement that a run checks is
proved for every instance, but for the four inductions over data and the
liveness that section 5 lists as model-checked only.
