# A verification project for ParallelGraph

ParallelGraph (`src/`) is a graph-processing library in C++ in the manner of
GraphLab: a graph is loaded from an edge list and compressed by rows and by
columns, and a synchronous engine runs a *vertex program* (gather, apply,
scatter) on the signalled vertices, with worker threads, superstep after
superstep, until no vertex is signalled. The repository also keeps an older
graph with a mutex-protected vertex scheduler, a belief-propagation program,
and a port of GraphLab's hybrid Ginger partitioner.

This directory holds TLA+ modules translated from that code, the TLC runs that
check them on small instances, and TLAPS proofs for every instance.

## 1. Inventory

### Synchronous engine: `src/src/graphpara/engine/sync.cpp`

*State.* The vertex data (in the graph), one accumulator and one vertex program
per vertex, the bitsets of vertices active in this superstep and signalled for
the next, the counter the workers claim blocks from, the iteration counter; the
stack of each worker (its function, block, word, vertex, edges left,
accumulator).

*Operations.* `signal`, `signal_all` and `run`, called by the program;
`execute_fun`, which starts five threads on one function and joins them;
`execute_gathers`, `execute_applys`, `execute_scatters`, which the workers run.

*Interactions.* The engine reads the graph's in- and out-edges, calls the
vertex program on each, and the program calls `signal` back through
`context.hpp`. Nothing is locked: safety rests on the workers claiming disjoint
blocks of 64 vertices by `fetch_add`, on the barrier between two phases, and on
`set_bit` being atomic.

*Hard.* Interleavings of the workers; signals that must survive the swap of the
two bitsets; a word skipped, visited twice or read from the wrong bitset; the
last, partial block; a thread that cannot be created.

*Correct means.* No data race; each active vertex gathers completely, is
applied once, on data of the previous superstep; exactly the vertices signalled
in a superstep are active in the next; a signal is served while iterations are
left; `run` returns.

### Vertex programs: `vertex_program/*.hpp`, `apps/pagerank.cpp`

*State.* `last_change` per vertex. *Operations.* `gather_edges`, `gather`,
`apply`, `scatter_edges`, `scatter`. *Correct means.* When `run` returns because
nobody is signalled, no vertex holds a rank computed from ranks that have
changed since (for an exact tolerance).

### Bitset: `util/dense_bitset.hpp`

*State.* An array of words and a length. *Operations.* Atomic set, clear and
xor of a bit, bulk operations (`clear`, `fill`, `|=`, `&=`, `-=`, `invert`),
search (`first_bit`, `next_bit`, `first_zero_bit`), `containing_word`, iteration,
`resize`, `transfer_approximate_unsafe`. `fixed_dense_bitset` is the same for a
fixed length, and can be filled from memory. *Hard.* The bits behind the last
one in the last word; words of another length; searches that must end; an
iterator, which keeps a position only, over a bitset that changes under it.
*Correct means.* It behaves as a set of numbers, those below its length unless a
caller sets a bit behind it, and a loop over it meets what stays in it, in order.

### Graph: `graph/graph.hpp`, `util/counting_sort.hpp`, `util/csr_storage.hpp`

*State.* The maps between global and local ids, the edge buffer, the vertex
array, the edge array, and row and column storage after `finalize`.
*Operations.* `load`, `add_edge`, `add_vertex`, `finalize`, `in_edges`,
`out_edges`, `num_*`, `vertex`. *Hard.* Sorting positions and prefix sums at the
boundaries (no edge, the largest id); the order of calls: edges added after
`finalize`, `finalize` called twice, vertices added before it. *Correct means.*
The row of a vertex lists exactly its out-edges and the column its in-edges,
with the edge ids of the data array, and there are as many vertices as ids.

### Older graph and its scheduler: `graph/graph.1.hpp`, `apps/main.cpp`

*State.* That of the graph above, and a queue of vertices, a matrix of flags, a
mutex. *Operations.* `load`, which ends with `init_matrix_flag`; `add_vertex`;
`finalize`, which adds no vertices here; `get_vertex_to_run`, `resotore_vertex`,
the thread function and the loop that starts five threads at a time. *Hard.*
Finding a vertex and marking its row and column under the mutex while others
restore theirs; the rotation of the queue is bounded; a thread may get nothing;
`init_matrix_flag` appends and clears nothing, so a matrix may be smaller than
the ids. *Correct means.* The scans stay within the matrix, one vertex at a time is held (each vertex marks a
cell in the row of every other, so the flags exclude all of them, not only
neighbours), none is lost or run twice, and the program ends.

### Ginger ingress: `distributed_hybrid_ginger_ingress.hpp`

*State.* The number of processes (a process alone takes a shorter way). Per
process: counts of degrees and of edges per process, buffers of vertices and edges exchanged between processes, the master table, the local
graph. *Operations.* `add_edge`, `add_vertex`, `assign_hybrid_edges`,
`sync_heuristic`, `finalize`, `set_degree_type`, `modified_base_finalize`. The
exchange and the barriers are GraphLab's, outside the repository. *Hard.*
Messages between processes in any order, decisions taken on counts that lag
behind and are added in floats, masters that all processes must agree on. *Correct means.* Each edge
ends up at one process, each vertex has one master that all agree on and a
mirror wherever one of its edges is.

### Belief propagation: `apps/lbp/main.cpp`

*State.* Four messages per edge (new and old, both ways), a queue of vertices.
*Operations.* The loop that takes the vertex at the front, makes the messages
it received old, computes its belief and its messages, queues the neighbours
whose messages changed, and pops. *Hard.* The vertex is popped after its
neighbours were pushed; an edge's two directions share an array; the belief
starts from a vector that is resized and not set; the edges and the vertex data
come from two files; the loop has no bound. *Correct means.* Every message is
initialised, a change its receiver has not used is never forgotten, every vertex
gets a belief, and the loop ends once the messages settle.

### The rest

`apps/rpcdemo`, `tests/readv`, `tests/semantics`, `usequeue.cpp`, `mygraph.cpp`,
`hash_edge.cpp`: demonstrations of a library or of a C++ feature, with no state
that outlives a call. They are not modelled.


`apps/rpcdemo/use_exchange.cpp` shows how GraphLab's exchange is used (send,
flush, receive, clear); it is where the model of the exchanges starts from.

## 2. Plan

| Step | Modules | State |
|---|---|---|
| Core: the threaded engine | `VertexProgram`, `SyncEngine`, `MCSyncEngine` | done |
| What it promises, and that it keeps it | `BSP`, `SyncEngineRefinement` | checked |
| No races, complete gathers, each step a superstep or nothing, no stale accumulators | `SyncEngineProofs` | proved |
| What the engine stands on | `BitsetWords`, `DenseBitset`, `FixedBitset`, `CountingSort`, `GraphStore`, `MCGraphStore` | checked |
| The older scheduler | `VertexScheduler`, `VertexSchedulerProofs` | checked, its safety proved |
| The older graph, what its two programs start from | `OlderGraph`, `MCOlderGraph` | checked |
| The sort, ids, rows and columns, when an engine can start, symmetry, what the scheduler and belief propagation start from | `GraphProofs` | proved |
| Belief propagation | `LoopyBP`, `MCLoopyBP`, `LoopyBPProofs` | checked, proved |
| The distributed ingress, its balances added in floats | `Floats`, `GingerIngress`, `MCGingerIngress` | checked |
| Its types, no edge and no increment lost | `GingerIngressProofs` | proved |
| One master, the cut, data, degrees and counters after the first finalization | `GingerMastersProofs` | proved |
| The bitset that changes its length: operations, transfer, searches, the loop over it | `DenseBitsetProofs` | proved |
| The fixed bitset and its iterator | `FixedBitsetProofs` | proved |

`BSP` is the abstract specification and `SyncEngine` the detailed one; both
extend `VertexProgram`. `SyncEngineRefinement` composes them by a refinement
mapping. `GraphStore` extends `CountingSort`, and `OlderGraph` extends `GraphStore`;
`DenseBitset` and `FixedBitset` extend `BitsetWords`. Where one component hands its
state to another a property says what the other takes for granted:
`GraphStore!ReadyForEngine` for `SyncEngine`'s `GraphAssumption`,
`DenseBitset!BlockIteration` and `FixedBitset!IterationSound` for the sets of
vertices that `SyncEngine` writes where the code has bitsets (it signals only
vertices there are, so no bit behind the length),
`OlderGraph!SchedulerInBounds` for the scans of `VertexScheduler`, and
`OlderGraph!LoopyBPReady` for `LoopyBP`'s initial state.

## 3. The modules and the code

In all modules names are the code's. A definition that is a deliberately wrong
variant of the one after it says so in its comment ("Wrong: ..."): no
specification uses it; it shows what the properties are able to detect.

### `VertexProgram`, `BSP`

A graph is a set of edges with `Source` and `Target`; a vertex visits an edge as
`<<edge, "in">>` or `<<edge, "out">>`, so a self loop under `ALL_EDGES` is
visited twice, as in `execute_gathers`. An accumulator is the function from
visits to the values added: the sum is taken in `Apply`, so the order of the
additions, which the code does not fix across edges of equal id and which
matters only for rounding, is left out, and a visit left out or made on the
wrong data shows. `Apply` and `Significant` are parameters; `pagerank.cpp`'s
versions damp and compare.

`BSP` has one action per superstep: all active vertices gather from the data
before it and apply at once, and those that a significant change reaches are
active next.

### `SyncEngine`

| Code | Model |
|---|---|
| `signal`, `signal_all`, `run` called by the program | `Signal`, `SignalAll`, `Run` while `mpc = "idle"` |
| the copy of the bitset, `clear`, `popcount`, `break` (105-112) | `BeginSuperstep`, `Quiesce`, `MaxedOut` |
| `execute_fun`: `pthread_create`, `exit(-1)`, `pthread_join` | `Spawn`, `CreateFails`, `JoinGathers`, `JoinApplys`, `JoinScatters` |
| `fetch_add`, the test against `nverts` | `Claim`, one atomic step |
| `containing_word`, the test for 0, the iterator | `LoadWord`, `StartVertex`, `EndVertex` |
| one edge of a gather, the store of the accumulator | `GatherEdge`, `FinishGather` |
| `apply` | `ApplyVertex` |
| one edge of a scatter, with the `set_bit` in `context.signal` | `ScatterEdge`, `FinishScatter` |

The steps of different workers interleave at each access to something shared:
the claim, the word, each neighbour's data, the signal. `vertex_programs` keeps
one field, `last_change`, as the truth of "above `TOLERANCE`". `iteration_counter`
is never reset, as in the code, so a second `run` goes on counting.
`max_iterations` is `size_t(-1)` in the constructor; `MaxIterations` stands for
any bound.

### `BitsetWords`, `DenseBitset`, `FixedBitset`

A word is the set of its one-bits and the array a function from positions to
words, so the bits behind the length exist and can be wrong. `BitsetWords`
defines each operation on a bitset; both classes have the same bodies for those
they share. `DenseBitset` calls them in any order on one bitset, with a second one
as argument, and steps through `transfer_approximate_unsafe` word by word.
`set_bit` is one step: it is one atomic fetch-and-or. It, `clear_bit` and `xor_bit`
look at no length, so they are called with any position the array has
(`Positions`), those between the length and the end of the last word included;
what they do to memory behind the array is left out. Likewise a transfer is
called on bitsets of length 0 too, where the loop reads and writes a word that is
not the bitset's: it may then find any number of bits there (`TransferNothing`).

The comment of `resize` (`dense_bitset.hpp:84-90`) promises less than the code
does: new bits are "undefined", and shrinking "may still leave the "deleted" bits
in place which will mess up the popcount". In the code (91-105) the last word is
always cut and new words are zeroed, so that the bits below both lengths stay,
new ones are zero but for bits that had been set behind the old length, and no
deleted bit is left. `OperationsAreSetOperations` and `NoNewTrailingBits` state
what the code does. The warning is out of date, but it only allows what does not
happen, so there is no run that could refute it.

`FixedBitset` has an iterator (`Begin`, `Increment`) beside the calls that change
the bitset, and histories of what was in it since `begin`: the engine's loop at
sync.cpp:139 leaves the word alone, but nothing in the class makes a caller do
so. Its binary operators (`&`, `|`, `^`, `-`, `&=`, `|=`, `-=`, `==`, lines 801-874)
name a macro, `ASSERT_EQ`, that no header of the repository defines; a program
that uses one does not compile, and they are not modelled.

### `CountingSort`, `GraphStore`

`Sorted` follows the three loops: counts, partial sums, and the pass from the
back that counts down. `GraphStore` has `AddEdge`, `LoadUndirected` (the two calls
`load` makes for a line), `AddVertex` and `Finalize`, with the edge data swapped
between buffer and array as the code does, so what happens on a second
`finalize` is seen. The data of an edge is its number, which tells the edges
apart. `ReadyForEngine` is an equivalence: of all orders of the calls it names
those after which an engine can be given the graph.

### `OlderGraph`

The class of `graph.1.hpp` has the text of `graph.hpp` for ids, edges, vertices and
the rows, so the module takes these from `GraphStore`: `LoadLine`, `LoadVertex` and
`OlderFinalize` are its actions, the last without the vertices `graph.hpp` adds.
New are the matrix and the queue (`EndLoad`, `init_matrix_flag`); the matrix is the
sequence of the widths of its rows, as no flag is set before the scheduler
starts. The properties are about what the two programs read next: the cells the
scheduler scans, and the calls of `edge::initialize` and the pushes at the start
of belief propagation (lbp/main.cpp:140-152).

### `VertexScheduler`

`Lock`, `Take`, `Rotate`, `GiveUp` are `get_vertex_to_run`, `Work` and `Restore`
the thread function and `resotore_vertex`, `Test`, `Create`, `CreateFails`, `Join`
the loop of `main`. The scan of one vertex's flags under the mutex is one step,
for nobody else can touch them meanwhile.

### `LoopyBP`

`GatherApply`, one `ScatterEdge` per edge, `Pop`. A new message may be any value,
because the sum it is computed from starts from a vector that was only resized
(161-162). What is checked is therefore independent of the arithmetic; that
messages converge is not claimed, only that the loop ends if they do.

### `GingerIngress`

| Code | Model |
|---|---|
| `add_edge`, `add_vertex`, the call of `finalize` | `AddEdge`, `AddVertex`, `CallFinalize` |
| the flush, `all_reduce(changed_size)`, the early return | `BeginFinalize` |
| `assign_hybrid_edges` | `CollectEdges`, `AssignHigh`, `AssignLow`, `SyncHeuristic`, `AssignEnds`, `LastSynchronize` |
| low edges, high edges and their re-sending | `PlaceEdges`, `ReceiveHigh` |
| `modified_base_finalize` | `BuildLocalGraph`, `ReceiveVertices`, `Handshake`, `SyncMeta` |
| `set_degree_type` | `SetDegreeType`; `GatherCounts`, the part compiled with `TUNING` |
| the fast pass for a single process | `standalone`, `CollectAll` |
| each other `flush` and `full_barrier` | `Barrier` |

The exchanges, barriers and the gather-apply are GraphLab's and not in the
repository. The model assumes of them: what is sent may arrive at once, and has
arrived when the flush, which is a barrier, is over; increments of one sender
arrive in order; a `recv` takes what has arrived, and `clear` after it drops
nothing else. The score of `ginger_to_proc` is a parameter, as is the hash.
Between two barriers a process acts alone, and its steps interleave with the
others'.

The balances are numbers to which a float is added, `size_t += float` (329-335):
the number becomes a float, the sum is rounded to one, and the fraction is
dropped. `Floats` has this arithmetic for fractions that are not negative: a float
is a fraction whose denominator is a power of two and whose numerator is at most
`FloatLimit` (2^24 in the code), or above the limit a multiple of a power of two,
and each operation is rounded to nearest, ties to even. How much is added
therefore depends on the sum so far. A process adds the same share to its own
balance and to the increment it sends, which starts again from 0, so the two may
grow by different amounts, and from 2^24 on its own balance does not grow by
small shares at all. Nothing in the code or its comments says that the balances
agree, and they need not. What is checked and proved is `BalancesAddUp`: below the
limit each process would end, when all increments have arrived, between the
weight of what was placed at a process and that weight plus one per target.

`updated_lvids` is left out: the set computed from it (line 950)
is a second variable that hides the first, so the synchronization is over all
vertices whatever it says.

## 4. The runs

| Run | What it shows | Bounds, and why they suffice |
|---|---|---|
| `rank` | `TypeOK`; `RaceFree`; `GatherComplete`; `NoStaleAtQuiescence`; `ImplementsBSP`, `SignalServed`, `RunReturns` | 3 vertices in words of 2 bits: a full block and a partial one; 2 threads, so one may take both blocks or each one; a cycle with a short cut; 5 iterations, enough for the ranks to settle |
| `add` | `ImplementsSupersteps`; `OnlySmallChangesMissing` | 3 threads (one always finds no block), a program on which applying twice or on mixed data shows, a self loop, all four directions, a tolerance of one on data from 0 to 2; two starts, from one of which it settles; 2 iterations so that one superstep's signals activate the next |
| `bitset` | words stand for a set of numbers (`OperationsAreSetOperations`, `SearchesCorrect`, `BlockIteration`), `NoNewTrailingBits`, `TransferEnough` | lengths 0 to 5 in words of 2 bits: no word, full and partial last words, two words before a partial one; bits set and flipped behind the length too |
| `transfer` | violation: see Findings | 3 bits in words of 2 |
| `first_zero` | violation: see Findings | 3 bits in words of 2 |
| `fixed` | `IterationSound`, `OnlyForeignTrailing` | lengths 1 to 4 in words of 2 bits: a partial word alone and after a full one, and a second word to step into |
| `graph` | `IdsBijective`, `SortsEdges`, `RowsAndColumns`, `ReadyForEngine`, `UndirectedIsSymmetric` | the calls in any order: 4 edges over 3 ids (self loops and repeated edges among them), 1 `add_vertex`, 2 `finalize` |
| `older` | `SchedulerInBounds`, `LoopyBPReady` | 3 edges over 3 ids, 3 `add_vertex` (data for each id), 2 `load`, 1 `finalize`, in any order |
| `scheduler` | `OneAtATime`, `FlagsMatchHolders`, `NeverLost`, `GivesUpForAReason`, `EndsWithAllRun` | 4 vertices, 3 threads: threads contend, some get nothing, and several rounds are needed |
| `lbp` | `ChangedIsQueued`, `NobodyForgotten`, `SettlesThenEnds` | a path with a self loop; 3 messages, of which neighbours are within the tolerance; a queue of 4, so a vertex may be queued twice |
| `ginger` | `EdgeAtOnePlace`, `BalancesAddUp`, `OneMaster`, `HybridCut`, `DegreesKnown`, `CountsAddUp`, `DataEverywhere`, `FinalizeReturns` | 1 and 2 processes, 3 vertices, all multisets of up to 3 edges, one vertex record, threshold 1 (low and high degrees occur), a synchronization after each target; an edge weighs 3/4 (`TotVerts` 3, `TotEdges` 4), so a share is rounded differently by sums of different size, and three targets reach the `FloatLimit` of 8 |
| `ginger_again` | violation: see Findings | 2 edges, 2 finalizations |

In the graph runs the global ids are symmetric (local ids go by order of
arrival). Deadlock is checked except where the bounds on the client's calls
leave nothing to do (the two graph runs and ginger's); there `FinalizeReturns` and the
properties of the rows say what matters.

Bounds. `MaxIterations` (the code has such a bound itself), `MaxLen`,
`MaxEdges`, `MaxVertexCalls`, `MaxFinalize`, `MaxLoads`, `MaxQueue`, `MaxVertices`
and `MaxRounds`. Each cuts off calls of the client, apart from `MaxQueue`, which cuts
off pushes; the theorems about `LoopyBP` hold for every value of it. Of the floats,
`FloatLimit` is 2^24 in the code and 8 in the runs, and `MaxScale` is the largest
power of two a float is divided by or a multiple of (64 in the runs, 2^149 and 2^104
in the code); the theorems hold for any of both.

### Fairness

`SyncEngine`: weak fairness of the loop of `run` and of each worker, for the
operating system runs every thread that can run and no step of the engine waits
for anything but joins. The client is never obliged to signal or to run.
`VertexScheduler`: weak fairness of `main` and of each thread. A waiting thread
needs no stronger fairness at the mutex: in one round each of the other threads
locks it at most twice, so it is free for good from some point on.
`GingerIngress`: weak fairness of each process inside `finalize` and of the
collective operations; that messages arrive is in the flush.
`DenseBitset`: weak fairness of the transfer loop, once it is called.
`LoopyBP`: weak fairness of the loop, which a single thread runs.

### Findings

* `transfer_approximate_unsafe` (`dense_bitset.hpp:211`) does not return when it
  is asked for more bits than there are, starting at word 0: the test for having
  come round is in the `else` branch of the wrap (run `transfer`). Nothing calls
  it.
* `first_zero_bit` (`dense_bitset.hpp:342`) of a full bitset returns true with a
  position behind the end when the length is no multiple of 64 (run
  `first_zero`). Nothing calls it.
* A second `finalize` of the Ginger ingress sends vertex data to a process that
  is not the master (run `ginger_again`): the table of masters is cleared after
  each finalization (line 823) and filled anew, while owners stay. Hence
  `OneMaster`, `HybridCut` and `DataEverywhere` are claims about the first
  finalization, and are checked with `MaxRounds = 1`.

Orders of calls that no caller in the repository makes, and that the properties
single out: `finalize` of a graph without edges makes a vertex without a row,
`add_vertex` before `finalize` doubles the vertices, and new ids after it have no
row (`ReadyForEngine`: an engine cannot be given any of these graphs); a second
`load` of an older graph appends to the matrix and the queue of the first, and
the scheduler reads behind its rows exactly if there is a new id
(`SchedulerInBounds`). An engine that stops with a vertex computed from data that
changed since does so only by changes within the tolerance, which may add up
(`OnlySmallChangesMissing`).

## 5. The proofs

Every theorem is about the specification as the runs check it and holds for all
values of the constants that satisfy the named assumptions: `GraphAssumption`,
`ProgramAssumption` and `EngineAssumption` of the engine, `SchedulerAssumption`,
`GraphAssumption` and `MessageAssumption` of `LoopyBP`, `WordAssumption`,
`BitsetAssumption`, `LengthAssumption`, `StoreAssumption`, `OlderAssumption`,
`GingerAssumption` and `FloatAssumption`. TLC evaluates all of them in the runs. Two hypotheses go
further, and are part of the theorems that need them:

* `ScoresAreNumbers` (the Ginger theorems): the score of a process, for counts that
  are numbers, is a number. In the code it is a double (ginger_to_proc); the
  comparison is all the model uses of it.
* `ReportsEveryChange` (`NoStaleAccumulator`): every change is significant, and scatter
  reaches whoever gathers. The first holds of a tolerance of zero only, which is
  what `NoStaleAtQuiescence` is about (`OnlySmallChangesMissing` treats the others); the
  second of pagerank's directions, which are opposite (`OppositeDirections`).

Induction over data is written as the search for a least counterexample
(`LeastNumber`, `UpToN`, `SmallestSet`), because the library's induction theorems take
an operator the provers cannot instantiate. A fold is treated as the recursive
function it is defined by: one shows that a function satisfying the recursion
exists, by a closed form where there is one, and then what its values are.

### The engine: `SyncEngineProofs`

* `TypeCorrect` (`TypeOK`) and `RaceFreedom` (`RaceFree`). Neither
  is inductive. `Control` ties `mpc`, `phase` and the functions of the workers
  together: everybody runs the function of the phase, and nobody runs between
  phases. `Ownership` says that the blocks of two workers are disjoint, lie below
  the shared counter, and contain what is left of the worker's word. A claim
  keeps `Ownership` because it starts at the counter and moves it by as much as
  the block is wide. Two workers at vertices are then in different blocks and in
  the same phase.
* `NobodySkipped` (`GatherComplete`). `PartlyGathered` says
  of a worker half way through a vertex that its accumulator is the data of the
  visits made; nobody applies meanwhile (`Control`), so it stays so. A vertex
  stops being `Pending` only when its accumulator is stored, since a claim moves
  it from "not claimed" to "in a block to load", a load to "in a word", and
  only `FinishGather` takes it out.
* `EngineImplementsSupersteps` (`ImplementsSupersteps`): `BeginSuperstep` maps to a
  superstep of `BSP`, whose outcome is settled then, and every step of the
  workers to a stutter: the mapping computes the outcome from how far the phases
  have come, and a step of a phase moves what it computes from what is to come to
  what was done. `Boundary` (a worker leaves only when every block was handed out)
  makes that a join finds no vertex pending, `ScatterInv` that the last join finds
  in `next_active_superstep` exactly the vertices of the next superstep: every
  signal was sent by an active vertex that changed, and every one such a vertex
  owes is sent or still to come.
* `NoSignificantChangeMissed` (`OnlySmallChangesMissing`) and `NoStaleAccumulator`
  (`NoStaleAtQuiescence`). `CaughtUp`: where an accumulator differs from the data of a
  neighbour whose last change was significant, the reader is signalled between
  supersteps, active during the gathers, and in the other phases the neighbour is
  active and so will signal (`CatchesUp`). `StaleChanged` adds for the second theorem
  that an accumulator differs only by changes that are remembered.

### The graphs: `GraphProofs`

* `CountingSortSorts`: each loop has an invariant over its rounds. After the first,
  the counter of a value is how often it occurs; the second turns these into the
  numbers of elements not above a value; in the third, which goes backwards, the
  counter of a value is how many elements come before the next one that has it
  (`Below`), so that each element goes to its own position (`Pos`) and elements of one
  value keep their order.
* `IdsStayBijective` (`IdsBijective`; `OlderIdsStayBijective` for the older graph):
  `get_local_id` extends its table by the next number (`IdsOK`, `ExtendsTable`), so
  whatever was built with an earlier table agrees with the present one.
* `BuffersAreSorted` (`SortsEdges`), `RowsAndColumnsRight` (`RowsAndColumns`): `StoreInv`
  says that the buffer has the ends of the edges added since, and that rows and
  columns are the sort's of the edges of the last finalization (`RowsBuilt`); what a
  row holds then follows from the prefix sums, which are where it begins.
* `ReadyExactlyThen` (`ReadyForEngine`), an equivalence: `ReadyInv` compares
  the vertices that finalizations and calls of `add_vertex` have appended with the
  ids.
* `LoadedBothWays` (`UndirectedIsSymmetric`): the two calls for a line give edges next
  to each other, so `Twin`, the edge next door, is a bijection between the out-edges
  of a vertex and its in-edges.
* `SchedulerStaysInBounds` (`SchedulerInBounds`, an equivalence): the first load that
  found an id made rows as wide as the ids of its time, and no later one shortens
  them (`GrowsByLoads`).
* `LoopyBPStartsReady` (`LoopyBPReady`): finalizing last leaves a row for every id and
  no more vertices than ids (`LoadedInv`), and the edges counted row by row are all
  of them (`RowLengthsAddUp`). `OlderRowsRight`: sort and rows are right in the older
  graph too.

### The bitsets: `DenseBitsetProofs`, `FixedBitsetProofs`

A bit is the pair of its word and position, and their lexicographic order is the
order of the numbers (`WordOrder`). Each module has its own copy of these few
lemmas, as the classes have of the code; neither module extends the other.

* `OperationsMeanWhatTheySay` (`OperationsAreSetOperations`): per operation, the words
  it makes are those of the set it is named for (`WordsSay`, `BitsSay`); the cut of
  the last word is where positions reach the length (`BehindTheCut`).
  `NoneBehindTheLength` (`NoNewTrailingBits`), an action property: each operation but
  setting and flipping a bit makes a set below the length, or one whose members
  behind it one of the two bitsets had.
* `TransferMovesEnough` (`TransferEnough`): `TransferInv` says which words the loop has
  been to, from the initial one to where it is, around the end of the array; the
  loop breaks when the next one is the first again.
* `SearchesFindTheLeast` (`SearchesCorrect`): the first word that is not empty has the
  least bit (`FirstWordIsLeast`), and a position behind another is never 0, so that
  `next_bit_in_block` may return 0 for none (`NextBitIsLeast`). The search for a zero
  is the one for a one in the complement. The loop is a recursive function; the
  function that maps `n` to the `n`-th bit satisfies the same equation, and least
  counterexamples show that every function that does agrees with it
  (`IteratedIsNth`). The count is a fold over words, treated likewise (`WordsAddUp`).
* `BlocksAreIterated` (`BlockIteration`): a word is a bitset of `W` bits (`OneBlock`),
  and the loop over a bitset meets all of its bits (`LoopMeetsAll`).
* `IterationIsSound` (`IterationSound`): the searches return the least bit behind
  their argument (`NextBitIsLeast`), in the array as it is then. `IteratorInv` keeps
  that what is at or before the iterator and stayed has been met.
* `TrailingBitsAreForeign` (`OnlyForeignTrailing`): what is behind the length was
  copied or set there, as every other operation cuts the last word or moves nothing.

### The scheduler and belief propagation

* `VertexSchedulerProofs`: `MutualExclusion` (`OneAtATime`) and `FlagsCorrect`
  (`FlagsMatchHolders`). The two are inductive only together: a vertex is taken
  only when no cell of its row and column is marked, and any holder would have
  marked one; clearing a row and a column is right because there is no other
  holder. `NothingLost` (`NeverLost`) needs `RunOnce` beside it. `NoneMissed`
  (`GivesUpForAReason`), an action property: a thread that has rotated the
  queue has the mutex and saw a flag, whose holder cannot go meanwhile
  (`LooksForAReason`).
* `LoopyBPProofs`: `NoChangeForgotten` (`ChangedIsQueued`) and `EveryBeliefComputed`
  (`NobodyForgotten`), for every graph, set of messages and irreflexive
  comparison. Writing a message disturbs only its receiver, because a slot
  determines it; after a turn the only vertex that leaves the queue is the one
  whose messages were just made old.

### The ingress: `GingerIngressProofs`, `GingerMastersProofs`

* `GingerTypeCorrect` (`TypeOK`), over all finalizations: group by group of variables.
  Balances are sums and the greedy choice is a fold, so that they have types takes
  induction; that degrees are numbers takes that local graphs are finite
  (`OnlyNamed`).
* `NoEdgeLost` (`EdgeAtOnePlace`), over all finalizations: each step moves edges
  between two stores (`OnePlace`); the assignments that overwrite a store find it
  empty (`MapEmpty`).
* `NoIncrementLost` (`BalancesAddUp`), over all finalizations: what a process has,
  what is under way to it and what has yet to be sent (`EventualBalance`) add up to
  the weight placed, within one per target. A synchronization moves amounts between
  the three (`TotalSplit`); where a target is placed, both sums grow by its weight or
  by one more, since an integer is a float below the limit and the rounded sum of
  an integer and a share is at least the integer part of the sum and at most the
  next integer (`IncreasedIs`, `WeighedIs`).
* `FirstRoundOneMaster`, `FirstRoundHybridCut`, `FirstRoundDataEverywhere`,
  `FirstRoundDegreesKnown`, `FirstRoundCountsAddUp`: `OneMaster`, `HybridCut`,
  `DataEverywhere`, `DegreesKnown` and `CountsAddUp` while `round <= 1`. The processes go
  through the barriers together, which says what an exchange may hold when
  (`Emptied`). The masters are one function, fixed from the moment each is decided,
  and the invariant says how far each process has learnt it (`Spread`) and what has
  been done by it. The degrees are sums over local graphs that share no edge
  (`DisjointSum`), the counters the same pairs counted by process and by vertex
  (`DoubleCount`). The bound on the round is needed: the table of masters is cleared
  after a finalization, and in the second one `OneMaster`, `HybridCut` and
  `DataEverywhere` are violated (section 4, Findings).

### What is only model-checked

Liveness, which needs fairness and `ENABLED`, beyond the provers: `SignalServed`,
`RunReturns`, `EndsWithAllRun`, `SettlesThenEnds`, `FinalizeReturns`, and with them
`ImplementsBSP`, whose safety part is `ImplementsSupersteps`, proved.

## 6. Not modelled

Parsing and printing; the arithmetic of ranks and messages and its
rounding, and that of the scores (the rounding of the balances is modelled);
serialization of bitsets, and the operators of `fixed_dense_bitset` that
cannot be instantiated; the read of the queue's size without the mutex at
apps/main.cpp:24, whose value is only printed; GraphLab itself; the
demonstrations and tests (section 1, "The rest"), none of which keeps state
beyond a call.

`TypeOK` is spent on no run where the invariants say more: `DenseBitset`, `FixedBitset`
and `GraphStore` state it for the reader, and `GingerIngress`'s is proved.
