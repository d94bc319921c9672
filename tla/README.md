# Verification of aHPy

aHPy is a fork of Cython with a second backend: besides C code against the
CPython C API it emits C code against the HPy Universal ABI. In that backend
every Python value is an HPy handle that the generated code must close exactly
once, on every path. The compiler therefore keeps, while it emits a function,
a book of the handles the C code owns at that point, and refuses or repairs
whatever would break the book. This directory models that bookkeeping and the
code it produces, the run-time support of Cython that threads share, and the
parts of the compiler's front end and build system that keep state. TLC checks
the models and TLAPS proves part of what is checked.

## 1. Inventory

The repository is the whole of Cython plus the HPy backend. Paths are relative
to the repository root.

| component | state it keeps | operations | what makes it correct |
|---|---|---|---|
| Handle temporaries: `HandleTemporaryManager` (`Cython/Compiler/HandleModel.py`), the pool of `FunctionState` (`Code.py`), `ExprNode.allocate_temp_result` / `release_temp_result` | free list, used and zombie slots; slot -> lifetime; lifetime -> ownership state | allocate, close, move, release | one lifetime ends once; a reused slot never sees an older lifetime; the exit check misses nothing |
| `HandleStateTracker` (`HandleModel.py`) | values with ownership and state, indirect storage | declare, use, close, move, duplicate, load, return, cleanup plans, fork, merge | the static state is true of every path that reaches it |
| Builder and tracker managers (`HandleModel.py`) | builders and argument trackers with a state | allocate, build / cancel / close, release | each is finished exactly once |
| `UniversalHPyFunctionWriter` (`HPyModuleWriter.py`) with the `generate_hpy_bootstrap_*` methods of `Nodes.py` and `ExprNodes.py` | the managers above; names -> handles; stable slots; borrowed arguments; snapshots; loop and failure-scope stacks | one per expression and statement kind | the emitted code never leaks, double-closes or uses a closed handle, and names mean what Python says |
| `UniversalHPyModuleWriter` | registries of names, constants and defaults; publications to undo | render types, methods, `mod_exec` | a failing import undoes what it published |
| `ContextPropagationModel`, operation contracts | a table | one pass | functions that need a context get one |
| `RuntimeAPI.py` | none | C spellings of operations | – |
| `FlowControl.py` | blocks, edges, the assignments of each block; stacks of loops and handlers | one visitor method per statement, normalisation, the fixpoint | every assignment, or its absence, that an execution can bring to a place reaches it in the graph |
| `TypeInference.py`, `Optimize.py`, `ParseTreeTransforms.py` | the tree | passes | sound types and rewrites |
| `Plex`, `Scanning.py`, `Parsing.py` | automata, the token stream | construction, scanning | the DFA accepts what the NFA accepts |
| Module state lookup: `__Pyx_State_FindModule`, `_AddModule`, `_RemoveModule` (`Utility/ModuleSetupCode.c`), called by the generated module functions (`ModuleNode.py`) | the pointer to the table, a counter of readers, a mutex, the table | find, add, remove, from threads of any interpreter | a reader never sees a table that is freed or being changed; every interpreter finds its own module |
| Code object cache (`Utility/ModuleSetupCode.c`, `Exceptions.c`) | a sorted table of code objects by line; a counter, positive under readers, negative under a writer | find and insert from every thread that adds a traceback; clean-up | nobody reads while somebody writes; a hit is the code of its line; no object is freed in use |
| Generators and coroutines (`Utility/Coroutine.c`) | `is_running`, `resume_label`, `yieldfrom` of each object | send, next, throw, close; delegation | one call inside at a time; delegates end first; a closed generator stays closed |
| Asynchronous generators (`Utility/AsyncGen.c`) | `ag_running_async`, `ag_closed`; the state of each awaitable | asend, athrow, aclose and the send and throw of what they return | the awaitables take turns |
| Memoryviews (`Utility/MemoryView_C.c`, `MemoryView.pyx`, `Compiler/MemoryView.py`) | `acquisition_count` and the reference count of each object; the slices | make, copy, assign, move, release, from threads without the GIL | the slices of an object own one reference together; nothing in use is freed |
| Parallel sections (`ParallelStatNode` and its subclasses in `Nodes.py`) | `parallel_why`, the shared exception, thread-private line numbers, the GIL | begin, iterate, jump out, raise, trap, join | one exit is taken, its exception comes out whole, no thread waits for ever |
| `Build/Cache.py` with `run_cached_pipeline` (`Main.py`) | the cache directory | look up, load, store, evict, by several processes | stale or half-written results are never used |
| `Build/Dependencies.py` | memo tables of the dependency tree | closure over cimports and includes | what is memoised is complete, also in cycles |
| `pyximport`, `Debugger`, `Tempita`, `Distutils`, `Tools/ahpy` | files | input and output | – |

How they interact. `emit_hpy_universal_module` builds one module writer, which
builds one function writer per function. Statement nodes call the function
writer, which calls the managers of `HandleModel.py` before it writes a line of
C; an exception from a manager aborts the compilation. Control flow is the hard
part: the writer deep-copies its managers (`_snapshot_lifetime_state`) before a
branch, a loop body or a try, emits the code inside, and puts the copy back
(`_restore_lifetime_state`). Whether the copy is true at that point depends on
what the code inside did at run time, on a path the writer has already
forgotten. To keep it true, names that are assigned or deleted inside are first
*promoted* to stable slots: C variables that stay the same variable and may hold
`HPy_NULL`.

The hard behaviours of the compiler are thus not threads but (a) the product of
program shapes and paths, (b) failure of any call with any set of things in hand,
and (c) bookkeeping that is restored. The concurrent parts are in the Cython run
time (`ModuleSetupCode.c`, `Coroutine.c`, `AsyncGen.c`, `MemoryView*`), in the code
generated for parallel sections, and in the build cache. They have the same pattern:
a count or a flag that is changed in a step of its own, and a resource that is used
or released in another. The module state lookup is a table shared by all interpreters
of the process, read without a lock and replaced by a writer that waits for its
readers; the code object cache lets nobody wait, a reader misses and a writer gives
up; a memoryview's count and its reference are two atomics; a generator's flag is set
and cleared in critical sections, and everything between them runs outside. These parts share no state with
each other: what joins them is the program that calls them. `PROJECT.json` lists
every hazard with its line.

## 2. Modules

`LinearResource` is the abstract specification: a set of lifetimes, each
acquired at most once and ended at most once.

`HandleTemporaries` is the pool and the manager together. A C slot is a number,
a lifetime a pair of slot and generation (the code's `"%s#%d"` identity).
`allocate_handle_temp`, `close_handle_temp`, `move_handle_temp` and
`release_handle_temp` are the methods of `FunctionState`, each with everything it
calls; `AllocateRaw` and `ReleaseRaw` are the branches of `ExprNode` for slots
that carry no handle. `freed` is the membership set of the free list, which is
larger than the list itself because zombies stay in it. Calls that raise before
they change anything are steps that do not happen.

`HandleStateTracker` is the class of that name, with several trackers because
`fork` and `merge` make them. `entry` unites `_values` and `_storage` (one
namespace, `_require_new_name`). `earlier` is what remains of the insertion order
that `cleanup_plan` walks backwards: which values were declared before a name.
`paths` is a history variable: the executions a tracker stands for, as the number
of times each has released every name. Two operations can raise after a partial
effect (`CLOSE` with a result name, a plan that meets a dead name); they are
steps and set `outcome`.

`FunctionWriter` composes the writer and the code it emits. It emits a function
statement by statement and executes it along one path at the same time:

- `writer` is what a snapshot saves (live handles, names -> temporaries, stable
  slots, borrowed arguments, an open builder, the argument tracker);
- `frames` is the stack of open constructs with the snapshots they will restore;
- `stmt` is the statement in progress with the operands in hand;
- `cvar`, `open`, `bound`, `original`, `builderOpen`, `trackerOpen` are the
  execution: what C variables hold, which handles are open, and what Python
  semantics says every name is bound to, independently of the writer.

Code a path skips is not emitted in the model. That loses nothing: after a
branch the writer restores a snapshot taken before it, so its state does not
depend on the code in it. The one exception in the source, a loop's `else` that
ends in an exit, is kept as the attribute `els` of a frame. The program is
nondeterministic, but the source decides some things from the text of a whole
construct (the names to promote). The model therefore chooses those names when
the construct opens, and the `Collected...` guards admit inside it only the
assignments that the source's collection functions would have found.

| code | model |
|---|---|
| `allocate_owned_handle`, `put_error_return_if_null`, `close_owned_handle` | `Apply`, `CallFails`, `CloseTemps` |
| `duplicate_named_value`, `borrow_direct_named_value` | the actions of that name |
| `assign_local`, walrus | `Rebind`, `FinishAssign`, `generate_walrus` |
| `delete_local` | `BeginDelete`, `promote_local_slot`, `FinishDelete`, `DeleteUnbound` |
| `_put_failure_cleanup`, `_emit_failure_exit` | `Unwind` |
| `return_owned_result`, `_close_argument_tracker` | `FinishReturn` |
| `raise_*`, `_finish_raised_error` | `FinishRaise` |
| `prepare_conditional_locals`, `_generate_conditional_level`, `generate_returning_if` | `OpenIf`, `OpenReturningIf`, `EnterBranch`, `SkipBranch`, `EndIf` |
| `generate_while_loop`, `generate_sequence_for_loop` | `OpenWhile`, `OpenFor`, `EnterWhile`, `EnterFor...`, `ConditionHolds`, `NextItem`, `ConditionFails`, `ItemsExhausted`, `EndElse` |
| `_emit_loop_body_cleanup`, break, continue | `Break`, `Iterate` |
| `generate_terminal_try_except` | `OpenTry`, `MatchHandler`, and the handler branch of `Unwind` |

`ModuleStateLookup` is the run-time table from interpreter to module object, in
the thread-safe build. The table is what decides which module's globals a C
function uses, so every function of a module may call `FindModule`. A thread's
position in a call is `call[t].at`, one label for each stretch between two
operations on shared memory:

| code | model |
|---|---|
| `FindModule`: load the pointer, increment the counter, load again | `BeginUse` / `BeginImport`, `Count`, `Confirm` or `Miss` |
| the slow path: decrement, lock, increment, load, unlock | `Uncount`, `CountLocked` |
| search and read of the slot, decrement | `Locate`, then `FinishUse`, `ImportExisting` or `CreateModule` |
| lock and exchange with `NULL` (`AddModule`, `RemoveModule`) | `Take` |
| `calloc`, `wait_until_no_readers` | `Allocate`, `AllocateFails`, `NoReaders` |
| growing, converting, inserting, overwriting, removing | `Doubled`, `Converted`, `Inserted` with `Roomy`, `Stored`, `Removed` |
| exchange with the new table, unlock | `Publish...` |
| `mod_create`, `mod_exec`, `m_clear` | `BeginImport` .. `CreateModule`, `AddModule`, `Succeed`, `Fail`, `BeginClear` |

`heap` is the allocated blocks by address; `realloc` may leave a grown table
where it is or move it, and an address can be given out again. A block is a
function of slots larger than `count`, because the code reads the slot at the
lower bound also when it is the one behind the last entry: what lies there can be
an older entry, uninitialized memory or, after a conversion whose `realloc`
failed, nothing. `Outcomes` says what such a read can give. The search is modelled
by its result (`LowerBound`), not loop by loop. `registered` is the history
variable the properties compare the table with. One import, removal or
collection at a time is in progress per interpreter (the import lock and its
GIL); different interpreters have a GIL each and interleave freely.

`GeneratorProtocol` is the abstract specification of one generator shared by
threads: an owner, and a state that goes from created through suspended to closed.

`Generators` is `Coroutine.c`. A call is one activation of a method; a call that
needs another generator makes a call of its own and waits for the answer, so a C
stack is a chain of calls. The end points of a step are the places where another
thread can get in: after `is_running` was set, before the delegate is asked, after it
answered, at each yield of the body, before the flag is cleared.

| code | model |
|---|---|
| `__Pyx_Coroutine_test_and_set_is_running`, `_unset_is_running` | `Enter`, `Leave` |
| `_Send`, `_Throw`, `_Close` up to the delegate | `EnterBody`, `PassOn`, `CloseIter`, `ThrowHere`, `NoThrowMethod` |
| `_FinishDelegation`, `_SendToDelegate`, `_Undelegate` | `DelegateYields`, `DelegateEnds`, `DelegateCloses`, `FromDelegate`, `Undelegated` |
| `_SendEx`, `_AlreadyTerminatedError`, the generated body | `Resume`, `FirstRunFails`, `ResumeTerminated`, the `Body...` actions, `Terminate` |
| the source of `yield from` and its first step | `BodyDelegates` and the answers to it |

`AsyncGenerators` is `AsyncGen.c`: awaitables over one body, each driven by
`send` or `throw`. The body itself is one step in and one step out, since
`Generators` covers what happens in between.

`CodeObjectCache` cuts every function at each access to the counter, the table or a
reference count, in the free-threaded build.

| code | model |
|---|---|
| `__Pyx_AddTraceback`, its callers and its end | `AddTraceback`, `MakeCodeObject`, `EndTraceback` |
| `__pyx_find_code_object`: counter, test, bisection, new reference, counter | `CountIn`, `TurnBack`, `Locate`, `TakeReference`, `CountOut` |
| `__pyx_insert_code_object`: compare-exchange, allocation, growth, shift, store, release | `ClaimTable`, `CannotStore`, `FirstEntry`, `ReplaceEntry`, `MakeRoom`, `FillEntry`, `OwnEntry`, `DropReplaced`, `ReleaseTable` |
| clean-up at module deallocation | `CleanUpCache` |

`MemoryviewSlices` has the objects with their two counts, the slice variables (and the
slice inside a `_memoryviewslice` object), the Python references, and for each thread
the job it is in the middle of: release the old value, acquire the new one, store.

| code | model |
|---|---|
| `memoryview(obj)`, the conversion of an object to a slice | `NewView`, `SliceOfObject`, `SliceOfView` |
| `put_assign_to_memviewslice` and its callers | `Assigns`; `AssignSlice`, `AssignTemporary`, `AssignSlicing` |
| `memoryview_fromslice`, `__dealloc__` of `_memoryviewslice` | `ObjectOfSlice`, the first case of `Decref` |
| `__Pyx_XCLEAR_MEMVIEW`, the end of a scope | `EndSlice`, `XClear`, `EndName`, `Decref` |
| `__Pyx_INC_MEMVIEW`, `init_memviewslice` | `IncMemview`, `Incref`, `StoreSlice` |

`ParallelSections` is the generated code of `ParallelStatNode`: a team of threads, the
scopes whose `parallel_why` they write (the section's, and one per thread for an inner
prange), the thread states' exceptions and who holds the GIL. OpenMP is external: it
hands out iterations and makes threads wait at the barrier.

| code | model |
|---|---|
| `begin_parallel_block`, the loop, `if (why < 2)` | `BeginThread`, `ReachLoop`, `NextIteration`, `BeginBody`, `Admits` |
| Python code that lets the GIL go | `Switch` |
| `trap_parallel_exit`, `fetch_parallel_exception` | `TakesExit`, `JumpOut`, `Return`, `Raise`, `FetchException`, `TrapExit` |
| the end of the loop and of the block, `restore_parallel_exception` | `LeavePrange`, `PassBarrier`, `RestoreThread`, `EndPrange`, `EndThread` |
| `end_parallel_control_flow_block` | `LastExit`, `EndSection` |

`ModuleExec` is the `mod_exec` that `_render_module_exec` writes: make a value, publish
it, and on a failure undo what was published if the error is a `MemoryError`. Every
deletion may succeed, and then clear the active exception or not, or fail, and then
replace it (`DeletionSucceeds`, `DeletionFails`). `published` is the code's record, in
which only the first publication of a name counts; `publications` is a history variable,
the names in the order they were really published, and `remaining` one of the names whose
deletion failed. `Leave` and `ReturnAnyway` are the exits that expressions have of their
own: a name that is not defined, the keys of a `**` argument, a keyword given twice.

| code | model |
|---|---|
| the expressions and constants of the body, `record_module_publication` | `Make`, `Publish`, `Recorded` |
| `_emit_module_failure_exit_preserving_memory` | `Fail`, `Unpublish`, `GiveUp`, `ErrorAfter` |
| `_emit_failure_exit` with the failure epilogue, as in `load_module_global` | `Leave`, `Unpublish`, `ReturnAnyway` |

`FlowControl` has the visitor, as operators on the graph under construction
(`visit_...`, named after the methods), and an execution of the same program by a small
machine whose items are places in it. `MCFlowControl` generates the programs. `reach` is
the `cf_state` of every name node. What the compiler does with a finished graph is
`FlowGraph`: `normalize`, `initialize`, `reaching_definitions` and `check_definitions`,
loops as recursive functions of their turns. The masks of bits are one set of pairs of a
block and a definition, and a round of the loop computes all outputs from those of the
round before, where the code uses the new ones as they come: both end at the same
fixpoint. `IsWalk` and `Brings` are the reference, which neither
removes blocks nor iterates.

`BuildDependencies` is `DependencyTree` with `transitive_merge` as in the code,
including the memo that outlives a question. The recursion of
`transitive_merge_helper` is a recursive function of what its loop has left to do
(`Walks`), so that it can be proved about; the stack is a dict from a file to its depth,
and `Order`, a constant, is the order in which the cimports of a file are walked: the
code lists them from a set. The reference (`Reached`) does not walk: it is the least
set with the source that no cimport leaves. `BuildCache` has the directory as names
and inodes, so a rename and a file that is open under a removed name are what they are
in a file system; builders are processes that may be killed. Temporary names are the
entry's name with a suffix and are shared by builders of one fingerprint. Each build
computes its fingerprint from the sources as they are when it starts: `file_hash`
(`Cache.py:34`) and the dependency tree are memoised for the life of a process, so the
model is of builds that are each a process of their own. A process that builds again
after its sources changed uses the old fingerprint, and is not modelled.

`MCHandles`, `MCGenerators`, `MCSharedObjects` and `MCCompiler` (with `Compiler`, the parts of it
that the proofs are about) put parts that share no state side
by side: a variable chosen in `Init` says which part a behaviour is of, and the others
stand still. Each part keeps its own module, specification and properties; the sum
only lets one run explore several small state spaces.

### Lanes

The writer accepts some program shapes for which its bookkeeping is wrong
(section 4). Each has a name in `AllLanes`. A configuration with `Lanes = {}`
excludes these shapes, so what the passing runs show is that the other shapes that can be
built from the statements and expressions of the model are right; of what is not modelled
(section 6: short-circuit operators, conditional expressions and other things) they say
nothing. A configuration with one lane admits that shape and exhibits the
failure. The guards that exclude them are in `Rehold` (hidden loop, walrus loop,
try rebind), `MayOpen` (else exit) and `DirectIsCurrent` (stale argument). They
are conditions on the program text as far as the writer sees it and not on the
run-time state; `Rehold` and `DirectIsCurrent` are conservative.
`ModuleStateLookup` has one lane, `tail`: without it an interpreter whose removed
entry still lies behind the table's last entry does not import the module again
(`MayImport`), and an uninitialized slot does not hold the id looked for.
`AsyncGenerators` has three: `again` (an awaitable that raised is driven again), `itself`
(an awaitable is driven by the body it drives) and `arguments` (the arguments of an
`athrow()` turn out not to unpack, after the generator was marked as running). With
`arguments` the properties hold; `again` breaks `OneAtATime` (four awaitables are
needed) and `AwaitIsGuarded`, `itself` breaks `AwaitIsGuarded`: the flag is then
cleared or taken by an awaitable that is not the one it was set for. Both are misuses,
which the code answers with a RuntimeError where it recognizes them.
`MCFlowControl` leaves three shapes out of the passing run (`MayUse`): deletions inside
a `try`, a break through two `finally` clauses, and a return through three. A fourth, a
jump out of a `finally` clause that is itself inside a `try` (`FinallyReturn`), needs six
statements and lies beyond the run's bound.

## 3. Runs

Fairness is assumed in one place. `ModuleStateLookup` has a liveness property,
`CallsReturn`, under weak fairness of every thread's steps inside a call (the
operating system runs every thread) and strong fairness of the two steps that take
the mutex (a thread that waits for it gets it if it is free again and again, which
the platforms' mutexes grant with probability one). No fairness is
assumed of the program: nobody has to begin a call, and a body need not end. The
compiler's passes terminate, generators and the code object cache wait for nobody,
memoryview counts are lock-free; what can hang there is a parallel section, and
`SectionCanEnd` states that it does not, without fairness: until all threads have ended
one of them waits neither for the GIL nor at the barrier. `MCParallelGuards.cfg` (on
`ParallelSections`) checks that this is the same as having a step to take.

Deadlock checking is off in every run because a function that returned, a
tracker that used its names up, a pool at its bound, or interpreters that have
made all their modules stop, and because the sums contain parts that end.

| run | instance | what it shows |
|---|---|---|
| `handles` | 2 slots, 3 generations each; or 2 names, 3 trackers, two of them may plan (680,686 states) | the exit check is complete (`LiveOwnedIsBound`), the manager implements `LinearResource` (`LinearSpec`); `StateHoldsOnEveryPath`: a name that is live in a tracker was released on no path into it, a closed or moved one exactly once on each; `CleanupIsComplete`: a plan applied without an error leaves nothing open but what it was told to keep and what came later |
| `writer_control` | argument and local, one construct at a time, expressions of two operands outside it and of one inside | straight-line code with builders, walrus and del; every construct with every way out of it |
| `writer_nesting` | one argument, constructs two deep, two operands and builders everywhere | snapshots inside snapshots, exits through two levels with any set of things in hand |
| `module_state_table` | 3 interpreters with one thread each, ids 0 and 1 small, 2 large; one import each | indexing, doubling, conversion and sorted insertion in every order, under readers, with failing allocations |
| `module_state_reimport` | 2 interpreters, the second with a large id; two imports each | bodies that fail, collections that remove entries or do not, a table that is freed and made again; nobody waits for ever for the mutex or for the readers |
| `generators` | 3 calls under way, 2 generators (both or none coroutines) and one foreign iterator; or 4 awaitables with the lane `arguments` (589,628 states) | one call inside at a time, the order of closing, the refinement of `GeneratorProtocol`; the turns of awaitables |
| `shared_objects` | 3 threads, lines 0 to 3 (0 is not cached), 3 code objects, growth by 1, `INT_MIN` = -8; or 3 threads, 3 objects, 3 slices, 2 references (1,226,234 states) | the cache's reader-writer protocol and its references; the counts of memoryviews through zero |
| `compiler` | programs of up to 4 statements (5 of some kinds); 2 methods, 3 globals, a constant, 2 defaults, a base and a derived type, at most one deletion that fails; all cimport graphs over 3 files and most over 4; 2 builders, 2 source texts, archives of 2 blocks, room for 1; a team of 3 with 3 iterations (606,930 states) | reaching definitions, `mod_exec`, memoised closures, the shared cache directory, parallel sections |
| `stale_tail`, `hidden_loop`, `deleted_in_try`, `error_lost` | see section 4 | the code disagrees with its documentation |

The properties of the writer: `HandlesMatch` (the live temporaries hold exactly
the open handles, each once), `ExitReleasesEverything` (a return leaves its
result and nothing else, a failure nothing), `NoDanglingUse` (nothing closed
twice or used after its close), `NamesDenoteTheirValues` (the handle the writer
has for a name is the value Python binds it to), `ReadsAreCurrent` (every
emitted read yields the name's value, and reports a name unbound only if it is).

The properties of the table: `ReadersAreSafe` (what is read is allocated and not
being changed), `LookupIsCurrent` (a lookup returns the module its interpreter
has registered), `TableMatches` (a published table is the registry, in either
layout), `RemovalsHaveATable` (the pointer `RemoveModule` dereferences without a
test is not `NULL`), `CallsReturn`.

The properties of generators: `RunningIsOneCall` (`is_running` is set exactly while
one call is between the test that set it and its last step), `CloseFinishes` (a
`close()` that succeeds leaves a generator that is over), `InnermostFirst`
(GeneratorExit reaches a delegating body only after the generator it delegates to has
ended), `ProtocolSpec` (the refinement), `OneAtATime` (of the awaitables of an
asynchronous generator at most one has begun and not raised).

The properties of shared objects: `WriterIsAlone`, `CounterIsAccessors` (the counter is
the number of those inside, less `INT_MIN` for a writer, and never wraps),
`CodeReferencesMatch` (each object has exactly the references of the table and of the
threads), `CacheIsRight` (the table is sorted, and a hit is the code of the line that
was looked for, also when its address was freed and used again); `ViewReferencesMatch`
and `ViewsInUseLive` (all slices of an object own one reference together, whatever
the order in which threads move the count through zero and change the reference).

The properties of the `compiler` run: `ReachCovers` (the definition a variable has in an
execution reaches that place in the graph), `FailureIsReported` (a call that fails ends
`mod_exec` with its own error, whatever the deletions do to the active exception, and a
`MemoryError` leaves nothing published but what could not be deleted), `LatestGoesFirst`
(attributes go in the reverse of the order in which they were first published; the order
is that of the history `publications`, so a record kept in another order is found),
`SeenIsFinished` (what `transitive_merge` memoises is the whole closure),
`BuildIsRight`, `EntriesAreWhole` and `AloneItSucceeds` (a build that reports success
leaves the file the compiler makes; an entry is complete unless a builder was killed
or is still writing; a build alone does not trip over its own eviction), `ErrorComesOut`
(one of the raised exceptions leaves a parallel section, with its own line number, and
the others are freed), `SectionCanEnd`.

Why the bounds are enough. Lifetimes in different slots interact through the free
set only, so two slots and three uses of each show reuse and its absence. Three trackers
allow a fork and a merge, two names a disagreement and an order. For the writer,
`MaxTemps = 4` covers what a name holds, two operands and the result (with two
names, both owned, one operand and the result), and a state that needs more is cut
off by `CanAllocate` or by an `\E` over free handles; with two
names a rename of one against the other can be seen, and one name is enough for
what a snapshot does to a name; depth two is the least at which one construct
hides a name from another, and depth three (checked once with one name,
with and without it being an argument) showed nothing new. `Handles` has two
values more than `Temps`, so a fresh one is always there: a handle that some
variable still mentions is never given out again, which is what makes a stale use
visible.

For the table, `SmallSize` is 2 or 1 in place of 32: what matters is whether an id
is below it. Three interpreters are a front, a middle and a back entry; two
addresses let `realloc` move the only table there is, and the address it left can
be used again. `MaxModules` bounds how often an interpreter makes a module; two
make a removal and a second import. A second thread in an interpreter only adds
lookups while that interpreter imports again; an instance with one (`Home <-
TwoInterpreters`, 336,074 states) satisfies the invariants too.
`module_state_table` uses the symmetry of addresses, which the code only compares;
`module_state_reimport` does not, for the sake of its liveness property.

Two generators are a delegation, three calls a delegation with an intruder, or two
threads that hold one generator each and want the other's. `OneAtATime` was checked
with three and four awaitables; four is the least number at which the excluded lane
`again` breaks it. In the cache three lines are a front, a middle and a back entry, and
the growth by 1 in place of 64 happens at each insertion; three objects for three
lines and three threads make addresses be used again. `INT_MIN` need only be below
minus the number of threads (`WorkersAssumption`). For memoryviews three threads are
one on each side of the zero and one that reads. For `FlowControl` four
statements are a loop around a try-finally with a jump in it, or three compounds in
one another, and five, of the kinds `Small` names, put an assignment in front. Two builders and one crash are a partly written temporary file that
another builder meets; one entry of room makes every second store evict. Three threads
and three iterations let two threads raise and a third be admitted before, between and
after them. In `ModuleExec` three statements over three globals are a name published
twice with another between, and a function that is assigned; `MaxRemaining = 1` is one
deletion that leaves its name, anywhere among others that succeed (deletions that fail
because the name is not there are not bounded).

The symmetry of `MCHandles` permutes names, sound because no
property orders them. Those of the other sums permute threads, calls and
addresses, which the code compares for equality only.

## 4. Disagreements found

Each row is a configuration that TLC finds violated. Those without a file are runs
of `PROJECT.json`, whose findings quote the text the code disagrees with. The others
can be checked with the file named, on the module in brackets.

| run | shape | what happens |
|---|---|---|
| `hidden_loop` | `x = 1` / `if c:` / `while d: x = f()` | the assigned names of the `if` are collected without looking into the loop; `x` is given a new temporary inside, the old one is closed, the restored snapshot brings it back |
| `MCWriterWalrusLoop.cfg` (`FunctionWriter`) | `while (x := f()):` | the names bound by the condition are not promoted; the second iteration closes what the first closed |
| `MCWriterTryRebind.cfg` (`FunctionWriter`) | `try: x = f(); return g()` / `except: return x` | the handler uses the handle that the assignment closed |
| `MCWriterElseExit.cfg` (`FunctionWriter`) | `while c: ... break` / `else: return x` | after the `break` the writer believes everything released |
| `MCWriterStaleArgument.cfg` (`FunctionWriter`) | `def f(a): a = g(); return a.attr` | the attribute is read from the value the caller passed |
| `stale_tail` | a large-id interpreter's module is removed while another's stays; it imports again | `FindModule` matches the slot behind the last entry, and `mod_create` hands out the module that was removed |
| `MCModuleStateFailedImport.cfg` (`MCModuleState`) | the body of a module raises | `mod_exec` calls `PyState_RemoveModule`, which does not know the table; the next import gets the failed module, although the comment at `ModuleNode.py:4755` says "Also remove the failed module from the module state lookup" |
| `deleted_in_try` | `x = 1` / `try: del x; f()` / `except: x` | a deletion in a `try` body adds no edge to the handler, so the handler takes `x` for bound and leaves the check out |
| `error_lost` | `y = (x,)` before `x = 1`, in the module's body, of a module with functions | `load_module_global` leaves by `_emit_failure_exit()` with the failure epilogue (`HPyModuleWriter.py:1548`, `4988`), which deletes the functions while the NameError is active and does not set it again: if a deletion clears it, the import fails without an exception. The exits at 2731, 2817 and 2854 are alike; in the first of them the error may be a MemoryError, and nothing published is taken back |
| `MCExecErrorLost.cfg` with `PROPERTY ExactlyReversed` in place of its invariant (`MCCompiler`) | `x = 1` / `y = 2` / `x = 3`, then a MemoryError | the comment at `HPyModuleWriter.py:2460` says "Store rollback actions in exact reverse order"; a name published again keeps its first place in the record (2452), so `y` goes before the `x` that was published after it. `LatestGoesFirst` says what does hold |
| `MCFlowNestedBreak.cfg` (`MCFlowControl`) | `while c: try: try: break / finally: f() / finally: del x`, then `x` | the break's edge goes from the innermost `finally` clause to the end of the loop (`FlowControl.py:1453-1458`), past the outer one, so its deletion is not seen; a return through three clauses is alike |
| `MCFlowFinallyReturn.cfg` (`MCFlowControl`) | `try: try: x = f() / finally: g(x); return` / `except: x` | a `finally` clause is linked to the handler around it from its end only, and only if that can be reached (`FlowControl.py:1366-1403`); here it ends in a jump, so the handler takes `x` for never bound, and Cython rejects the function: "local variable 'x' referenced before assignment" |
| `MCBuildBroken.cfg` (`BuildCache`) | a source that does not compile is built twice | the archive stored after the failure is loaded as a hit (`Main.py:452-466`, `513-530`), and the second build reports success |
| `MCBuildForce.cfg` (`BuildCache`) | `cythonize(force=True)` with a cache | the cache is consulted before `force` is (`Dependencies.py:978`) |
| `MCBuildDirectives.cfg` (`BuildCache`) | two builds of one file that differ in a directive | directives are left out of the fingerprint (`Options.py:743-745`, `Cache.py:107`), and the first build's file is used for the second |
| `MCGeneratorsDelegate.cfg` (`MCGenerators`) | a delegate was ended by somebody else | its StopIteration is raised in the delegating body where PEP 380 (and the entry at `CHANGES.rst:8843`) gives `yield from` a value |
| `MCAsyncReuse.cfg` (`AsyncGenerators`) | an `athrow()` awaitable raises from its second `send` | it is not closed, so the message "cannot reuse already awaited" does not come |
| `MCParallelNested.cfg` (`ParallelSections`) | `break` in a prange inside `with parallel()` | each thread has a `parallel_why` of its own there, so the others go on, although `docs/src/userguide/parallelism.rst:233` says the body "is skipped after the first break, return or exception for any subsequent iteration in any thread" |
| `MCParallelReturned.cfg` (`ParallelSections`) | one thread returns an object, another raises | the error label overwrites `__pyx_r` (`Nodes.py:2458`) and the returned object is leaked |

## 5. Proofs

TLAPS proves, for every value of the constants:

- `HandleTemporaries_proofs`: `TypeCorrect`, `ReuseIsSafe`
  (`[]FreeSlotsAreUnbound`), `ExitCheckComplete` (`[]LiveOwnedIsBound`) and
  `ImplementsLinearResource` (`Spec => Linear!Spec`). None of these is inductive
  alone. `IInv` adds that a bound slot is declared and not held free
  (`BoundSlotsAreTaken`), that a slot is bound to its latest generation
  (`BoundToLatest`), and that no lifetime beyond a slot's counter was declared
  (`GenerationsAreFresh`); the last is what makes a reused slot start afresh, and
  hence the refinement step of `Bind`. There is one lemma per kind of step.
- `HandleStateTracker_proofs`: `TypeCorrect`, `StateIsSound`
  (`[]StateHoldsOnEveryPath`) and `PlansAreComplete` (`CleanupIsComplete`).
  `StateHoldsOnEveryPath` with `TrackerTypeOK` is inductive: declaring touches no path,
  consuming needs a live name and therefore a count of 0 on every path, and a
  merge unites paths that were counted against equal entries. For plans the
  additional invariant `PlanCovers` says that a name known to the plan and
  neither closed nor preserved by it was not live and owned when it was made; the
  `...Monotone` lemmas show that a name never becomes live and owned again.
- `ModuleStateLookup_proofs`: `ReadersSafe` (`[]ReadersAreSafe`), for any number of
  threads, interpreters and addresses and any sequence of imports. The invariant
  adds that the counter counts (`Counting`: it is the number of threads between
  increment and decrement, so a writer that reads 0 has no readers), that exactly
  the holder of the lock is inside an update (`Exclusion`), that nothing is
  published meanwhile (`Pointer`, which makes the second load of the pointer
  fail), and what the writer has in its hands (`Hands`). `QuietStep` covers every
  step of a thread without the lock, `HoldStep` every step with it; taking and
  publishing have lemmas of their own. That removal from an indexed table may go
  on under readers is part of the property, and `RemovedIsTable` shows that
  it neither frees nor converts the table.

  On this rests what the table holds: `TypeCorrect` (`[]TypeOK`), `TableIsRegistry`
  (`[]TableMatches`), `RemovalsFindATable` (`[]RemovalsHaveATable`) and
  `LookupsAreCurrent` (`[]LookupIsCurrent`, under `Lanes = {}`: with the lane it is
  what the run with the stale tail refutes). The first part is about the operators
  alone. `IsRegistry(b, reg)` says in one formula what a table of either layout is
  when `reg` is registered, and there is one lemma per operation that leads from
  registry to registry: doubling (`DoubleDefined` and `DoubleGrows` prove that the
  doubling is defined and ends above the id, `DoubledIs` what it leaves), setting a
  slot (`IndexedSet`), conversion (`ConvertedIs`, from the numbering of a finite set of
  slots by `Rank` and `Nth`), insertion (`RoomyIs`, `InsertedIs`) and removal
  (`SortedRemove`), the last two from what the search for the lower bound returns
  (`LowerBoundIs`, `FoundIs`). `OutcomesAre` is `FindModule` on such a table. Each
  also says whose stale entries may lie behind the last one (`Clean`).

  The second part is `TableInv`. The current table, published or in the writer's
  hands, is the registry (`Matching`); a module in use is registered (`Living`); what
  a thread in a call has announced in its interpreter's record (`Duty`), so that no
  other thread of the interpreter changes the registration it goes by; and what a
  reader holds (`Sees`): the position is that of the table as it is now, also while
  `RemoveModule` clears a slot of an indexed one, and a reader without a table means
  that there is none to read (`NothingToRead`). `LookingStep` and `WritingStep` carry
  it over the steps without and with the lock.

- `SharedObjects_proofs`, of the code object cache: `MutualExclusion` (`[]WriterIsAlone`), `CounterCorrect`
  (`[]CounterIsAccessors`), `CacheCorrect` (`[]CacheIsRight`) and `ReferencesCorrect`
  (`[]CodeReferencesMatch`), for any number of threads, lines, objects and entries. The
  counter comes first: `ThreadMoves` says what one thread's step does to the set of those
  inside, `SignOfCounter` that the counter is negative exactly under a writer.
  `WorkersAssumption` (the threads are fewer than -`INT_MIN`) is what keeps a crowd of
  readers from looking like none. `BisectFinds` is the correctness of the bisection: in a
  table in order the result splits the lines into those before and those from the line
  on. It rests on the narrowing being defined (`LoopDefined`) and on the span always
  enclosing the place of the line, with `mid` equal to it or one before when the loop
  ends (`Encloses`, `LoopFinds`). `CacheInv` then says that the table is in order but for
  the cell a thread is about to fill (`TableOK`), what each thread holds at each place
  (`WorkerOK`: what was found or stored is still in a cell), and that each object's count
  and the references still owed are what threads and cells own (`Balanced`). A freed
  object is in no cell and nobody's hands (`FreedIsUnused`), which is why an address can
  be made a code object for another line. `BalanceMoves` reduces the balance to what the
  moving thread holds and how many cells change; moving entries up is a bijection of
  cells. `SharedTypes` is the joint type invariant of `MCSharedObjects`.
- `SharedObjects_proofs`, of the memoryviews: `CountsSlices` (`[]CountIsSlices`), `ReferencesMatch`
  (`[]ViewReferencesMatch`), `NothingFreedInUse` (`[]ViewsInUseLive`) and
  `TypeCorrect`, for any number of threads, objects, slices and references. The
  equations alone are not inductive: a thread that raised the count from 0 has yet to
  take the reference, and the object must not be freed meanwhile. The invariant says
  why it is not: what the view of a job is read from still has it (`SourceOK`), and who
  found the count at 0 cannot have read it from a slice, so it reads a Python
  reference (`FirstReads`). The rest is that threads keep apart (`Apart`) and that the
  slice inside an object is filled only while the object has a name and emptied only
  when it is freed (`CellsOK`). `StepOf` reduces a step to the thread that takes it,
  `JobMoves`, `CellCounts` and `NameCounts` do the counting.
- `Generators_proofs`: `OneCallRuns` (`[]RunningIsOneCall`), `DelegateStays`,
  `CloseIsFinal` (`[]CloseFinishes`), `DelegatesCloseFirst` (`InnermostFirst`),
  `ImplementsProtocol` (`ProtocolSpec`) and `TypeCorrect`, for any generators, calls and
  depth of delegation. The waiting calls form trees (a call is made by at most one that
  waits for it, and waits for at most one), which is what makes an answer belong to the
  generator that was asked; on top of that the invariant says what is known of the
  generator of a call at each of its places (suspended, alive, closed, held).
  `ProceedCall` and `AskCall` say what the two ways to move on do to the calls. The same
  module proves `TakeTurns` (`OneAtATime`) and `AwaitsAreGuarded` of `AsyncGenerators`,
  under the hypothesis `AsyncLanes \subseteq {"arguments"}`, without which both are
  false, and `BothKeepTheirTypes` (`GeneratorsTypeOK`) of the two side by side.
- `FunctionWriter_proofs`: `TypeCorrect`, `BooksAreTrue` (`[]HandlesMatch`),
  `ExitsRelease` (`[]ExitReleasesEverything`), `NothingDangles` (`[]NoDanglingUse`) and
  `NamesAreRight` (`[]NamesDenoteTheirValues`), for any names, arguments, nesting and
  temporaries, under `SoundShapes`: none of the lanes is open except `"staleArgument"`,
  which breaks only `ReadsAreCurrent`. `ReadsAreRight` proves that one with no lane open.
  The configurations of section 4 show that each of the other lanes breaks it. It has
  three parts. `Books` is about the writer alone: what is live is exactly the slots of
  names, the sequences of open loops and the operands in hand, all distinct (`Owns`);
  the same holds of the snapshot of every open frame, for the sequences outside it; and
  a snapshot that is restored later still agrees with the writer on every name it holds
  (`Agree`, or `Same` where no name may have changed hands at all). The last is what
  makes `restore` sound, and it holds because every name that the body rebinds was
  promoted to a slot when the construct opened. `Match` says that the live variables hold
  the open handles, one each; `Bindings` that what they hold is what Python semantics
  binds the names to. `PushFrame`, `CutFrames` and the lemmas after them say
  what opening and leaving a construct do to a stack of frames; rebinding, the two
  ways out and the loop steps have a lemma per action.
- `FlowGraph_proofs`: `AnalysisIsExact`. For every graph of blocks, `check_definitions`
  lists at a place exactly the definitions that walks through the graph from its entry
  point bring there: none is missed, and none is made up, whatever is unreachable, empty
  or in a loop. Code generation trusts the first half (it leaves out checks), the warnings
  and errors about unbound names rest on the second. There are walks of
  any length, so the proof goes by way of the least set of pairs
  that holds the entry's and is closed under following an edge (`Carried`;
  `CarriedClosed`, `CarriedLeast`). `VisitedIs` says that the search stops and finds what
  can be reached, `BypassIs` that taking out an empty block leaves every other block its
  pairs, `BypassingTurns` and `NormalIs` that so does the whole of `normalize`.
  `RoundsTurns` and `RoundsSettle` say that the rounds only grow and stop within
  `MostRounds`, because there are no more pairs than that (`ValuesFinite`), and
  `ReachingIs` that what they stop at is `Carried`. What remains of `ReachCovers` is a
  statement about the visitor: that every execution is such a walk.
- `Compiler_proofs` proves about the four components of `Compiler`, which `MCCompiler`
  runs together with the flow analysis; `CompilerTypes` is their joint type invariant.
  - `ErrorsComeOut` (`[]ErrorComesOut`) of `ParallelSections`. Each exception that was
    raised is in exactly one place: the state of a thread, the variables of an inner
    prange, those of the section, or freed because another one won (`SectionInv`).
    `NotAllWait` (`[]SectionCanEnd`): the holder of the GIL is never before its first step,
    at the barrier, or behind it (`HolderRuns`), so it can go on; and if nobody holds the
    GIL, only threads at the barrier wait, for one that is on its way there.
  - `BuildsAreRight` (`[]BuildIsRight`), `EntriesStayWhole` (`[]EntriesAreWhole`) and
    `AloneBuildsSucceed` (`[]AloneItSucceeds`) of `BuildCache`, for any builders, sources,
    capacity, and deaths of builders at any step, under `OneSetting`: all builds use the
    same compiler directives. `MCBuildDirectives` shows that without it the first one is
    false. `CacheInv` says that an inode in use belongs to one fingerprint, that its blocks
    are what the fingerprint stands for, and that if some are missing the
    last one to open it for writing is still there or was killed; that the
    directory's names and the list by last use are the same set, each once (`Ordered`),
    is what cleaning up relies on. For a builder that was alone since it
    began, `AloneInv` says that the files it has made are where it left them. An
    operator of `BuildCache` that the proofs need, `Only` (the part of a sequence that
    is in a set), is a recursive function; `OnlyIs` proves that it is defined and what it
    returns.
  - `SeenAreFinished` (`[]SeenIsFinished`) of `BuildDependencies`, for any files, any
    graph of cimports, any includes without cycles, any order in which the cimports are
    walked, and any questions asked before. First, the recursion is defined
    (`MergeNextIs`): with each call the stack gets deeper, and with each turn of the loop
    there is less left to walk. Then what a visit does (`Visited`): the
    cache holds finished results only; the result has the dependencies of the node, and
    nothing the node does not reach; and what it reaches but lacks is reached through a
    file of the stack at or above the loop that is returned. `WholeIsFinished` is the
    step that matters: a node whose loop does not lie above it, `None` or itself, has
    them all, so it may be cached; `HelperVisits` and `TurnWalks` carry this over a call
    and a turn, by the same least counterexample as the recursion (`MergeWalks`).
    At the top the stack is empty, so nothing can be missing (`AskedIsFinished`).
  - `FailuresAreReported` (`[]FailureIsReported`) and `RollbackIsInReverse`
    (`LatestGoesFirst`) of `ModuleExec`, for any sets of names and any deletions that
    fail. The second is about the history of publications and not about the code's
    record, so the invariant relates the two (`RecordIsRight`): the record has each
    published name once, and of two names the one recorded nearer to the front was first
    published later (`PublicationOrder` is the step of `Publish`). `IsRest` says that the
    deletions still to be made are the end of the functions followed by the record;
    `WhatUnpublishDoes` what one deletion does; and an attribute that is there is still to be
    deleted or could not be. Together they give the order in which names really go. That exits of expressions keep
    the invariant (`LeaveKeeps`) needs that they take back functions only; that they
    keep the error is false.

The assumptions are those named in the modules: `BoundsAssumption` (the bounds are
naturals; in `ModuleStateLookup` the threads are finitely many, `None` is no thread,
address, position or module, and `Unset` is no id), `HomeAssumption` (a thread has an interpreter),
`TrackerAssumption` (the root is a tracker, the storage kinds are the code's, and the
"no plan" value is not a plan), `WorkersAssumption` and `CacheAssumption`,
`ViewsAssumption` (finite sets; objects, slices and references are different things),
`GeneratorAssumption` (the values that stand for nobody and for a foreign iterator are
no generators or calls), `FilesAssumption` (finitely many files, includes without cycles),
`LaneAssumption` and `ExecAssumption`. `AnalysisIsExact` is about a graph as `IsGraph`
describes it; `GraphAssumption` in `FlowControl`, which TLC evaluates, says that the
visitor makes such a graph of every program of the run.

The type invariants of `HandleTemporaries` and `HandleStateTracker`, and
`FreeSlotsAreUnbound`, are stated by proofs only: no run needs to repeat them.

The invariants were checked by TLC as invariants of the runs' instances before they were
proved, `IInv` of the function writer on two of them (control flow, and three levels of
nesting).

The library's induction theorems take an operator as a parameter and cannot be used
here, but the order of the naturals is well founded (`NatLessThanWellFounded`, `WFMin`).
From that `LeastNumber` proves that every nonempty set of naturals has a least
element, and an induction over data is an argument about the least counterexample:
`MinOf` and `MaxOf` for the writer's choice of temporaries, `OnlyIs`, `NthOf`,
`DoubleGrows`, `LoopDefined` and `LoopFinds` are proved in this way, and so are `AllTurns`
(what holds of turn 0 and is kept by a turn holds of every turn), `TurnsExist` (a sequence
of turns is defined) and `ChainSettles` (a growing chain of subsets of a finite set
repeats a member within as many turns as the set has members), with which the loops of
`FlowGraph` are reasoned about.

Only model-checked:

- `CallsReturn`, a liveness property, and that the guards named in `MayStep` are those of
  the steps (`MayStepIsEnabled`), which speaks of `ENABLED`: both are beyond this prover;
- `ReachCovers` of `FlowControl`. Its half about the analysis is `AnalysisIsExact`; the
  other half, that an execution is a walk through the graph the visitor builds, is about
  RECURSIVE operators, which this prover cannot reason about, and it is true only without
  the four shapes of section 4.

## 6. Not modelled, and the plan

In the function writer: the short-circuit `and` and `or`, conditional expressions,
cascaded comparisons and `assert`, whose operands are evaluated on some paths only;
unpacking, in-place operations, stores to attributes,
items and globals, comprehensions, for-from loops (their bookkeeping is that of a
loop over a borrowed sequence), closures, extension fields, native conversions,
blocks without the GIL. They hold and release handles by the operations that
`Apply` and `Unwind` already have, except closures and native returns, and except that the
first four join the paths of a condition inside an expression.

In the run time: the pool of locks that stands in for atomics, copying and indexing of
memoryviews; finalisation of generators by the garbage collector, `close()` of an
awaitable, the exception stack and the free lists; builds without `am_send`. In
parallel sections: private variables and reductions, C values that are returned, the
`else` clause of an inner prange, and exits before the prange of a block that keeps
the GIL. In the flow analysis: `match`, `with`, comprehensions, several `except`
clauses and the warnings. In the build: parsing sources for their dependencies, time
stamps, and the process pool of `cythonize`.

Next, in this order:

1. Proofs: that the executions of `FlowControl` are walks of its graph, once its visitor is
   written with recursive functions, as the walk of `BuildDependencies` is.
2. Conditions inside expressions (`and`, `or`, conditional expressions, cascaded
   comparisons) and `assert` in `FunctionWriter`; `BuilderManager`: the builder and tracker managers' tables, as further refinements
   of `LinearResource`.
3. Closures of the HPy backend (cells in `HPyField`s) and native returns in
   `FunctionWriter`; keyword and default arguments against a reference definition.
4. Pure algorithms: context propagation against reachability, Plex's subset
   construction against the language of the NFA.

All atomics are sequentially consistent in the models. The code's acquire and release
orders are weaker: whether a weakly ordered processor can let a writer of the module
table miss a reader that is counting itself in (`ModuleSetupCode.c:2894`) is outside
them, and so are plain accesses of a parallel section that OpenMP does not order.
Builds without threads or without module state use none of the concurrent code.

Not planned: `RuntimeAPI.py` and the code writers (tables of C text), the parser and
the type algebra (large, sequential, without state that could go wrong between
steps), `pyximport`, the debugger, Tempita, Distutils and the tools.
