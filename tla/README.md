# zust: specifications, model checking and proofs

zust is a scripting language: a parser and a compiler, a JIT virtual machine, a
value type (`Dynamic`), a tree of named nodes that programs and hosts share
(`root`), and native modules (HTTP, processes, agents, databases, models, GPU).
Two kinds of thing are hard to test in it. One runs *around* the compiled
code: thread-local memory with scopes, boundaries that nest, connections that
come and go, files written by several threads, child processes and their pipes,
stores shared by processes, and a host that answers late. The other is what the
compiler decides by itself: which type a function returns while functions call
each other, what a name means while modules are imported, which of several
routes an operation takes, into which blocks a statement goes. Both are
specified here, in TLA+, and model-checked with TLC; most of what runs around the
code is also proved with TLAPS.

Paths below are relative to the root of the repository.

## 1. Inventory

| component | code | state it keeps | operations | hard behaviour |
|---|---|---|---|---|
| script thread | `vm/src/memory.rs`, `native.rs`, `rt.rs`, `fns.rs`, `dynamic/src/fault.rs`, `types.rs`, `root/src/lib.rs` | arena, open scopes, drop list, `FUEL`, `RUNTIME_FAULT`, `SEND_STACK` (all thread-local) | enter and leave a compiled function, call a callback, send to a path, allocate, raise a fault, count a loop iteration | nesting: a function, a callback and a send handler share every one of these variables |
| FixVec | `dynamic/src/fixvec.rs` | slots, used bits, length | push, remove, get, iterate | indices stay valid while slots are reused |
| WebSocket server | `vm/src/http_module.rs`, list nodes of `root` | `local/ws`, `WS_SENDERS`, a channel and a writer task for each connection | connect, serve, send by index, disconnect | taking a connection down takes three steps under two locks |
| host channel | `vm/src/agent_module.rs`, `check_policy` in `process_module.rs` | a question node and a reply node, `reports` | ask, checkpoint, rollback, report, approve a command | polling, deadlines, late answers, shared nodes |
| directory mount | `root/src/lib.rs`, `mount.rs` | files and temporary files | write_text, write_texts, copy_file, rename, remove_dir, add, remove, update | failing steps, crashes, files that are renamed or rewritten while others have them open |
| processes | `vm/src/process_module.rs` | `PROCESS_REGISTRY`, reader threads, cursors | run, spawn, poll, terminate, write_stdin, read_output, thread clean-up | one mutex held across waits; pipes outlive processes |
| fjall mount | `root/src/mount.rs` | a persistent key-value store: several keys for each node; a write lock | add, add_list, add_map, push, insert, update, remove | a node is many keys without a transaction; removals do not take the lock |
| Redis mount | `root/src/mount.rs`, `directory.rs` | values and an index of names for each directory, on a server shared by processes; locks with a lifetime, keys among the values | add, push, insert, remove, update, rebuild the index | an operation is several commands, any of which fails; the lock of a value lies at its own key, and expires under its holder |
| memory mount | `root/src/lib.rs`, `mount.rs`, `node.rs`, `dynamic/src/lib.rs` | a hash map with a lock for each bucket; lists with a lock of their own | add, get, update, push, insert, remove, list | what is stored is shared, what is read is copied item by item; closures run under the lock |
| symbol table, imports | `compiler/src/symbol.rs`, `compiler/src/lib.rs` | modules, symbols, lookup cache, paths being imported | declare, resolve, pop a module, import a file | circles, failures half way, files that change; the cache must follow |
| type inference | `compiler/src/infer.rs`, `dynamic/src/types.rs` | memo of return types, stack of pending calls | infer | recursion: answers are given before they are known |
| compiler, lowering | `compiler/src/lib.rs` | tree under construction | lower, fold | names and the order of evaluation |
| code generation | `vm/src/rt.rs`, `binary.rs`, `context.rs` | blocks and variables of a function | emit | four routes for one operator; shapes of control flow |
| arithmetic of values | `dynamic/src/ops.rs`, `dynamic/src/lib.rs` | none | operators, equality, order | promotion, overflow, division guards |
| values and encodings | `dynamic/src/*` | none (reference-counted values) | JSON, YAML, msgpack | what a writer lays out, a reader written apart from it must take apart |
| patches | `vm/src/patch_module.rs` | none | apply hunks | all or nothing |
| parser | `parser/src/*` | position | parse | weights, line ends |
| HTTP routes, db, llm, oss, GPU, front ends | `vm/src/*_module.rs`, `llm`, `vm-spirv`, `vm-metal`, `vulkan`, `zust`, `zust-lsp` | connections | I/O, translation | outside services |

How they interact. A host thread enters compiled code through `call_jit_isolated`
(`vm/src/native.rs`) or, for a handler registered in the root tree, through
`root::send_msg` and `dynamic::call_fn`; compiled code calls compiled code
directly. A running function allocates from its thread's arena, calls native
modules, sends to other handlers (again `send_msg`) and passes callbacks
(again `call_jit_isolated`). An HTTP or WebSocket message is a `send_msg` to a
handler. `process::*` asks `check_policy` first, which talks to the host
through nodes of the memory mount. Nothing else is shared but the root tree,
`WS_SENDERS` and `PROCESS_REGISTRY`, each under its own lock.

What makes each correct, and where it could go wrong at which line, is the list
"hazards" of `PROJECT.json`.

## 2. Modules

| module | models | state and actions |
|---|---|---|
| `VmMemory` | `struct VmMemory` and its methods, as functions on a record | no variables; `ExitScope`, `Room`/`AllocRaw`, `AllocDynamic`, `AllocValue`, `ScopeExitDynamic`, `ScopeExitBytes` are the methods of these names |
| `ScriptThread` | one OS thread that runs scripts | `mem`, `fuel`, `fault`, `send_stack` are the thread-locals; `frames` is the machine stack seen as the boundaries functions were entered through. One action for each native function: `CallFn`, `CallIsolated`, `CallbackRefused`, `CallSend`, `SendRefused`, `SetFuel`, `NewDynamic`, `NewStruct`, `RaiseFault`, `FuelCheck`, `ReturnDirect`, `ReturnIsolated`, `ReturnSend` |
| `FixVec` | `fixvec.rs`, as functions on a record | `FixPush`, `FixRemove`, `FirstFree`, `FixContains` |
| `SlotTable` | abstract: clients hold distinct indices, each takes the lowest free one | `held` |
| `WsServer`, `WsServerProofs` | `handle_socket`, `ensure_ws_list`, `ws_send_native`, `send_idx_msg`; extends `FixVec` | `list` is `local/ws`, `senders` is `WS_SENDERS`; an action holds one lock once |
| `HostChannel`, `HostChannelProofs` | `agent::*` and `check_policy` against an external host | one action for each call of the root tree; the host is two actions that may never happen |
| `DirMount`, `DirMountProofs` | `write_text`, `write_texts`, `copy_file`, `rename`, `remove_dir`, `dir_add`, `dir_update`, `dir_remove` | one action for each call of the file system, each of which may fail; `Crash` at any time; open files follow renames; a rename or a removal is one step of anybody |
| `ProcessRegistry`, `ProcessRegistryProofs` | `run`, `spawn`, `spawn_pty`, `poll`, `terminate`, `write_stdin`, `read_output`, the clean-up of a thread | `lock` is the mutex when it is held across a wait; processes, their descendants and reader threads are actions |
| `FjallMount`, `FjallMountProofs` | the fjall mount of `mount.rs` | `values` is the keyspace, `lock` the write lock; a locked call is its reads and then one `Step` for each key it writes, any of which may `Fail`; a removal is a read and a removal without the lock; `Crash` at any time |
| `RedisMount`, `RedisMountProofs` | `add`, `push`, `insert`, `remove`, `remove_key`, `update`, `update_key` of the Redis mount, and the directory index | a process is at one command of its operation; one action for each command; an operation breaks off at any command (`Fail`); a lock is a key of the one keyspace `store`, at the value's own name for `update`, and runs out under its holder or is left behind (`Overrun`, `Expire`) |
| `RootMemory`, `RootMemoryProofs` | the memory mount, `deep_clone` and `append` of lists | `tree` is the mount, `heap` the items of every list; a call of a script is the steps between taking and giving back a lock: `Write`, `Read`, `Take`, `Return`, and `CopyBegins`, `CopyEnters`, `CopyLeaves` for each list a copy goes through |
| `TypeJoin` | `impl Add for Type` and the layout of values | no variables |
| `InferReturns` | `infer_fn_with_params` and what it calls, over small programs; extends `TypeJoin` | `st` is the compiler's state (memo, stack, scope); one action, `Infer`, a request for the type of a call |
| `SymbolTable` | `symbol.rs`, as functions on a record | no variables |
| `ImportSession` | `import_file`, `resolve_imports`, `compile` and the registration of natives; extends `SymbolTable` | `table`, `disk`, `importing`; `Import`, `Lookup`, `Register`, `Edit` |
| `Arithmetic` | binary operators in `ops.rs`, `expr.rs` (compact), `binary.rs`, `native.rs`; extends `TypeJoin` | one action, `CarryOut`, one operation on each of its routes |
| `ExprParser` | the loop of weights of `parser/src/expr.rs` | one action, `ParseText` |
| `StoredValue` | `json.rs`, `yaml.rs`, `msgpack.rs`, the choice between them in `mount.rs` | one action, `Store`: a value is written and read back |
| `ScriptTree` | the tree of a script; `match_block`, `bind_pattern`, `last_return` of the parser | no variables |
| `Lowering` | `eval`, `compile_stmt`, `compile_fn` of `compiler/src/lib.rs`; extends `ScriptTree` | no variables; the compiler's state goes through the operators as a record |
| `CodeGen` | `gen_stmt`, `eval`, `gen_loop`, `short_circuit_logic`, `declare_assigned_vars`, `try_inline_call` of `vm/src/rt.rs` and the variables of `context.rs`; extends `Lowering` | no variables; the function builder as a record |
| `ScriptMeaning` | abstract: what a text means, an interpreter of the tree before lowering | no variables |
| `CompiledScript` | the code of `CodeGen` runs; extends it and `ScriptMeaning` | `frames` are the functions running, `fuel` the loop quota, `tape` what the host answers, `trace` what it is told; one action for each kind of instruction |
| `ScriptThreadProofs` | theorems about `VmMemory` and `ScriptThread` | section 5 |
| `MC*` | instances for TLC | section 3 |

Conventions. Names are those of the source where TLA+ allows it. A variable or
field commented "history" is not in the code: it records what a property has to
remember, and no guard reads it except the bounds. "Mutant of X" definitions
are plausible mistakes in X; nothing uses them, and replacing X by one must
violate the property it is listed with in `PROJECT.json`.

Abstractions worth knowing:

- `VmMemory`: bytes are not stored, only blocks; addresses are a chunk and an
  offset; sizes are parameters, and `next_power_of_two` is a set of allowed
  values with the least one chosen. `live` (history) is the list of blocks that
  no scope has given back yet.
- `ScriptThread`: what a script does between native calls is any sequence of
  the actions; return types are "scalar", "dynamic" and "bytes", the three
  branches of `return_value`. A handler or callback that returns is one step
  with what its native caller does before the script has control again.
- `WsServer`: payloads are "send" or "close"; the message loop and the
  handlers of connect, message and disconnect are scripts, which here only
  learn indices and send.
- `HostChannel`: reads of the polling loops that find nothing are stutters. A
  deadline may pass at any moment.
- `DirMount`: contents are named after their writers; `Torn` is any file cut
  short or mixed. `create_dir_all` belongs to the step after it. A copy may find
  what its source held, what is written there in place meanwhile, or a mixture.
  Directories are their files: `remove_dir` is the removal of each. `Remember`
  keeps the history of the calls and constrains nothing.
- `ProcessRegistry`: stderr behaves as stdout and is left out; truncation to
  `max_chars` and `resize_pty` are left out; each process is started once.
- `RedisMount`: the value of a path is the set of operations that went into it.
  The server and its locks are external: a lock is random bytes that are set where
  there is no such key, and that may or may not decode to a value. `update` locks
  the value's key (`mount.rs:130`), `update_key` one of its own (`mount.rs:202`,
  `KeyLock`), which is assumed to be no path. `remove_idx`, `add_list` and
  `add_map` are chains of the same commands; values with an "@expire"
  (`root/src/lib.rs:932-945`) are left out.
- `RootMemory`: an item of a list is a list or a number. A closure of `update`
  does not call the tree, which `root/src/lib.rs:956-959` forbids. Lists that
  contain themselves are left out. What the numbers of a node add up to is the number
  of its ones (`Ones`); what an update has taken out counts as in the node (`Whole`).
- `InferReturns`: the recursion of the compiler is the recursion of operators,
  with its native stack counted. No generic parameters, closures, methods or
  fields.
- `ImportSession`: a file is what it imports and what it defines; parsing
  succeeds or fails. Bodies are the names they use.
- `Arithmetic`: integers have 2, 4 and 8 bits for 1, 4 and 8 bytes, floats a
  mantissa; an operation on floats stands for itself. No strings.
- `StoredValue`: a YAML token knows the indentation of its line and whether it
  begins the line, which is all of the layout that the reader goes by; the key of
  a field on a line that has not ended is glued to what is there (`Glued`). A string
  stands for a class (a word, one that needs quotes, one of too many digits,
  ...). Words of 1, 2, 4 and 8 bytes have 4, 5, 6 and 7 bits, and the limits of
  the MessagePack headers shrink with them.
- `ExprParser`: a text is a sequence of tokens with the places where lines
  begin. Ranges with an open end are printed only after a name or after one
  operator between names (section 6).
- `FjallMount`: a write of a key is atomic and survives a crash of the process
  (the comment at `mount.rs:698-703`; power loss is outside the model). The
  closure of update is any value. Reads change nothing and are left out, as is
  `get_idx_mut`, which nothing calls.

## 3. Runs

| run | instance | size | shows |
|---|---|---|---|
| `script_thread` | first chunk 4, a Dynamic takes 2, one struct size 5 (so it needs a chunk of 8), 2 nested functions, 4 live blocks, 3 chunks, 2 paths, send limit 2, quota 1; symmetry on the paths | 822,143 states, never stuck | arena, drops, pointers, faults, sends, quota |
| `ws_server` | 1 server, 3 connections that may come back, 1 script, queues up to 2; symmetry on the connections | 638,835 states | the slot properties, and `WsServer` implements `SlotTable` |
| `host_channel` | a command and an agent question on one pair of nodes, 2 reporters, 4 commands, 2 policies | 604,350 states | freshness, answers to lone callers, reports, and that callers return |
| `dir_mount` | 2 files, present or absent; a writer that writes, copies or updates either, a transaction on both, renames, deletions, crashes | 1,578,156 states | what is whole, written, unchanged |
| `process_registry` | 2 threads; a process that writes a character of two bytes, one that leaves a daemon; pty or pipe | 750,599 states | results given once, processes never lost, calls return |
| `fjall_mount` | one node that becomes object, list (2 indices in one life) and map (1 key); 3 threads, 2 values; symmetry on threads and values | 221,696 states | shape, what is stored, updates |
| `redis_mount` | 2 processes with 2 operations each, a directory, its child and their sibling, 1 failure | 348,345 states | no update is lost, index, operations end but for an update of a value that is there |
| `root_memory` | 2 threads with 3 calls, one node (one bucket), 2 items in a list; symmetry on the threads | 440,388 states | privacy of what is read, updates, deadlocks |
| `compiler` | types: every program of two functions out of a family: recursion of one with every base, calls of the other, loops, names; asked with 2 argument types each, in any order. Names: 2 files with 7 contents that import each other, are missing, unreadable, broken or outside; 4 calls. A behaviour is one or the other | 174,973 states | the inferred type covers every return; answers do not depend on the order of questions; cache, completeness, tables |
| `expressions` | ten operators over all pairs of values of 8 number types; every expression of 3 operators, on one line and on two; trees of lists, maps and structs of which one branch is four deep, and every number, string and vector at an edge of a format in each place, in four formats | 402,200 states | routes agree; printed text parses back; what is stored reads back |
| `statements` | 81 programs of `main`, `f` and `g`: every kind of statement alone, before a match, inside a loop; every form of callee; 2 arguments, 2 tapes of answers, no quota and a quota of 1 | 48,464 states from 648 calls | what runs is what the text means; no variable is read before it is set; scripts end |
| `fault_reported` | a smaller `script_thread` | violated | section 6 |

Why the bounds are enough. `script_thread`: two frames give every pair of
boundaries one inside the other, which is all a property here relates (a frame
and the one above it); three chunks and four blocks reach every branch of
`Room`, a chunk skipped and taken again included. The proofs of section 5 have
no bounds. `ws_server`: a lost slot takes one connection that leaves, one that
takes the slot and one that stays. `host_channel`: the properties are about one
caller and one other. `dir_mount`: two items are a first and a last; a third
caller would add only another `Disturbed`. `process_registry`: two threads on
one process is the race; the second process is there because the mutex is one
for all. `fjall_mount`: one node is enough because the keys of nodes are
disjoint; one thread holds the lock, and two remove. `redis_mount`: an index
entry is lost between two writers in one directory; the third path makes one
directory the child of the other. `root_memory`: an unprivate copy takes a
reader and a writer, a deadlock two locks and two threads. `compiler`: a
wrong memo takes a caller, a callee and one that calls back; the family is
every body of the grammar in `MCInferReturns`. A circle of
two, a failure, an edit and a second import are four calls. `expressions`: the
scaled widths keep what decides: which is wider, which wraps, and the extreme
values; three operators are one that reopens, one that is reopened and one
that follows; a branch of four levels is one more than the reader of YAML looks at
together (the dash, its map, the value of a key). `statements`: a wrong jump or place for a variable shows with one
statement of a kind, its branches taken and not taken, and something after it;
two nested levels are a loop in a loop and a branch in either. The tapes take
every condition both ways, and loops of no, one and several rounds.

Bounds in the guards: `MaxIndex` (pushes in one life of a list) of
`FjallMount`; `MaxFrames`, `MaxLive`, `MaxChunks`, `MaxGranted` and
`SendLimit` (64 in the code) of `ScriptThread`; `MaxQueue` of `WsServer`, whose
channel in the code is unbounded; `MaxOps` and `MaxFaults` of `RedisMount`;
`MaxSteps`, `MaxItems`, `MaxCount` of `RootMemory`; `MaxCalls` of
`ImportSession`; `MaxOps` of `ExprParser`; `NativeLimit` of `InferReturns`
stands for the size of the native stack, 8 calls here. `CompiledScript` has no
bound: the programs end because the answers of the host do.

No deadlock check: `process_registry`, `redis_mount`, `compiler`,
`expressions`, `statements` (all calls made, nothing happens any more) and `root_memory`,
where the threads really can block each other for ever and
`StuckOnlyInRing` says exactly when.

Fairness. `HostChannel`: the steps of a caller inside a call, which is a loop
with a sleep and a clock; the host owes nothing. `ProcessRegistry`: the steps
of a thread inside a call, and of the reader threads; processes and their
descendants owe nothing. `RedisMount`: the commands of a process that has
begun an operation (each is a call that returns or fails; a crash may end it;
one that waits for a lock asks again after a sleep),
and the expiry of a lock, which the server does by its clock; a value stays. `CompiledScript`: a
thread that runs compiled code goes on; nothing in the code waits. All other
specifications state none.

## 4. Properties

`ScriptThread`: `ArenaSound` (live blocks never overlap, never leave their
chunk), `EachDroppedOnce` (the drop list is the live Dynamics), `PointersAlive`
(a pointer a function holds is not given back before its scope ends, callees,
callbacks and sends included), `ErrMeansFault` (no stale fault is charged to a
later call), `SendStackBalanced` (no recursion through `root::send`, and nothing
left on the stack), `QuotaConserved`. Proved but not run: `ScopesBalanced`,
`NoDynamicGrowth` (README.md: stable memory between calls), `PathsOnce`.

`WsServer`: `SlotsMatch`, `LiveIdxLeadsHome` (an index a script learned leads to
its connection as long as that is served), `NoOrphanChannel`,
`ImplementsSlotTable`.

`HostChannel`: `FreshReply` (a reply older than the call is never taken),
`AloneIsServed` (a lone caller is heard and answered), `ReportsKept` (a report
stays until the host takes it, unless a reporter that had found no list makes one
after it),
`AskReturns`.

`DirMount`: `WholeFiles` (no crash, failure or other caller cuts a file short but
one that is restored or updated in place, and copies of it), `AnswerTells` (a
call that nobody disturbed returns ok when everything is written and nothing is
left staged, an error when nothing has changed).

`ProcessRegistry`: `OneFinal` (a process's final result is given once, and is
whole if the readers were joined), `NoneLost`, `WholeCharacters`,
`ReturnsUnlessHeld`.

`FjallMount`: `OneShape` (entries only where the type and the counter say so,
at every moment, except in a node whose clearing was cut short), `StoredStays`
(no push overwrites, no index is given twice, no crash loses what is stored),
`UpdateOfCurrent`.

`RedisMount`: `NoUpdateLost` (a value shows every update and write since it was
replaced, while no lock runs out under its holder and nobody writes around it,
although lock and value of `update` are one key),
`IndexMatches` (between operations the index lists nothing but values and the
directories above them, and of these all but what an update has made out of its
own lock, which nobody lists; unless a removal or a rebuilding overlapped with another
operation or a lock left behind, or one broke off), `EndsUnlessKept` (every operation
ends, but for an update that waits for a key that holds a value). `UpdateReturns`
says it without the exception, and is violated (section 6).

`RootMemory`: `GottenIsPrivate` (what a script read changes only by its own
hand), `UpdatesAddUp` (every update of a node starts from the one before: the numbers in
it, in lists in lists too, are what was last written plus what the closures have
added, except where a script still holds a list it has stored there),
`StuckOnlyInRing`
(nobody stands still for ever but through scripts that add up shared lists in a
ring, two that add two lists crosswise being the smallest, and those who wait for
them).

`InferReturns`: `CoversReturns` (the answer is wide enough for every value
the body returns, and the search for it does not exhaust the stack),
`PlainAnswersFresh` (the answer for a function that reaches no
recursion is the one a fresh compiler gives).

`ImportSession`: `CacheAgrees` (a look-up gives what one without the cache
would), `OkIsComplete` (an import that succeeds has compiled the
module and all it imports, but for modules that failed before),
`TablesOfSource` (a module offers exactly
the public names of its source, and no short name leads to a private symbol).

`Arithmetic`: `RoutesAgree` (folded, typed and boxed evaluation give one
answer, on the operand types listed there; an immediate operand is a register
with its value, and boxed integer arithmetic is exact or faults). `ExprParser`:
`TextParsesBack`. `StoredValue`: `StoredReadsBack` (a value written to a mount reads
back as it was, up to the types the format has, and stays so when an update
writes it again; what is exempt is listed in section 6).

`CompiledScript`: `RunsAsWritten` (at every moment what a script has emitted is
the beginning of what its text emits, when it ends it is all of it and the same
value is returned, and only a text with statements after a return, break or
continue is refused), `SetBeforeRead` (no instruction reads a variable that no
path to it has set), `EndsAsMeant` (every script ends).

## 5. Proofs

For every value of the constants that satisfies `VmMemoryAssumption` (sizes and
alignments are naturals, alignments and the first chunk are not 0, and every
size has a least allowed chunk length) and `ScriptThreadAssumption`:

| theorem (`ScriptThreadProofs`) | property |
|---|---|
| `ArenaInvariant` | `ArenaInv`, the inductive invariant |
| `TypeCorrect`, `ArenaIsSound`, `DropsOnce`, `Balanced`, `PointersStayAlive`, `NoGrowth` | `TypeOK`, `ArenaSound`, `EachDroppedOnce`, `ScopesBalanced`, `PointersAlive`, `NoDynamicGrowth` |
| `SendsDistinct` | `PathsOnce` |
| `QuotaIsConserved` | `QuotaConserved` |
| `ErrorsAreFaults` | `ErrMeansFault` |
| `SendsAreRunning` | `SendStackBalanced` |

For all sets of callers, channels and reporters, with `CallersAssumption` (each
caller uses one channel) and `MissingAssumption` (no node holds what stands for a
missing one):

| theorem (`HostChannelProofs`) | property |
|---|---|
| `TypesHold` | `TypeOK` |
| `RepliesAreFresh` | `FreshReply` |
| `TheLoneCallerIsServed` | `AloneIsServed` |
| `ReportsAreKept` | `ReportsKept` |

For all sets of nodes, map keys, values and threads and lists of any length, with
`ConstantsAssumption` (nothing is `Nil` but what is absent, list and map are two
types, and the map keys are finitely many):

| theorem (`FjallMountProofs`) | property |
|---|---|
| `MountInvariant` | `Inv`, the inductive invariant |
| `TypesKept` | `TypeOK` |
| `NodesHaveOneShape` | `OneShape` |
| `StoredValuesStay` | `StoredStays` |
| `UpdatesAreCurrent` | `UpdateOfCurrent` (an action property) |

For all sets of connections, scripts and numbers of servers of which there is only
one (`OneServer`; with two every slot property fails, see the hazard at
`http_module.rs:865`):

| theorem (`WsServerProofs`) | property |
|---|---|
| `ServerInvariant` | `Inv`, the inductive invariant |
| `SlotsAreKept` | `SlotsMatch` |
| `ChannelsAreKept` | `NoOrphanChannel` |
| `IndicesLeadHome` | `LiveIdxLeadsHome` |
| `ListIsASlotTable` | `ImplementsSlotTable` (a refinement) |

For all sets of threads and processes and all outputs, with `ProcessAssumption`
(names are distinct, an output is a sequence of bytes):

| theorem (`ProcessRegistryProofs`) | property |
|---|---|
| `RegistryInvariant` | `Inv`, the inductive invariant |
| `NoProcessIsLost` | `NoneLost` |
| `FinalOnce` | `OneFinal` |
| `CharactersAreWhole` | `WholeCharacters`, of processes that write UTF-8 |

For all sets of processes, any number of operations and failures, and finitely many
paths of any depth, with `RedisAssumption` (a key is a sequence of one name or
more, nobody is a process, and no key that `update_key` locks is a path; two paths may
share such a key):

| theorem (`RedisMountProofs`) | property |
|---|---|
| `MountInvariant` | `Inv`, the inductive invariant |
| `UpdatesAreKept` | `NoUpdateLost` |
| `IndexListsValues` | `IndexMatches` |

For all sets of files, writers and transactions of any length, with
`OrderAssumption` (a transaction names each file once), `NamesAssumption` (a file,
a caller and a content are three things) and writers of which no two write one
file (`OneWriter`; two of one process share the temporary file, see the hazard at
`root/src/lib.rs:603`). Transactions may overlap with the writers and with each
other, and anybody may remove or move any file:

| theorem (`DirMountProofs`) | property |
|---|---|
| `MountInvariant` | `Inv`, the inductive invariant |
| `FilesAreWhole` | `WholeFiles` |
| `AnswersAreTrue` | `AnswerTells` (an action property) |

For all sets of scripts and nodes, any number of buckets, any finite number of lists of
any length and nesting, with `RootMemoryAssumption` (keys are numbers, 0 among
them; a list, a number and `Null` are three things; each node is in one bucket):

| theorem (`RootMemoryProofs`) | property |
|---|---|
| `BucketsExclusive` | `LockInv`, the inductive invariant of the locks |
| `OnlyRingsBlock` | `StuckOnlyInRing` |
| `MemoryInvariant` | `MemoryInv`, the inductive invariant of the memory |
| `GottenStaysPrivate` | `GottenIsPrivate` |
| `CountInvariant` | `CountInv`, the inductive invariant of the updates |
| `NoUpdateIsLost` | `UpdatesAddUp` |

The argument. `ArenaSound` alone is not inductive: leaving a scope moves the
allocation position back, so one must know that nothing alive lies above the
mark it returns to. `WellFormed` of `VmMemory` says so (`Stacked`), with the
marks in order (`MarksInOrder`), the drop list split by each mark where the
blocks are (`DropsMatch`), and nothing dropped by nobody (`OutermostBoxed`).
The lemmas about the arena show that each method preserves it, and what it does to the
blocks that existed before: allocation adds one above them, leaving a scope
keeps exactly those of the outer scopes. `ArenaInv` joins `WellFormed` with
`ScopesBalanced` and `PointersAlive`, because what keeps a caller's pointers is
the mark of the scope *above* it: the frames and the scopes must correspond one
to one. There is one lemma for each kind of step.

`ErrMeansFault` needs `FaultInv`: while the flag is up, some running function
has seen a fault with no isolated call above it, or no isolated call is open
(the flag is left from before, and the next boundary clears it). `QuotaConserved`
needs `QuotaInv`, the same without assuming that a quota was set.

`HostChannel`: `FreshReply` needs to know of the node and not only of the call: a
reply that is there while a caller asks was written since it began (`FreshInv`),
because the call removed what was there and the host writes after that.
`ReportsKept` needs that nobody is about to make the list while it holds reports
(`ReportInv`). `AloneIsServed` needs the life of a lone question (`Mine`): it is
in the node, or with the host, or answered, never in two of these places, and
nothing else is in any of them; a step of another caller can touch it only on its
own channel, and that caller is then not alone.

`FjallMount`: the shape of a node must be known at each write, so the invariant says
what a call that holds the lock has still to write. `PushInv` and `StoreInv` list
the three and two stages of a push and of an insert: the type before the counter,
the counter before the entry. `ClearInv` says that whatever is still there is to be
erased by a write still to come; `ClearErases` shows it of `fjall_clear_node`, and
needs that the list made of a set names each member (`SetToSeqLists`).
`PromiseInv` joins `StoredStays` with what a push takes for granted: nothing is
promised at or above the counter, nor of a cell about to be written or removed.

`SendStackBalanced` counts: a call adds its frame to the handlers that run exactly
when it pushes a path (`HandlersOfCall`), a return takes away both
(`HandlersOfReturn`), and a fault seen changes how no frame was called.

`WsServer`: `SlotsMatch` is inductive only with who is in which slot (`SlotInv`: no
two connections hold one index, and the used slots are theirs), and this only if the
list is never made again (`ListInv`, where `OneServer` is needed). The length of
the list is bounded because a push takes a free slot when there is one, and when
there is none every slot is a connection's. A channel outlives the list entry by one
step, so `ChannelInv` says of both ends which connection has it. The refinement maps
the slot of a connection to its index; `FirstFree` of a full list is its length,
which is the least number nobody holds.

`ProcessRegistry`: `NoneLost` and `OneFinal` rest on one fact, that a process is in
the registry or in the hands of exactly one thread (`HoldInv`), which has it without
the lock. What a thread that ends has taken out is its own and all of it
(`EndInv`). A final result is given by the step that lets go of the process
(`FinalInv`) and is whole because a reader that is done has seen the end of the
pipe (`ReadInv`). `WholeCharacters` needs that a cursor is never inside a character
(`CursorInv`).

`RedisMount`: for `NoUpdateLost`, an update that is past saving neither by the end
of its lock nor by a write around it still finds its bytes at the key it locked, and
the value is what it read (`UpdateInv`). For `update` that is one key: between lock
and write there is no value, but the lock's bytes, which show no operation, and whoever
writes there takes the lock away, which `unsafe` records. `IndexMatches` says nothing between two commands of an
operation. There the index lists what is due (`Due`), but for the entries somebody
has still to add (`Left`), and lists nothing else but entries that a removal has still
to look at (`Trace`): `ListInv`. Due is a value that whoever wrote it lists (`due`); what an
update has made out of its lock is a value, but not due. What a removal has just read must still be true
when it acts on it, which nothing in the server guarantees; it is true because
nobody else is at work and no lock is there to be taken for a value (`AloneInv`), or
`damaged` says otherwise. `KnowInv` is what it
has read. The lemmas about paths (`Passes`, `Below`) need no induction on their length: they
speak of beginnings, `SubSeq(q, 1, n)`.

`DirMount`: a file is whole after a rename because the temporary file is, and that
needs `OneWriter`: what a writer has open is its own temporary file, cut short
until it is written, and afterwards holds what the call writes (`Writer`). A
transaction's temporary files are those of the items it has staged and not yet
renamed (`Transaction`). What a caller answers rests on `Undisturbed`: while nobody
else has changed a file of the call, the files it has not written are as they were, what
it keeps of the old contents is true, what it has written or restored is there,
and the file it has open in place still has its name. A step of somebody else can
move a caller only in the ways `Bystander` lists, and `StaysWriter`,
`StaysTransaction` and `StaysUndisturbed` show that these keep all three; so each
action is shown to keep its own caller's part and to be a `Bystander` step for
the others (`OneMoves`).

`RootMemory`: `Reach`, what can be reached through lists, is a recursive function on the
sets of lists. That it has a value at all, and is the least closed set that holds
its roots (`ReachIsLeast`), follows without induction: the intersection of
the closed sets satisfies its equation, and whatever satisfies the equation lies in
every closed set, by a least counterexample: of the sets of lists for which that
failed, one would leave the fewest lists outside, and the set one step further fewer
still. From then on only closed sets matter. `GottenIsPrivate` is not inductive:
a value is private when a copy ends, so the copy must have been private while it
was made. `CopyApart` says that what a copy has made so far (`Made`) is apart from
everything else, the lists it is still copying included (`Rest`); `HandApart` that
a value read is apart from the tree, the other scripts and all copies under way,
and that its script is not in an update, a removal or a "+"; `FreeIsEmpty` that a
new list starts with nothing in it. A step of a thread writes only lists it can
reach itself, or free ones, and puts only such lists into them (`OwnStep`), which
moves nothing private to another (`OthersKeep`); its own part is shown action
by action. Both rest on `LockInv`: a bucket is locked by one update or by
readers (`Exclusive`), for exactly as long as the call is at a place where the code
holds it (`LocksItsBucket`), and what a read copies is still where it was found
(`StillThere`). `OnlyRingsBlock` follows from `LockInv` in one state: if nobody can go
on, whoever waits for a bucket waits for a copy or a closure that waits as well; a
copy waits for a list that a "+" holds; and each "+" waits for the next.

`UpdatesAddUp` speaks of a node whose update is under way, so it counts what the
node holds with the update's hand in place of the `Null` left behind (`Whole`):
then taking a value out and putting it back change nothing, as long as the key is
still there (`KeyStays`), which the bucket's lock sees to. A sum over lists in
lists would need induction over data; the number of `Ones`, one for each unit of each
number in the lists of the node, does not: adding one to a number adds one element
(`OneMore`), and wrapping a value in a new list is a bijection (`MarksMove`). A
closure reads a number and writes it back in two steps; `ReadBack` says that the list
still holds what it read, since no other script has a list of the node in hand. Any
other step leaves the node as it was (`StepBeside`). TLC checked `MemoryInv` first, on
six lists and two steps, and `CountInv` on the run's own bounds and with two nodes.

Only model-checked:

- `InferReturns`, `ExprParser`, `StoredValue` and `CompiledScript` (they interpret
  trees), `ImportSession` (folds over declarations, and the modules reached by
  imports): their properties need induction over data.
- `Arithmetic`: `RoutesAgree` is about bits and widths that the run lists.
- All liveness: `AskReturns`, `ReturnsUnlessHeld`, `EndsUnlessKept`, `EndsAsMeant`.
  The provers at hand do not reach ENABLED and so no liveness under fairness.


## 6. Where the code and its comments disagree

The run `fault_reported` states what a comment says and TLC finds the behaviour
that breaks it; `PROJECT.json` quotes the line. `FaultReported`: a callback, which
is an isolated call of its own, clears the flag its caller raised, so the outer
boundary reports success.

These are violated the same way (`tlc -config X.cfg M`) and are no runs:

| configuration | property | the code |
|---|---|---|
| `ScriptThreadClaims` (with `-continue`), `MCScriptThread` | `QuotaBoundsLoops` | a quota used up becomes "no quota" for the rest of the call, so only the first loop is ended |
| the same | `TakesOnlyDynamics` | a handler that returns an array or a struct returns raw bytes to code that takes a `Dynamic` |
| `HostChannel` with the property added, `MCHostChannel` | `AnswersTheQuestion` | replies carry no identifier; the late approval of one command is taken for the next |
| `DirMount` with `Writers = {w1, w2}`, `Targets <- Same`, `Txs = {}` and the property added, `MCDirMount` | `WriteTextAtomic` | threads of a process share the temporary file of a path |
| `ProcessRegistry` with the property added, `MCProcessRegistry` | `PollReturns` | poll waits, with the registry locked, while a descendant of an exited process keeps its pipe |
| `Expressions` with the property added, `MCExpressions` | `MixedSignsAgree` | a signed and an unsigned operand of one width: an I8 of -2 by a U8 of 2 is one number when folded and another when typed (`dynamic/src/types.rs:94` gives the left type) |
| `RedisMountUpdate`, `MCRedisMount` | `UpdateReturns` | on a Redis mount `update` takes its lock under the name of the value (`root/src/mount.rs:130`), and the lock is set only where there is no such key: the update of a value that is there tries again every few milliseconds (`mount.rs:141-143`) until somebody removes the value; `root/src/lib.rs:952-954`: update returns the new value, and fails where there is no node |
| `InferReturnsDepth`, `MCInferReturns` | `StackHolds` | the search for a base case walks the other function of a mutual recursion before the depth is counted; with a type that grows it never ends, against `compiler/src/infer.rs:14-18` |
| `Statements` with `Programs <- Shadowing`, `MCCompiledScript` | `RunsAsWritten` | a name bound by `let` in an inner block hides the outer one for the rest of the function (`compiler/src/lib.rs:1472-1476` drops names only when the function ends); README.zh.md:28: let shadows as in Rust |
| the same with `Programs <- Inlining` | `RunsAsWritten` | a value at the end of an `if` in the middle of a function ends the function when it is inlined, not when it is called (`vm/src/rt.rs:1448-1456`); docs/zust-language.zh.md:194: the last expression of the body is the return value |
| the same with `Programs <- Parameters` | `RunsAsWritten` | what the body of a loop over a dynamic value adds to a parameter is lost: this loop does not declare what its body assigns (`vm/src/rt.rs:2175-2192`); docs/zust-language.zh.md:766: every variable may be assigned again |

Seen while modelling, and no property of a run:

Stores.

- The comment at `root/src/mount.rs:384-386` says that the Redis and fjall
  mounts remove a node of any type, as the memory mount does. Their `remove`
  reads the object first (`mount.rs:390`, `399`), so it fails for a list or a
  map, and such a node cannot be removed.
- On a fjall mount, push and insert look only at the type key (`mount.rs:456`,
  `546`): a node that holds an object becomes an object and a list at once. The
  memory mount refuses. `OneShape` does not forbid it.
- A removal of the fjall mount does not take the write lock: an update that is
  under way writes the removed value back, and a removal may take away a newer
  value than the one it returns. `UpdateOfCurrent` and `StoredStays` leave room
  for exactly that.
- A crash between clearing a node and writing it loses the old value and the
  new, and what is left of a list or map comes back with the next push or
  insert; only a complete add, add_list or add_map cleans it. `OneShape` exempts
  such a node until then.
- Redis: where there is no value, `update` reads its own lock (`mount.rs:132`). Whether
  its random bytes decode is chance; if they do, the update succeeds where the doc
  (`root/src/lib.rs:953`) promises an error, its write replaces the lock, and the value is in no
  index. An add or a removal in the meantime takes the lock away. A path that has
  the name of a lock of `update_key` ("a::k") is left out. A failing lock command is
  tried again (`mount.rs:130`), so `Fail` there is the end of the process. A command that fails between lock and unlock (`?`) leaves the lock to its
  lifetime. A rebuilding of the index beside other operations, or a crash between
  the value and its index entry, loses the entry until the next write.
- Memory: a list a script has stored stays shared with it; `a + b` moves the
  items out of `b`; scripts that add shared lists up in a ring, such as two that add two lists
  crosswise, block each other for ever, and then everyone at the bucket of whoever copies one;
  `add`, `push` and `insert` remove "@expire" from the caller's own map; a node
  reads as Null while its closure runs; `remove` hands over the value itself,
  `remove_idx` and `remove_key` a copy.

Compiler.

- Inference: the seed of a caller is changed by returns seen after the callee
  was popped; in a mutual recursion one function can stay I32 while the other
  became F64.
- Imports: an error leaves the module of the failed file open, and a later
  import takes it for imported; a path whose read failed counts as being
  imported for ever; a module without a public name is compiled at each import;
  names that vanished from a file still resolve by their full name, and private
  ones do too.
- Parser: a range with an open end is returned before the weight is compared:
  `x[-a..]` is `-(a..)` and `x[a + b * c..]` is `a + (b * c..)`. A line that
  begins with `^` does not continue the one before (`expr.rs:807`), one that
  begins with `[` does and then fails. `&&` and `||` have one weight. `a +` at the
  end of a file is `a`.
- Arithmetic, outside the types `RoutesAgree` lists: a float with an integer under
  `-`, `/`, `%`, `==` and shifts; bits of floats and booleans; `&&` and `||` of
  numbers, false when folded and their truth when typed; a U64 above the greatest
  I64, refused as a literal and a fault when boxed with a narrower operand; an
  unsigned literal whose bits are those of -1 as a divisor traps, against the
  comment at `vm/src/binary.rs:276`; `%` of floats folded gives its left operand;
  an operation that faults while it is folded raises the flag of the compiling
  thread and leaves Null in the code.
- Statements, besides the three rows of the table, and outside the programs of
  `statements`: `let (a, b) = (b, a)` is two lets (`compiler/src/lib.rs:2080-2092`).
  A statement inside an expression (`if`, `match`, list and map literals) is put
  before the whole statement (`eval_stmt_expr`): before a call to its left,
  whatever `&&` or `||` say, and once before a `while` whose condition has it.
  Code after a return, break or continue in one block, or after an `if` that
  returns on both sides, is refused. `for i in a..=MAX` wraps; assigning to
  the variable of a `for` over a range moves the loop; a function without a
  value gives none to the expression that calls it.

Encodings. What `StoredReadsBack` exempts, each of which does change in the
model, and what was read beside it in the code.

- YAML (`dynamic/src/yaml.rs`): an empty map inside a map becomes Null or loses
  its key, and reads as "" alone in a file; in a list in a list that begins
  with a map the dash becomes a part of the key; the second key of a map in a
  list keeps its quotes when it has any; the fields of a struct
  (`yaml.rs:218-238`) end their lines only when the value is on the line of the
  key, so after a list, map, vector or struct whose text leaves its last line open
  the next key stands on that line: `{word: [null], other: 1}` is written as
  `word:`, `- null` and `other: 1` behind it, which reads as one item; only behind a
  bracket of the field's own list, or of the last list in it, is the key found; a typed vector of two to four I64, U64,
  F32 or F64 in an inner map is written without indentation, and its key is
  lost; a string of twenty digits reads as a float, one that begins with a blank
  is trimmed, one that ends in a colon is taken for a key; a backspace is
  escaped and not restored; NaN reads as the string "NaN". Keys with `#`, `,`,
  `}` or `]` are not found.
- JSON: `\b` and `\f` are written, and refused when they are read; NaN and
  infinity are refused. A string alone goes to a `.json` file as it is.
- In both texts a float without a fraction reads as an integer, and an integer
  beyond I64 as a float.
- A file with another extension holds a string; any other value leaves it empty.
- MessagePack: a U64 above the greatest I64 reads as a negative number; a typed
  vector of less than four bytes at the end of the buffer is refused; an F32
  comes back as an F64.

## 7. Not modelled, and the plan

Not modelled: characters, literals, closures and the patterns of lists and
structs in the parser; fields, methods, generics and annotated types in the
compiler; texts in JSON and YAML that others have written; GPU back ends,
language models, databases, front ends: sequential, or I/O to services outside; see "components" in `PROJECT.json` for each. Vendored
code and the generated tree-sitter parser are not part of the program.

Next, in this order:

1. Patches (all hunks or none) and `argv_matches` as pure algorithms.
2. Root tasks and channels: `start_task`, `call` and `send` over a channel with
   1024 places; the streams of the language models, whose retry after a partial
   answer repeats text.
3. Proofs: `CacheAgrees` of `ImportSession`, as far as it is not about folds.

## 8. Running

    tlc -workers 2 -config ScriptThread.cfg MCScriptThread
    tlapm ScriptThreadProofs.tla
    tlapm HostChannelProofs.tla
    tlapm FjallMountProofs.tla
    tlapm WsServerProofs.tla
    tlapm ProcessRegistryProofs.tla
    tlapm RedisMountProofs.tla
    tlapm DirMountProofs.tla
    tlapm RootMemoryProofs.tla

Each configuration names its specification and properties; `PROJECT.json` maps
every definition to the lines it models, every property to a mutant that breaks
it, and every hazard to the properties that cover it.
