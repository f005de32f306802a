# sql-wasm: verification project

TLA+ modules, TLC runs and TLAPS proofs about `sql-wasm`: SQLite 3.26.0 compiled
to WebAssembly (`src/native/`) under a JavaScript wrapper (`src/sql.js/index.js`).
Paths in this file are relative to the repository; in `PROJECT.json` they carry
its `src/` prefix.

## 1. The system

### Components, their state and operations

| Component | State | Operations | Module |
|---|---|---|---|
| **Database** (`index.js:383-652`) | `filename`, `db` (address of the connection), `statements` (registry: address of a compiled statement -> Statement object) | constructor, `run`, `exec`, `each`, `prepare`, `export`, `close`, `handleError`, `getRowsModified`, `create_function` | `Handles` |
| **Statement** (`index.js:128-378`) | `stmt` (address of the compiled statement, 0 when closed), `db`, `pos`, `allocatedmem` (blocks that hold bound text and blobs) | `bind*`, `step`, `get*`, `run`, `reset`, `freemem`, `free` | `Handles`, `StatementMemory`, `Values` |
| **Out-parameter word and stack** (`index.js:71`, `458-495`) | `apiTemp`, emscripten's stack pointer | written by `sqlite3_open`, `prepare`, `exec`; `stackSave`, `stackAlloc`, `stackRestore` in `exec` | `Exec` |
| **Heap views** (`index.js:56`, `210`, `623`) | `HEAP8`, captured once; the memory may grow | reads of blobs | `Values` |
| **Loader** (`src/index.ts`) | the promise of the module | `default export` | `Loader` |
| **Extension functions** (`extension-functions.c`) | per-group aggregate contexts (`mode`, `median`, quartiles, `stdev`, `variance`) | aggregate step and finalize, scalar string functions | `OrderStatistics`, `Variance`, `StringFunctions` |
| **Statements and connections of the engine** (`sqlite3.c`) | `sqlite3.pVdbe` (compiled statements), `magic` (open, zombie), `Vdbe.magic`, `pc`; counters `nVdbeActive`, `nVdbeRead`, `nVdbeWrite` | `prepare_v2`, `step`, `reset`, `finalize`, `exec`, `close_v2` | `Handles`, `Exec` |
| **Transactions** (`sqlite3.c`: `OP_AutoCommit`, `OP_Transaction`, `sqlite3VdbeHalt`) | `autoCommit`, b-tree transaction state, page cache, the file | begin, write, commit, roll back | `Transactions` |
| **Cursors** (`saveCursorPosition`, `btreeRestoreCursorPosition`, `btreeNext`) | `eState`, page stack, `skipNext`, `nKey` | first, last, next, previous, delete or update of the row of a scan | `BTreeCursors` |
| **B-tree** (`sqlite3BtreeInsert`, `sqlite3BtreeDelete`, `balance`) | pages: cells, children, overflow cells in memory | insert, delete | `BTree` |
| **Page space** (`allocateSpace`, `freeSpace`, `defragmentPage`, `editPage`) | cell pointers, free blocks, fragments, `nFree` | insert, drop, edit | `BTreePage` |
| **Free list and auto-vacuum** (`allocateBtreePage`, `freePage2`, `incrVacuumStep`) | trunks and leaves, pointer map, `pHasContent` | create and drop a table, add and free pages, vacuum, commit, roll back | `FreePages` |
| **Pager** (`pager_write`, `syncJournal`, `pager_playback`) | cache, journal, savepoints, `eState` | begin, write, spill, commit in two phases, roll back, savepoints, hot-journal recovery | `Pager` |
| **Lock protocol** (`unixLock`, `posixUnlock`) | `unixFile.eFileLock`, `unixInodeInfo` shared by the connections of the process | lock, unlock, `CheckReservedLock`, close | `FileLock` |

### How they interact

A `Database` points at one connection, a `Statement` at one compiled statement
of that connection; the registry ties the two, and `close()` and `export()` walk
it. Compiled statements that are not in the registry keep their connection alive
as a *zombie* after `sqlite3_close_v2`. `export()` closes the connection, reads the
file from the in-memory file system and opens it again, so one Database goes
through many connections, and a zombie of its past may share its file. All
connections of the process meet in the lock table of the file.

A statement that runs moves cursors over b-trees; a b-tree takes pages from the free
list and cells from its pages' space; the pages are the pager's, which brings them to
the file between two syncs and asks the VFS for the locks. Each of those layers is one
module, specified against what the layer above it relies on:

    Database, Statement      Handles          implements  HandleContract
      transactions           Transactions     implements  Handles
      bound memory           StatementMemory  implements  Handles
    cursors                  BTreeCursors     extends     BTree
    b-tree                   BTree            implements  OrderedMap
    pages of the file        FreePages        implements  TableStore
    pager                    Pager            implements  AtomicDatabase
    file locks               FileLock         implements  LockLevels

There are no threads (`SQLITE_THREADSAFE=0`) and every call is synchronous. What
is concurrent is: the callback of `each()`, which may call anything between two steps
of its statement; statements of one connection that are in the middle of their
rows, and the cursors they have on one b-tree; the connections a Database has left
behind; the loads of the module; and, when a program mounts a file system that is
shared (emscripten's NODEFS), other processes and a loss of power.

### What is hard

* calls made inside a callback of `each()`: close, export, nested `each`;
* addresses that are freed and handed out again;
* calls that fail half-way (`prepare` whose bind throws, `exec` and `run` whose step
  throws) and what they leave behind;
* zombies: their transaction and their lock outlive the call that closed them;
* refused statements (`SQLITE_BUSY`) that are neither finished nor reset;
* `export()` in an open transaction;
* numeric boundaries in the extension functions and in `bind`, memory handed to SQLite
  without a copy, the stack of `exec` when it throws, memory growth;
* scans of a b-tree that other cursors change, and rows deleted under a scan;
* redistribution of cells over up to five siblings, in place, page by page;
* pages that are neither journalled nor written because they are free, and are used
  again in the same transaction;
* a loss of power or a failing system call between any two writes of a transaction;
* POSIX locks, which belong to a process, under connections, which do not.

`PROJECT.json` lists each one under `hazards`, at its line, with the properties that
watch it.

### What makes each component correct

* Handles: no object points at freed or foreign memory; what close and export free
  is exactly what belongs to the Database; other Databases are not touched; a
  callback cannot make `each()` restart or use a closed statement.
* Transactions: at most one writer to a file; a file does not change under a reader;
  a Database is refused as busy only because of a statement it has itself leaked;
  what was refused is not half done.
* Binding memory: a bound value is alive whenever a step can read it; each block is
  freed once.
* Texts: each statement of a text runs once, in order, up to the first that fails;
  `exec` gives back the stack it took.
* Values come back as they were bound.
* Loader: each load is answered once, by its own module, and is answered in the end.
* Functions: the result is that of the definition, whatever the order of the rows;
  no string function cuts a character, or writes past its buffer as long as its size fits an `int`.
* Cursors: a scan visits each row that is there from its beginning to its end once,
  in order, whatever else changes.
* B-tree: it stays balanced and ordered, and each call changes the entry of its key and no other.
* Pages: each page of the file and each byte of a page has one use; no page in use is
  lost, also by a roll back.
* Pager: commit and roll back are atomic, whatever fails and whenever power is lost.
* Lock protocol: the lock levels of the connections exclude each other as SQLite's
  five-state protocol demands, and the holder of PENDING is not starved.

## 2. Modules

| Module | What it is |
|---|---|
| `HandleContract` | What the program is promised about its Database and Statement objects, without connections, addresses or registries. |
| `Handles` | The wrapper's objects and registry, and the engine's statements and connections. |
| `Transactions` | `Handles` with what every call does to transactions, locks and the file. |
| `StatementMemory` | `Handles` with the memory behind bound text and blobs. |
| `Exec` | Texts of several statements through `exec()` and `sqlite3_exec`. |
| `Values` | JavaScript values bound, stepped and read back while the memory grows. |
| `Loader` | Promises of modules that load, abort or fail. |
| `OrderStatistics` | `mode`, `median` and the quartiles: one group of rows through the ordered map. |
| `Variance` | `variance` and `stdev`: the one-pass update. |
| `StringFunctions` | Ten string functions on UTF-8 bytes, nested in any order. |
| `OrderedMap` | What a b-tree promises of each call. |
| `BTree` | Insertion and deletion with all balancing. |
| `BTreeCursors` | `BTree` with cursors that scan it. |
| `BTreePage` | The bytes of one page. |
| `TableStore` | What the free list and vacuum promise: tables, changed in transactions. |
| `FreePages` | The pages of a file: free list, pointer map, auto-vacuum. |
| `AtomicDatabase` | What the pager promises: atomic commit, roll back, savepoints. |
| `Pager` | Cache, rollback journal, syncs, crashes, failing system calls. |
| `LockLevels` | What the five lock levels promise. |
| `FileLock` | The levels made of POSIX locks and shared counters, over several processes. |
| `MC*` | Small sets, symmetry, and unions of modules for TLC; the bounds are in the `.cfg` files or in the `MC` module. |
| `HandlesProofs` | The inductive invariant of `Handles`; it implements `HandleContract`; Databases are isolated from each other. |
| `TransactionsProofs` | `Transactions` implements `Handles`; a refusal goes back to a leak; one writer, commits disturb no reader. |
| `StatementMemoryProofs` | `StatementMemory` implements `Handles`; no double free; bindings are alive; what leaks. |
| `FileLockProofs` | `FileLock` keeps its counts and locks right, one handle writes, and it implements `LockLevels`. |
| `WrapperProofs` | `Exec`: each statement of a text runs once and in order; the stack. `Values`: they come back as they were bound. |
| `VarianceProofs` | The one-pass update is the sample variance. |
| `PagerProofs` | A commit that returned is durable where the journal is not unlinked; what a reader takes from a journal; the invariant of journal, cache and file (`WholeInv`), and that statements, spills and syncs keep it. |
| `PagerCacheProofs` | That commits, roll backs and recoveries keep `WholeInv`; the cache and the file, the write-ahead rule, and the atomic commit. |

### Handles: state and actions against the code

| Variable | In the code |
|---|---|
| `handle[d]` | `Database.db`; `Null` after `close()` |
| `registry[d][p]` | `Database.statements[p]` |
| `stmt[s]`, `owner[s]` | `Statement.stmt`, `Statement.db` |
| `held` | the open Statement objects that `prepare()` has returned: those the program can call |
| `frames` | the JavaScript stack, as far as it holds `each()` calls whose callback runs |
| `conn[c]` | nothing, a connection, or a zombie at address `c` |
| `vdbe[p]` | the connection of the compiled statement at address `p` |
| `mode[p]` | `ready` (before its first step or reset), `row` (`SQLITE_ROW`), `busy` (refused by `sqlite3_step` with the run still ahead: the early returns of `OP_Transaction` and `OP_AutoCommit`), `halted` |

A method is one action (JavaScript runs a call to its end), except `each()`: it is
`EachFirstRow`, then any actions while its callback runs, then `EachDone`,
`EachStepFails` or `EachThrows` for the innermost such call. A method that can fail
at several points has an action for each: `prepare()` is `Prepare` or
`PrepareBindFails`; `exec()` leaves something behind only in `ExecStepFails`;
`run(sql, params)` and `each()` only in `RunStepFails`. `exec()`, `run()` and `each()`
calls that go well and see no callback finalize what they compiled in the same call,
so for the handles they are no step at all; in `Transactions` they are `RunSql`.
`FreeEach` is `Statement.free()` on each statement the loop of `close()` and
`export()` meets: finalize, delete the registry entry, zero the address. `Reap` is the
end of `sqlite3LeaveMutexAndCloseZombie`.

A new Statement may use the name (`s`) of one that is closed and that no running
`each()` call still refers to: names stand for objects, and an object nobody uses
again needs no name of its own. Likewise a Database name may be opened again after
`close()`.

### Transactions: state and actions against the code

`kind[p]` says whether a compiled statement reads, writes, begins, commits or rolls
back. `tx[c]` has `autoCommit`, the connection's lock on the file between calls, and
the content of its page cache when it has changes. `file[c]` is the Database whose
file it has open (`Null` when that has been unlinked), `disk[d]` what is in the file,
`exported[d]` what the last call returned if it was `export()`, `extended` the
Databases on whose present connection `RegisterExtensionFunctions` was called.

`Outcomes(c, k)` is one `sqlite3_step` of a statement of kind `k`: it follows
`OP_Transaction` (`MayRead`, `MayReserve`), `OP_AutoCommit` and the commit in
`sqlite3VdbeHalt` (`MayCommit`), with the case that each is refused: a statement refused
at its start stays `busy`, a refused COMMIT stays `busy` and leaves PENDING behind, an
autocommitted write that cannot have the file to itself is rolled back. `Settle` is
`btreeEndTransaction`: outside a transaction a connection keeps SHARED only while one
of its statements is running. Each action of `Transactions` is an action of `Handles`
conjoined with these effects, or `RunSql`, which finalizes what it ran.

Two definitions rest on properties of the same module. `WriteOutcomes` ignores that
`sqlite3VdbeHalt` neither commits nor rolls back while another statement counts in
`nVdbeWrite`: `RefusedWritesStay` shows that in every such state no write can start.
`Compilable` has no memory of whether a connection has read the schema: a connection
that may not read now has not been able to since it was opened, because the zombie
that blocks it is older and stays (`BlockedForGood` says this of writes).

### StatementMemory: state and actions against the code

`mem[s]` is `Statement.allocatedmem`, with `Null` for the 0 that `allocate()` answers when
the heap cannot grow; `bound[p]` the blocks the parameters of the compiled statement at
`p` point at (SQLite copies nothing: the destructor is `SQLITE_STATIC`); `live` what is
allocated. `loose` and `starved` are history. Each action is an action of `Handles`
conjoined with its effect here: `BindAll` for `bind()` (which may throw at any value, with
the block of that value pushed and not bound, or after it), `FreedMem` for `free()` on
whatever the call closes. `freemem()` pops until it meets a 0 (`Stop`, `Kept`, `Freed`).
Two actions change nothing in `Handles`: `FreeMem`, the public `freemem()`, and `RunParams`,
a `run(sql, params)` that goes well. `stmt.run(values)` is `MemBind`, `MemStep`, `MemBind`
(with no values) in a row.

### OrderStatistics and Variance: state and actions against the code

`isDouble`, `cnt`, `tree` are the fields of `ModeCtx`, `rows` the history the properties
speak of. `ModeStep` is `modeStep`: the first row makes the map and fixes the type.
A tree is a function from paths to nodes; `Place` is where the recursion of `node_insert`
ends, and `Before` the order of `node_iterate`'s visits. `Finalize` walks the tree with
`ModeIterate` or `MedianIterate`; quantities the code compares as doubles with a fraction
(`pcnt`) are multiplied by four. `Low` is the `*(int*)e` by which 64-bit keys are read. An
answer is a fraction. `Variance` keeps `cnt`, `rM`, `rS` of `StdevCtx` on rows that are multiples of
`Scale`, so that every quotient of the code is whole; rounding is not modelled.

### Exec: state and actions against the code

A text is a sequence of pieces, one kind each (with rows, silent, blank, does not compile, fails
at a step). `call` is the call in progress with the fields that are local variables of
`exec` or of `sqlite3_exec`: where the next piece begins, the statement, its rows. `sp` is
emscripten's stack pointer in bytes, `apiTemp` what the shared word holds; `ran` and `results` are what was stepped
and collected. A call is many actions here, although JavaScript runs it to its end, so that
its loop can be checked to end: `ExecEnter` or `RunEnter`, then `Prepare`, `PrepareBlank` or
`PrepareFails`, `StepRow`, `StepDone` or `StepFails`, then `ExecReturn` or `RunReturn`.

### Values: state and actions against the code

`param` is what SQLite holds for each parameter, `given` the values of the last `bind()` up to
the one that failed, `row` and `got` the row and what `get()` made of it, `grows` the growths of
the memory since `HEAP8` was taken. `Bind` is `bindValue` on each value of a list:
numbers are counted in halves, so that `num === (num|0)` has something to cut, and 32
bits are `IntBits`. A blob's elements are bytes of `ByteBits` bits, and signed where
`HEAP8` reads them. Names that `Exec` has too are `ValuesInit`, `ValuesNext`, `StepEnds` (the step
without a row), so that one run can have both.

### Loader: state and actions against the code

For each load the module (external: `loading`, `compiled`, `ready`, `aborted`) and the
promise (`pending`, `resolved`, `rejected`). A promise settles once; a second `resolve` or
`reject` is ignored (`Settle`).

### StringFunctions: state and actions against the code

`text` is the bytes of the current text; each action applies one function to it and the
result is the next text, as in a nested SQL expression, so that the functions are tried on what they return
themselves. `Skip`, `NextChar`, `CharLen`, `CharVal` are the four UTF-8 helpers of the C file. `call` keeps the
arguments and the bytes the allocator gave next to those the function wrote.

`TextIn` is the end of each function: `sqlite3_malloc` of a size, the bytes written there, `sqlite3_result_text`.
The size is a 64-bit integer and `sqlite3_malloc` takes an `int` (`Malloc`), so a function runs out of memory,
writes past its buffer (`Overrun`), returns its text or is refused as too long. `BuffersRight` says that the second
happens only where the size does not fit an `int`, and `StringsRight` what is returned where it fits; finding 21
is the rest.

### FileLock: state and actions against the code

| Variable | In the code |
|---|---|
| `eFileLock[h]`, `eLock[h]` | `unixFile.eFileLock` and the pager's copy `Pager.eLock` |
| `inode[p]` | the `unixInodeInfo` of the process: `eFileLock`, `nShared`, `nLock`, the length of `pUnused` |
| `posix[p][b]` | the process's lock on the PENDING byte, the RESERVED byte, the SHARED range |
| `at[p]` | the call the process is in: the handle, the level asked for, the next `fcntl` |

A step is one `fcntl` with the memory changes up to the next one, so the calls of two
processes interleave at every `fcntl`; a process finishes a call before it begins
another. An `fcntl` may fail for another reason than a conflict, counted in `faults`.
`CloseFd` drops all the POSIX locks of the process, which is what
`setPendingFd` and `pUnused` are for.

### Pager: state and actions against the code

| Variable | In the code |
|---|---|
| `pager` | the `Pager`: `eState`, `dbSize`, `dbOrigSize`, `dbFileSize`, `pInJournal`, `nRec`, `journalHdr`, `journalOff`, `cksumInit` (`nonce`), savepoints, sub-journal, and the cache (content and flags by page); `header` is the block of the header that waits for its count, 0 when there is none |
| `db`, `jrnl` | the two files: `vis`, as a read returns them, and `safe`, as of the last sync |
| `gone` | the journal as it was when it was unlinked, until the directory is synced |
| `pc` | the call in progress: its next step and the task it is part of (a write, a spill, a commit, a roll back, a recovery) |

A step of a call ends at a system call that may fail or that orders what a power failure
can undo. `PowerFailure` takes each block of both files from `safe`, from `vis`, or torn, and
each file of any length between; the next `SharedLock` recovers. A system call that fails
(`MayFail`) is an alternative of its step, with the code's reaction (`pager_error`, the ERROR state,
the roll back that follows). A spill (`pagerStress`) may happen at any write.

A reader of a journal is given the blocks that `pager_playback` would take (`Blocks`): headers need their
magic, but for the one that `readJournalHdr` finds at `journalHdr` while the journal is not hot
(`InProgress`). In the code that is an offset, which may be a header's by accident: `aligned` says
whether the records of a commit may end where a header may be.

`AtomicSpec` maps these to `AtomicDatabase`: `base` is what a reader that opened the files
as they are now would find after recovery, `prev` what it would find if the directory entry
of the unlinked journal came back, `view` what the connection reads, `saves[i]` what a
ROLLBACK TO would give. `TLC` computes each of them by running the recovery on the state.

### FreePages: state and actions against the code

`s` is one record, since most operations change many parts: page 1 (`first` and `nFree` of the free
list, `maxRoot`, `roots`), the pointer map `map`, `BtShared.pHasContent` and its size, `doTruncate`, and
the pager underneath as far as free pages use its shortcuts: pages as read (`img`) and in the file (`disk`),
journal records, dirty pages and those that will not be written. Each action is a call of
the b-tree layer with all the page operations it makes: `AddPage` is `allocateBtreePage`
with `BTALLOC_ANY`, `CreateTable` allocates the root where auto-vacuum wants it and moves the page
that is there, `DropTable` moves the last root into the gap, `IncrVacuum` one step,
`Commit` with `autoVacuumCommit`, `Rollback` with the pager's restoration.

### BTreePage, BTree, BTreeCursors: state and actions against the code

`BTreePage`: `page` has the cell pointers `ptr`, the bytes `data` (each the cell it belongs to,
or 0), the list `free`, `top`, `frag` and `nFree` of the page header, and `bad` once a
`SQLITE_CORRUPT` return or a failing assertion is reached. `insertCell`, `dropCell` and
`editPage` are the functions of that name; `Packed` and `Slid` the two ways of
`defragmentPage`.

`BTree`: `tree` has the pages (cells with key and size, children, cells that did not fit in
`ov`), the path and indexes of the cursor that inserts or deletes. One step is one insert or delete with
`balance` up to the root: `Deeper`, `Quick` and `NonRoot`, the last in the order of
the code (gather, distribute, even out, renumber, pointers, edit the pages in the code's order), because
the cells of a page are read while its siblings have been overwritten; a cell read
from a page that has been filled already counts as `Lost`.
`asked` has the arguments of the last call, so that the refinement of `OrderedMap` is about the key and the
entry of that call.

`BTreeCursors`: for each cursor its `eState` (`st`), its page stack and indexes, `skipNext`
and saved key. `Save`, `Restore`, `Forward`, `Backward` are `saveCursorPosition`, `btreeRestoreCursorPosition`,
`btreeNext`, `btreePrevious`; `AfterDelete` is the end of `sqlite3BtreeDelete` with
`BTREE_SAVEPOSITION`. The history `owed` has the rows a scan has yet to visit.

### Faults

A definition headed "Fault of X" is not part of a specification. It is X with a
plausible bug (a registry entry not deleted, a weaker lock overlooked, a cache
written that has no changes), and exists to show that a property fails with it; the
pairs are under `mutants` in `PROJECT.json`.

## 3. Runs

Run one with `tlc -workers 2 -config <cfg> <module>`. A run covers a layer. Where a
layer has parts that share no state, its `MC` module is their union: a variable `part` says
which one a behaviour is about, and the others stay where they start.

| Run | What it asks |
|---|---|
| `handles` (`MCHandles.cfg`) | `NoDanglingStatement`, `RegistryExact`, `ConnectionsAccounted`, `CallbackMidRow`; the action property `NoCrossTalk`; the refinement `ContractHolds`. |
| `transactions` (`MCTransactions.cfg`) | `WritersSound` (types, `OneWriter`, `RefusedWritesStay`), `NoLeakNoBusy`; the action properties `CommitAlone`, `BlockedForGood`. |
| `statement_memory` (`MCStatementMemory.cfg`) | `BlocksApart` (no double free), `BindingsAlive`; the action property `LostByFailureOnly`. |
| `wrapper` (`MCWrapper.cfg`) | `Exec`: `RunsTheText`, `StackKept`, the action property `EndsAtFailure`, liveness `CallsEnd`. `Loader`: `LoadsSettle`, with liveness. `Values`: `ReadsBack`. |
| `functions` (`MCFunctions.cfg`) | `OrderRight`, `VarianceRight`, `BuffersRight`, `StringsRight` against the textbook's definitions. |
| `trees` (`MCBTreeCursors.cfg`) | `TreeSound` (balanced, ordered, space right), `InPlace` (no cursor in a page that was moved), `ScanIsComplete`; the refinement `MapSpec`, which has the key and the entry of each call (`asked`) and lets only that entry change. |
| `cursors_skip` (`MCBTreeCursors_skip.cfg`) | Violated: `ScanIsComplete` when other cursors delete rows below a scan that has just deleted its own. |
| `pages` (`MCPages.cfg`) | `FileSound` (every page once, pointer map right), `PageSound` (every byte once); the refinement `StoreSpec`. |
| `pager` (`MCPager.cfg`) | `CacheSound`, `WriteAhead`, `Durable`; `CommittedKept` (the committed image changes only when a commit ends, or in a power failure, which leaves it or brings back the one before an unsynced commit); the refinement `AtomicSpec`. |
| `pager_stale` (`MCPager_stale.cfg`) | Violated: `CleanIsStored` after a commit that failed behind its journal's sync, where an earlier transaction left a header at the end of its records. |
| `file_lock` (`MCFileLock.cfg`) | `LocksRight`, `OneWrites`; the refinement `LevelsSpec`; liveness `PendingIsGranted`. |
| `export_returns_view` (`MCTransactions_export.cfg`) | Violated: `export()` in a transaction does not return what the program reads. |

**Bounds.**

* `handles`: 2 Databases (so that one can disturb the other), 3 Statements,
  4 statement addresses and 3 connection addresses (so that a leak can sit beside
  everything in use and freed addresses are reused, also across Databases), callbacks
  nested 2 deep (`MaxFrames`).
* `transactions`: 1 Database, since the file of a Database is
  shared only by its own connections; 3 connections, which is a handle and two
  generations of zombies; 3 addresses, two leaks and a statement in use; 2 contents of
  the file, enough to tell changed from unchanged.
* `statement_memory`: 1 Database and 2
  connections, 2 Statements and a third address for a leak, 2 blocks, so that a block of one
  statement is reused by another, lists of 3 entries with failed allocations among them.
* `wrapper`: every text of up to three pieces of five kinds, and one of seven, two calls,
  statements of up to two rows: every pair of neighbouring kinds occurs, at the beginning and at the end.
  Three loads. Every pair of twenty values, 3-bit integers and bytes with values on both sides of each
  edge, one growth of the memory at any call.
* `functions`: groups of 0 to 6 rows, so that every remainder of
  the count by four occurs; 4 integers and 2 floats, one of the integers too wide for an `int` of
  3 bits; every order of arrival, so every shape of a tree of up to six nodes. Texts of up to
  3 characters of one, two and three bytes, counts below 0, around the lengths, and on both sides of
  an `int` of 6 bits, with a longest text (`MaxLength`) of 14 bytes: results that are too long, sizes that are
  negative as an `int`, and sizes that are too small as one.
* `trees`: a leaf holds 12 units and an index page 21, which makes pages of two to six
  cells; a behaviour begins with one of 77 sequences of up to 36 insertions (`Load`), chosen so that
  trees of three levels, pages filled by one cell, the quick balance, three siblings that
  become five or one, and trees that lose a level occur; then one or two operations on any key. With
  cursors: 4 or 5 rows of a table or 14 of an index and up to 4 operations, or two cursors.
* `pages`: files of 6 pages, with the pointer map on every third or fourth page and
  trunks of one or two leaves, in the three auto-vacuum modes; a page of 34 bytes with cells of 4 to 7, so that fragments of
  1 to 3 bytes, two free blocks and both ways of defragmenting occur. `MaxFrag` stands for the code's 57.
* `pager`: 2 pages. Six settings: a power failure with a journal that is deleted (a
  directory entry that may come back), in `synchronous=NORMAL` and `FULL`, and with one that persists (old headers behind the new
  ones: six versions, so that a transaction finds them); two nested savepoints with
  spills; one failing system call anywhere with a savepoint, in TRUNCATE mode; one failing system call
  behind the headers of earlier transactions, in PERSIST mode. Where calls fail, records do not end at a
  sector boundary (`aligned` is false); the one setting of `pager_stale` is the case left out, on 3
  pages: a transaction that spills and commits, and the failing commit of the next.
* `file_lock`: two handles in one process and one in another, one `fcntl` that fails.

Symmetry is sound: the names are compared only for equality and no property names one; it is used only in
runs without liveness.

The bounds are constants (`MaxFrames`, `MaxParams`, `MaxMem`, `MaxRows`, `MaxCalls`, `MaxGrows`, `MaxChars`,
`MaxFaults`, `MaxPage`, `MaxPages`) or fields of a form or setting (`maxOps`, `maxTables`, `maxData`, `maxVersion`, `maxSaves`, `maxFaults`,
`maxCrashes`). A system that has used up its bounds stops, and so does one whose addresses have all leaked: hence `CHECK_DEADLOCK
FALSE`, except in `file_lock`, which never stops.

**Fairness.** Most actions are calls a program makes when it likes; nothing obliges it, and
their specifications state no fairness. Where something goes on by itself, they do:

* `Exec`: weak fairness of `Advance`, the steps of the call in progress. JavaScript runs a
  call to its end, and a statement has finitely many rows.
* `Loader`: weak fairness of the module's steps. A download ends or fails, and the module
  then goes on; nothing obliges a program to load, or a call to abort.
* `FileLock`: weak fairness of `Continue`, a call that began; strong fairness of a
  reader that unlocks (its statement is finished or reset some day) and of a holder of PENDING that asks again
  (a refused COMMIT is tried again). Strong, because the process may be inside another handle's call
  each time. `PendingIsGranted` is about a holder while no other process has two handles on the file:
  see finding 9.

## 4. Proofs

`tlapm <module>`; all obligations of the eight proof modules are proved. The theorems hold for
any sets of objects, addresses, processes, texts, values and pages, and any bounds, under the
assumptions that the modules name and TLC evaluates on every run: `Null` is none of the objects
(`NullAssumption`), no content of a file (`ContentAssumption`) and no block (`BlockAssumption`);
bounds are natural numbers (`FramesAssumption`, `BoundsAssumption`, `BoundsOK`, `FaultAssumption`);
there are finitely many handles, each of one process (`HandleAssumption`, `ProcAssumption`); a
text is a sequence of pieces of the five kinds (`TextsOK`); values are JavaScript's and widths
are positive (`ListsAssumption`, `WidthsAssumption`); rows are multiples of a number that every
count divides (`ScaleAssumption`); the settings of the pager are the journal modes it has,
with room for one value at least (`SettingAssumption`).

| Module | Theorems |
|---|---|
| `HandlesProofs` | `TypeCorrect`, `NoDangling`, `RegistryIsExact`, `ConnectionsAreAccounted`, `LeaksAreIdle`, `CallbackSafe`, `ImplementsContract`, `DatabasesAreIsolated` |
| `TransactionsProofs` | `TransactionsRefineHandles`, `BusyMeansLeak`, `WritersAreSound`, `CommitsAlone`, `LeakedLockBlocks` |
| `StatementMemoryProofs` | `MemoryRefinesHandles`, `MemoryTypes`, `NoDoubleFree`, `BoundValuesAlive`, `LeaksByFailureOnly` |
| `FileLockProofs` | `LocksAreRight`, `OneHandleWrites`, `LevelsAreImplemented` |
| `WrapperProofs` | `StackIsKept`, `TextIsRun`, `CallsEndAtFailure`, `ValuesReadBack` |
| `VarianceProofs` | `VarianceIsRight` |
| `PagerProofs` | `CommitsEndure` |
| `PagerCacheProofs` | `CacheIsSound`, `WritesAhead`, `CommitsAreAtomic` |

**Handles.** None of the invariants is inductive alone. `NoDanglingStatement` needs
`RegistryExact` (else `export()` could finalize another's statement) and
`ConnectionsAccounted` (else two Databases might share a connection);
`ConnectionsAccounted` needs them in turn to know that what is left on a closed
connection is leaked. `CallbackMidRow` needs two facts more: the stack holds an object
once (`FramesDistinct`) and the program holds only open statements (`HeldOpen`). The
conjunction is `IInv`. Two lemmas carry the work: `FreeEachEffect` (freeing a set of
statements leaves every other statement, address and leak as it was, because open
statements have distinct addresses) and `ReleaseEffect` (after that, the statements
left on the connection are leaked ones, so it is gone or a zombie that accounts for
itself). Then there is a lemma per action, `InvariantStep`, and one theorem per property.
With `IInv`, each action maps to an action of `HandleContract`
or a stutter: `Contract!CloseAll` is matched because the registry is exact.
`DatabasesAreIsolated` is the action property `NoCrossTalk` from the same invariant.

**Transactions.** `TransactionsRefineHandles`: each step of `Transactions` is a
step of `Handles` or leaves it alone, so all of the above holds of it.
`BusyMeansLeak`: with `FilesOwned` (the file of an open Database is open in its own
connection and otherwise only in zombies) and `ConnectionsAccounted` (a zombie has a
leaked statement), a Database without leaks has no other connection on its file.
The locks add `LockInv`: types, `OneWriter`, a free connection is clean (`FreeIsClean`), and
`RefusedByZombie`, which is why a refused write stays refused: what keeps it out is a zombie that
writes, and a zombie takes no more steps (`RefusedWritesStay` alone says only that something does).
`OutcomeFacts` takes the outcomes of a statement one by one, before the actions come.
`CommitsAlone` and `LeakedLockBlocks` are action properties from the same invariant.

**StatementMemory.** `MemoryRefinesHandles` as above. `MemIInv` is the types,
`BlocksApart` (in the equivalent form `Apart`: each list holds a block once, and two lists
none in common) and `BindingsAlive`; together with `IInv`, which gives that two open statements
have different addresses, it is inductive. The lemmas about lists come first: `StopFacts`
(the last zero of a list exists, by the well-foundedness of `<`), `FreememFacts` (what
`freemem()` keeps and what it frees are disjoint and together the list), `ConcatFacts`. Then one
lemma per kind of effect: `BindEffect`, `FreedEffect`, `GrowEffect`, `KeepEffect`. For `LeaksByFailureOnly`
one fact more is inductive: a list has a zero in it only after an allocation has failed
(`NullsStarve`), so that otherwise `freemem()` stops at the bottom of the list and frees all of it.

**FileLock.** The invariant is per process, since only its own call changes what a process has:
`NodeInv` ties the counts of the `unixInodeInfo` to the handles and to the POSIX locks, `HandleInv` each level
to the locks that it needs, `CallInv` says for each program counter what the call has done so far. Between processes there
is `Compatible` alone, what POSIX guarantees. A count is exact while no call has failed
(`CountInv`) and an upper bound afterwards. One lemma, on how a count follows its set of holders, and one on
the processes that a step does not touch, serve all actions. The refinement to `LockLevels` needs `Level`
for a handle that has given back its bytes but not yet its entry.

**Exec.** `LoopInv` is the invariant of the loop: it stands at `call.next`, the statements before it have run, in order,
and nothing before it has failed. With `ResultsInv`, where the last result is open while its statement has rows, and `StackInv`,
what the call has put on the stack, it is inductive.

**Values.** `ParamOK`: each parameter is what `ToSql` makes of the last value given for it, or NULL. The rest is per value:
`ToJs` undoes `ToSql` for each type. That 2^n is positive needs induction and is part of `WidthsOK`.

**Variance.** `MeanOK` and `DeviationOK` are Welford's recurrence in the form `rM * n = Sum x` and
`rS = Sum x^2 - n * rM^2`. That the quotient is whole rests on `n` and `n + 1` being coprime and on both dividing `Scale`
(`QuotientExact`). The power sums are recursive functions; that they exist is shown with a least counterexample
(`SumsExist`), since the induction theorem of the library cannot be instantiated.

**Pager, durability.** `CommitsEndure` needs that a journal at rest is on disk as it is read (`JournalState`), and
that the one journal which may still come back, unlinked by `sqlite3PagerSharedLock`, lies beside an empty database,
where it is not hot (`UnlinkedBesideNothing`, with `Creating` for the time in which that database gets its first page).

**Pager, cache and write-ahead.** `CacheSound` says that a clean page of the cache is the page of the file
between two calls, `WriteAhead` that the file may differ from the committed database only while the journal
on disk gives it back. Neither is inductive: what a roll back puts into cache and file comes out of
the journal, so the invariant has to say of each record in it what it holds. `WholeInv` has six parts. `Basics`
are the types (records are older than the next nonce). `Flow` says which step of a call goes with which state of the
pager. `OpenRight`, `ReaderRight` and `LockedRight` say that outside a writing transaction the cache is the file and the
journal is not hot. `WriterRight` is the transaction with an open journal:

* `Layout`: the journal is a row of whole segments up to `journalHdr` (`Segments`: a header with its magic and its
  count, and that many records of its nonce), then the segment in progress (`InProgressRight`), behind which no record has its
  nonce, so that what an earlier transaction left is not taken for part of it.
* `RecordsRight`: there is one record for each page of `pInJournal`, and none for another.
* `SyncedRight`: the whole segments are on disk, and what follows them there is no header with its magic.
* `CacheRight`: pages whose record is not synced need a sync, so that `pager_write_pagelist` does not write them;
  a clean page is in the file; the pages beyond the original size are cached.
* `ContentRight`: a page with a record that is not synced, and a page without one, is in the file as it was when the transaction began.
* `SavesRight`: each savepoint lies at a place of the journal and of the sub-journal from which a roll
  back to it gives page 1 a size the database had (`FirstOne`); savepoints nest.
* `Stage`: how far the commit, spill or roll back in progress has come.

That the writer's conjuncts are kept is shown per action and on arguments, not on the variables (`Ready(g, J, f, safe, v)`), since
`ChangePage`, `AddPage` and `Begin` write several pages in one step. The recursion
over the journal (`Blocks`) is unfolded by descent from its end: `Reads` is the function that it defines, which is shown to exist with a least
counterexample, and what it gives on whole segments is in `PagerProofs`.
A roll back (`PlaybackRight`) reads its own records (`OwnBlocks`), a roll back to a savepoint those
since it (`SavepointBlocks`, `UndoneReady`). `CacheIsSound` is then `Reliable` or `ContentRight` of the state the pager is in.
For `WritesAhead`, `HotRead` says what recovery takes from a journal of whole segments and one more, `Recovered` what this makes of
the file, and `SyncedEnough` that the synced journal gives the same image as the journal now: the records it lacks are of pages that
are in the file as they were.

**Pager, atomic commit.** `CommitsAreAtomic` says of every step that is not a power failure that it leaves the committed image
(`Base`: what a reader would find in the file after recovery) as it was, but for the step that ends a commit, which puts there
what the connection saw; and of a power failure that it leaves the committed image or brings back the one before the last commit,
when the removal of that commit's journal was not synced (`Prev`). The invariant is `AtomicInv`: `WholeInv` with `BaseRight` and
`CrashRight`.

`WholeInv` says that journal and file agree, not what image they give. While
records are added, `HotRead` gives the same image (a record that is added holds what the file holds); while pages are written, the
journal gives back each page that is overwritten, and is cut to the original size. `BaseRight` adds what is needed
of a call under way: once a roll back has played the journal back the file is the committed image,
of whatever length; a commit has its page 1 and, when it comes to cut the file, covers what it will keep; a recovery reads a journal
that is hot, to its end. `PlayedAgain` is the reason that a recovery that stops anywhere can be run again: the
file it leaves gives, played back once more, the same image.

`CrashRight` is about what was synced, of which a power failure keeps all, and the rest, of which it keeps any part, page by page and entry by entry
(`Survivors`; an entry that was being written may be junk):

* `SyncedFiles`: between transactions the journal is synced, and the file too, or but for pages cut off its end; the removal of a
  journal finds the file synced.
* `WriterCrash`: before pages are written the synced journal has no header that counts; from then on the pages
  that differ between the file as synced and as written each have a record in a whole, synced segment; the count of records is written only
  over a journal that is synced, and is the only entry that then differs.
* `OpenCrash`: a hot journal is played back over a file that was synced, and nothing else comes back from the disk.
* `GoneRight`: a journal that was unlinked, in whatever part it comes back, gives the committed image or the one before.

The clause on power failures has the condition `Calm`: no call has failed, and `synchronous=FULL`. Without it the clause does not hold: in PERSIST
mode the header of an earlier journal may come back (the end of section 5), whether its overwriting was never
synced or the sync failed. With `DELETE` and `TRUNCATE` the setting `NORMAL`, and one failed call, are left to TLC.

The three properties have the condition `OwnRecords`, and `WholeInv` has it on the conjuncts about contents: where records may end at a
sector boundary and a call has failed, they do not hold (finding 20). Attempting the proof is what showed it; for the same reason
the model tells the header in progress (`header`) from the one that `readJournalHdr` takes for it (`InProgress`).

**Only model-checked,** and why:

* `AtomicSpec` (`Pager`): its committed image is proved (`CommitsAreAtomic`). The images of the
  savepoints and what the connection sees after a roll back to one are not:
  `WholeInv` says of a savepoint where it lies in the two journals and not what they give from there. Nor is what a power failure
  leaves with `synchronous=NORMAL` or after a failed call, where it is right.
* `FileSound`, `StoreSpec` (`FreePages`), `PageSound` (`BTreePage`), `OrderRight` (`OrderStatistics`),
  `BuffersRight`, `StringsRight` (`StringFunctions`): statements about what a fold over a chain of pages, a
  list of free blocks, a tree or the bytes of a text gives for every input.
* `TreeSound`, `InPlace`, `MapSpec`, `ScanIsComplete` (`BTree`, `BTreeCursors`): recursive operators.
* Liveness: `CallsEnd`, `PendingIsGranted`, `LoadsSettle`.

## 5. Findings

Where the code does something that a comment, a document or a test of the repository denies. A run is kept for
three of them; the others are stated by a property of the module named, which is violated
when it is added to a `.cfg` of that module.

| | What | Property |
|---|---|---|
| 1 | `close()` after a failed `exec()`, or after a `prepare()` whose bind threw, leaves the connection and the statement in memory for good, contrary to `index.js:562-563`. | `Handles!CloseReleasesConnection` |
| 2 | `export()` inside a transaction returns the file without the changes the program reads through the Database, and rolls them back, contrary to `index.js:548`. | run `export_returns_view` |
| 3 | `export()` loses the extension functions (`index.js:555` against `:390`). | `Transactions!ExtensionFunctionsKept` |
| 4 | `freemem()`, a public method, leaves a statement bound to freed memory (`index.js:364` against the meaning of `SQLITE_STATIC`, `sqlite3.c:6237`). | `StatementMemory!StaticContentKept` |
| 5 | After an allocation has failed, `free()` does not free everything (`index.js:364` against `:136`). | `StatementMemory!FreeReturnsMemory` |
| 6 | `mode()`, `median()` and the quartiles return the low 32 bits of wide integers (`extension-functions.c:1464`, `1512`). | `OrderStatistics!MedianInMiddle` |
| 7 | `mode()` of a column whose first number is an integer can be a value no row has (`extension-functions.c:1428` against `:1455`). | `OrderStatistics!ModeIsOfARow` |
| 8 | After the memory has grown once, every blob is read as zeros: `HEAP8` is the view of the old memory (`index.js:56`, `:210`; against `test/blob.spec.ts:31`). | `Values!BlobsKept` |
| 9 | A handle whose process has a reader joins it without a look at the PENDING byte, so that two handles of one process can keep a writer of another waiting for ever (against `sqlite3.c:33998`). | `FileLock!NoNewReaders` |
| 10 | A pager that was refused EXCLUSIVE for a hot journal and whose unlock fails forgets that it holds PENDING; it then believes to have RESERVED without the lock (against `sqlite3.c:50728`). | `FileLock!OneBelievesToWrite` without its condition `faults = 0` |
| 11 | `exec("")` allocates no byte for the terminator (`index.js:465` against `:464`). | `Exec!TextFits` |
| 12 | An `exec()` that throws keeps its stack (`index.js:493` against `:8`). | `Exec!StackOfTheCall` |
| 13 | `run()` never frees the error message of `sqlite3_exec` (`index.js:414` against `sqlite3.h:366`). | `Exec!MessagesFreed` |
| 14 | `exec()` has no result for a statement without rows (`index.js:482` against `:424`). | `Exec!OneResultPerStatement` |
| 15 | `replicate(s, 0)` returns memory that was never written (`extension-functions.c:668` against `:666`). | `StringFunctions!ReplicateDefined` |
| 16 | `leftstr` keeps the low 32 bits of its count (against `extension-functions.c:1063`). | `StringFunctions!LeftKeepsShort` |
| 17 | `rightstr` with a negative count reports that memory ran out. | `StringFunctions!MemoryErrorsMeanIt` |
| 18 | A cursor that deletes its row and then loses its place to other deletes stops on a row it has passed, or passes one it has not: `skipNext` of the two is or-ed (`btreeRestoreCursorPosition`). It takes three deletes by two cursors at the right places; whether the code generator ever lets two cursors of one scan do this was not examined. | run `cursors_skip` |
| 19 | A cursor restored in a tree that became empty keeps `skipNext` when a new scan takes it over, which four assertions exclude. Without assertions it costs a shortcut only. | `BTreeCursors!NoStaleSkip` |
| 20 | A roll back can read the journal of an earlier transaction: `readJournalHdr` does not look at the magic of a header at `journalHdr` (`sqlite3.c:51960`), and a commit leaves `journalHdr` at the end of its records. It takes a journal that is kept (PERSIST), records that end at a sector boundary (with pages of 4096 bytes and sectors of 512, a multiple of 64 records) where an earlier transaction began a segment after a spill, and a commit that fails behind its journal's sync. The roll back then puts pages of the earlier transaction into the cache, and they pass for clean; the file is right until a later transaction changes such a page. `syncJournal` overwrites a byte of that header "to prevent it from being recognized" (`sqlite3.c:54654`), which here does not help. | run `pager_stale` |
| 21 | `padl`, `padr`, `padc` and `replicate` compute the size of their result in 64 bits and pass it as the `int` of `sqlite3_malloc` (`extension-functions.c:687`, `793`, `848`, `903`; `sqlite3.c:26634`). Where it leaves the `int`, they say that memory ran out, or write past a buffer that is smaller than the result. Their comments (`extension-functions.c:666`, `758`, `811`, `865`) name no limit, and SQLite answers "string or blob too big" for a text beyond its own. | `StringFunctions!SizesFit` |

What 1 and 2 together can do is stated by `NoLeakNoBusy` and `BlockedForGood`: a leak
followed by `export()` in a transaction leaves the Database unable to write its own file.

Not findings, since the comments say so, but worth knowing. In PERSIST mode with
`synchronous=NORMAL` a power failure may leave a journal header that was never
overwritten (`sqlite3.c:53933` ff.), so `AtomicSpec` is checked with `FULL` there; with `FULL` the same can happen after
the sync in `zeroJournalHdr` has failed: the COMMIT reports the error, the next transaction opens its journal over the
header that is zeroed but not synced, and a power failure may bring that header back. Hence the condition `Calm` of `CommittedKept`. In TRUNCATE mode a COMMIT whose
sync of the journal fails reports the error, and yet the next open may find it committed; so
`Durable` speaks of runs without failed calls.

## 6. Not modelled, and why

SQLite is a vendored amalgamation of 220 533 lines, most of which is
sequential: a compiler, an instruction interpreter, conversions of values, extensions. The modules cover its
storage engine from cursors to file locks, where the states are, and what the wrapper relies on. Nothing
like a third of the amalgamation could be modelled with any use: the share of its lines
that the modules map stays small.

* Parser, code generator, schema, triggers, foreign keys, ALTER, VACUUM; the virtual
  machine but for transactions, cursor moves and the halt; the sorter; record format and affinity;
  FTS, R-tree, JSON, sessions. A model of them would be a second implementation.
* The page cache's LRU lists and hash tables: `Pager` and `FreePages` take a cache that may drop or
  spill any page at any time.
* `Transactions`: running out of memory and I/O errors, cache spill, savepoints, ATTACH and conflict
  clauses that roll back (`OR ROLLBACK`, `OR FAIL`). `Pager` has the failures and the
  savepoints, for one connection.
* `Pager`: journals in memory, OFF and WAL, master journals, auto-vacuum, pages left unwritten
  (`FreePages` has those), failures of the sub-journal, backups.
* `FreePages`: savepoints, `secure_delete`, the page of the pending byte, second overflow pages, failing
  calls.
* `BTreePage`: `secure_delete`, and the layouts that only a damaged file has; the `SQLITE_CORRUPT` returns are
  shown never to be taken.
* `BTree`: overflow pages, pointer-map entries, bulk load (`OPFLAG_BULKCSR`), I/O errors, cells of fewer than four bytes.
* `BTreeCursors`: cursors made invalid by a roll back, blob handles, shared cache; a
  cursor moves in the direction it was opened in, as `OP_Next` and `OP_Prev` assert.
* `FileLock`: the other locking styles.
* `StringFunctions`: text that is not UTF-8; functions of floating-point numbers, `soundex`,
  `difference`; counts that make 64 bits overflow, or the difference of two `int`s. `Variance`: rounding.
* `create_function`: throws at `addFunction` on every call (`index.js:648`).
* Declarations (`typings.ts`, `sqlite3.ts`), build and test configuration.

## 7. Plan

Done: all the modules above, their runs, and proofs of the wrapper's layer, of transactions, of file
locks and of the pager's cache, write-ahead rule, durability and atomic commit. Left, in this order:

1. `Pager`: the rest of the refinement `AtomicSpec`, with the image of each savepoint added to `WholeInv`, and power failures after
   a call has failed.
2. Proofs of `OrderStatistics`: the order of the search tree (`MapIsBag`).
3. `Pager`: journals in memory.
