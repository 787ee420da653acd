# A TLA+ verification project for malloc-survey

The repository compares memory allocators.  `src/test.cpp` compiles two dozen of them into
one benchmark and drives each with the same workload; the allocators themselves, one
directory each, are the code with state, invariants and concurrency.  This directory
models the allocators that the repository ships as small readable sources and the queue that
one of them rests on, checks them with TLC on small instances, and proves what matters most
of three of them with TLAPS.

## 1. The system

### Parts and how they interact

`test.cpp` is the only caller.  Its containers (`std::vector`, `std::deque`, ...) are
instantiated with an STL allocator (`<name>.hpp` in each directory) whose `allocate` and
`deallocate` call the allocator's `alloc` and `free`.  Depending on a feature table each
allocator is run in one thread, in several threads that share it, or in several threads
with one instance per thread.  Nothing is persisted and no messages are sent: the
interactions are calls, memory shared between threads, thread-exit callbacks
(`pthread_key_create` destructors), and the page source under each allocator (`malloc`,
`mmap`, `VirtualAlloc`).

| part | state | operations | what is hard |
|---|---|---|---|
| threadalloc | per thread a directory of pages with five free chains, a pending chain under a lock, counters | alloc, free, realloc, thread exit, Win32 scan for dead threads | frees by strangers, exit while blocks are out, who frees the last page |
| ltalloc | per thread a cache per size class; a central cache with batches; a radix tree of system blocks | alloc, free, realloc, squeeze, thread exit | batches moving between caches, a lock dropped while memory is fetched, returning chunks |
| michael | lock-free descriptors with an anchor (count, state, tag), partial lists, credits | malloc, free | ABA, credits, descriptor reuse |
| readerwriterqueue | a ring of ring buffers, front and tail indices | enqueue, try_enqueue, try_dequeue, destructor | two threads without locks, blocks added and reused |
| MicroAllocator | for each of 17 sizes chunks of blocks in groups of 32; a sorted table of the chunks with a last-hit cache | malloc, free, realloc, isMicroAlloc | binary search over address ranges, two lock sections in one free, the last chunk hit |
| tav (mballoc) | contexts, each with megablocks on lists of partly free, filled and free ones, and the one being handed out | MBAlloc, MBFree, MBRealloc, the end of a context | a megablock changes its list at both ends of its occupancy and while it is being handed out |
| FSBAllocator | a vector of blocks, each with a free list of small integers; in a second version one list for all blocks | allocate, deallocate, cleanSweep | index stacks, memory given back and fetched again, a count that decides when all goes |
| dumb_tlsf | free lists in columns of a table of sizes, regions that new blocks are cut from | dalloc, dfree, dsalloc, dsfree, dreserve, dapocalypse | a column for several sizes, ends of blocks freed by themselves; nothing is ever joined |
| tlsf | free blocks on lists by two levels of size with two levels of bitmaps; boundary tags in the blocks | pools, malloc, memalign, free, realloc | bit arithmetic of the mapping, splitting at both ends, joining with neighbours |
| tlsf0, tlsf1 | another implementation of the same algorithm, and an older one | the same | the same |
| winnie1 | lists of blocks of powers of two; headers that name the list | Alloc, Free, Realloc, DesroyHeap | blocks split over several lists, a request that moves between the lists and malloc() |
| winnie2 | free lists by size | wmalloc, wfree | little |
| winnie3, winnie4 | per thread and size a list of free blocks and the chunks they came from; per thread the sizes in use | Allocate, Deallocate, CleanThreadAllocatorState | blocks that go to other threads, nothing left behind when a thread ends |
| ironpeter, ironpeter2 | nodes of 64K cut into objects of one bin; per bin a list of nodes with free objects | imalloc, ifree, clean_up | lists of all bins rebuilt whenever a node is empty |
| balloc | buckets of free blocks on lists without locks | balloc, bfree | unfinished |
| uray | a pool of objects in several queues, each with two locks | borrowObj, returnObj | counters without a lock; does not compile |
| obstack | third-party stack of objects | | |
| fc_malloc | unfinished experiments of one author (several versions side by side) | | |
| elephant, gjalloc, jemalloc | wrappers of libraries that are not here, or single ones | | |
| dlmalloc, nedmalloc, lockless, boost, hoard, jemalloc-win32 | large third-party code | | |

### Correctness

What every allocator promises is in `HeapContract.tla`: a block that is handed out is not in
use, and only a block in use is given back.  `ThreadAlloc`, `LtAlloc` and `MichaelHeap`, in
which threads share a heap, are checked to implement it.  Below that promise, each allocator
has invariants of its own: free lists, pages and counters agree; memory is returned only when
nothing in it is used; memory is not lost.  In the allocators that run one call at a time the
promise and the last two are one statement, `Tiled`: the blocks in use, the blocks on lists
and what was never handed out tile the memory that the allocator has from the system, each
byte once.

## 2. Modules

| module | models | composes |
|---|---|---|
| `HeapContract` | the abstract specification of a heap: a set of blocks in use | |
| `Fifo` | the abstract specification of a queue between two threads | |
| `ThreadAlloc` | `threadalloc/threadalloc.cpp`: allocation, free, realloc, thread exit, Win32 scan | implements `HeapContract` |
| `ThreadAllocProofs` | theorems about `ThreadAlloc` | extends it |
| `ThreadAllocSizes` | its size table, rounding and page layout | |
| `ReaderWriterQueue` | `readerwriterqueue/readerwriterqueue.h` | implements `Fifo` |
| `ReaderWriterQueueProofs` | theorems about `ReaderWriterQueue` | extends it and `SequenceLemmas` |
| `SequenceLemmas` | lemmas about least numbers, steps along a function, sequences without repetitions, lists, and sequences of sequences | |
| `LtAlloc` | `ltalloc/ltalloc.cc` for one size class: thread caches, central cache, chunks, `ltsqueeze`, thread exit | implements `HeapContract` |
| `LtAllocProofs` | theorems about `LtAlloc` | extends it and `SequenceLemmas` |
| `LtAllocClasses` | a large and a small size class of it | instantiates `LtAllocProofs`, that is `LtAlloc` with its theorems, twice |
| `LtAllocClassesProofs` | theorems about `LtAllocClasses` | extends it |
| `LtAllocSizes` | its size classes, chunk layout, `ltmemalign`, `ltrealloc` | |
| `PTrie` | its radix tree of system blocks, under its lock | |
| `MichaelHeap` | `michael/include/allocator.h`: the lock-free heap of one size class of one processor | implements `HeapContract` |
| `MichaelHeapProofs` | theorems about `MichaelHeap` | extends it and `SequenceLemmas` |
| `MicroAllocator` | `MicroAllocator/MicroAllocator.inl`: the heap manager, the chunks of one size, the table | |
| `MicroAllocatorProofs` | theorems about `MicroAllocator` | extends it and `SequenceLemmas` |
| `FSBAllocator`, `FSBAllocator2` | the two allocators of `FSBAllocator/FSBAllocator.hh` | |
| `MBAlloc` | `tav/mballoc.cpp`: one context | |
| `DumbTlsf` | `dumb_tlsf/dumb_tlsf.cpp` | |
| `Tlsf` | `tlsf/tlsf.c` | |
| `WinnieAlloc` | `winnie1/winnie_alloc.cpp` | |
| `WinniePool` | `winnie3/winnie.hpp`, `winnie4/winnie.hpp` | |
| `IronPeter` | `ironpeter/iron.cpp` | |
| `Pools` | puts these nine side by side, with the variables they share | instantiates them, `MicroAllocator` with its theorems |
| `PoolsProofs` | theorems about `Pools`: `MicroAllocator`, the two of FSBAllocator, and `WinniePool` | extends it and `SequenceLemmas` |
| `Survey` | adds `ThreadAllocSizes`, `LtAllocSizes` and `PTrie` | extends `Pools`, instantiates the three |
| `MCThreadAlloc`, `MCReaderWriterQueue`, `MCLtAlloc`, `MCLtAllocClasses`, `MCMichaelHeap`, `MCSurvey` | the instances TLC checks; `DumbTlsf` is also checked by itself | |

A definition whose name has a suffix after an underscore, such as `CleanupDone_NoRecheck`
beside `CleanupDone`, is a seeded fault: the same definition with a plausible mistake in it
(a dropped test, an index off by one).  `PROJECT.json` lists which property each of them
violates.  Nothing in the models uses them.

### threadalloc

State.  `dirs` and `pageLive` are the directories and pages that `malloc` has given out and
`free` has not taken back.  Fields of `thread_alloc_dir` and `alloc_page` are functions of
their address and keep their names (`pending_chain`, `n_allocated_objects`, ...).  `ctx[t]`
is the thread-local pointer.  `pc`, `want`, `blk`, `target` and `taken` are a thread's place
in the code and its locals: the chain it wants a block of, the block it is freeing, the
directory it works on, the pending blocks it has taken off.  `held` counts how often the
application has a block.  Free lists are sets, since their order decides nothing.  The
address of a page that was freed can be used again, and so can the address of a directory.

Actions.

| code | actions |
|---|---|
| `thread_alloc` | `Alloc` (find or make the directory), `Register` (Win32: `thread_list`), `TakePending`, `Drain` (`process_pending_requests` in and after its lock), `TakeFromChain`, `ChainEmpty`, `Carve` |
| `thread_free` | `Free` (owner: all of it; stranger: up to the lock), `FreeRemote` (the section under `cs`) |
| `thread_realloc` | `Realloc` goes through `thread_alloc` and ends with `FreeOld`; `ReallocToBig`, `ReallocBig` |
| large requests | `AllocBig`, `FreeBig`: the C library's heap |
| end of a thread | `Exit`; `CleanupStart`, `CleanupSweep`, `CleanupCheck` are `cleanup()`, cut where it leaves its lock; `Spawn` |
| Win32 scan | `ReadCount` and `WriteCount` are one unlocked increment; `ScanStart`, `ScanVisit`, `ScanEnd` |

A section under a lock is one step because everything it reads and writes is touched under
that lock only, or by the owner only; `OneOwner` is the part of this that is not obvious,
and it is proved.  `n_pending_requests` and `page->dir` are read without a lock, so they are
read in steps of their own.

### readerwriterqueue

`Block` is the set of addresses of ring-buffer blocks.  `front`, `tail`, `next`, `size` and
`data` are their fields.  `pp` and `cp` are where producer and consumer stand in
`inner_enqueue` and `try_dequeue`.  A step touches at most one location that the other
thread writes.  `enqueue` and `try_enqueue` are `Enqueue(TRUE)` and `Enqueue(FALSE)`, then
`RoomConstruct` and `RoomPublish`, or `NextFree`, `ReuseConstruct`, `ReusePublish` and
`Advance`, or `NoNextFree`, `NewBlock`, `Link` and `Advance`.  `try_dequeue` is `Dequeue`,
`Look`, `NoElement` or `EnterNext`, `MoveOut`, `Release`.  The destructor is `Destroy`.
`Queue` is the abstraction: the elements from `frontBlock` to `tailBlock`, which the
refinement of `Fifo` maps `queue` to.  Loads and stores take effect in program order.

### ltalloc

`freeList`, `tempList` and `counter` are the thread cache of one size class;
`firstBatch`, `chunks` with `chunkWithFreeBatches`, `ccFreeList` with `freeListSize`,
`lastChunk` and the two addresses are the central cache; `pad` and `padSize` are the pad.
Linked lists are sequences.  `MallocCached` to `MallocNew` are the ways `ltmalloc` and
`fetch_from_central_cache` come by a block; after `MallocNew` the lock has been dropped and
`FetchPad` or `FetchSystem` runs, then `Install` under the lock again; `NextOrRefused` has
`FetchFails` besides.  `Free` and `FreeAndMove` are `ltfree` without and with
`move_to_central_cache`; `Exit` is `release_thread_cache`; `SqueezeDetach`, `SqueezeReturn`, `PutOff` and `Unmap` are the lock
sections of `ltsqueeze`.  Size classes share only the pad, so one class is modelled;
`CHUNK_IS_SMALL` chooses between the class that keeps batches in arrays of its chunks and
the others.  `LtAllocClasses` runs either, with constants for each, and states what holds of
both; memory is refused to the large class only (section 5).  What `ltsqueeze` picks from a
list is `Among`, a recursive function, so that it can be reasoned about.  What it puts back
is not what it picked, and the model follows the pointers in that (finding 3): `Rejoined` are
the batches that stay in front of `firstBatch`, `Rehung` the list.  The size of the list goes
its own way then, and `MallocList` decides by the size, as the code does.  Where the list is
shorter than the walk of `ltalloc.cc:475`, the step has no successor: the program crashes
there, and nothing is said of what follows.

`LtAllocSizes` and `ThreadAllocSizes` are the arithmetic, with the constants of the code.
`PTrie` is the radix tree `ptrie_insert`, `ptrie_remove`, `ptrie_lookup`: nodes, child
pointers and keys; the address bits of a key are numbers and a branch is at a bit.

### michael

`active` is the word of the processor heap that holds a descriptor and credits packed
together; `anchor[d]` is a descriptor's anchor without its tag; `pPartial`, `partialList`
and `listSBDescFree` are the places a descriptor may wait in.  A step is one access to
shared memory.  A loop that computes a new word from the one it loaded is one step, at the
CAS that succeeds; the two loops that also follow a link inside a block (`PopLoad`, then
`Pop` or `PopAgain`) are two.  The tag exists to make such a CAS fail: `stale` is the set of
threads that hold an anchor from before a change of its tag.  `Reserve`, `PopLoad`, `Pop`,
`Install`, `GiveBack` are `alloc_from_active` and `update_active`; `GetPartial`, `PopPartial`,
`TakePartial` are `alloc_from_partial`; `NewSuperblock`, `Publish`
`alloc_from_new_superblock`; `Free`, `AddPartial`, `PushPartial`, `Unlink`, `Release` are
`free()`.

### Pools: the allocators that run one call at a time

`part` is the allocator that runs; the variables of the others are `NULL` then.  `Pools` has
one copy of a variable where two allocators have one of the same meaning: `users` are the
blocks of the application.  Memory of the system (`Page`, `Memory`) is a model value, a block
of it a pair of memory and position or offset; memory returned can be fetched again.  Linked
lists are sequences, except where the code's way of linking is what may go wrong
(`MBAlloc`).

* `MicroAllocator`.  `mData`, `mUsedCount`, `mFreeList` are the fields of a `MemoryChunk`,
  named `<<group, place in it>>`; `mMicroChunks` and `mLastMicroChunk` the table and its
  last-hit cache.  `Malloc` is `heap_malloc` with `MicroChunk...::allocate`, the fetch of a
  chunk and its entry in the table, `MallocBig` what goes to the C library.  `heap_free` and
  `heap_realloc` lock twice: `Find` is `isMicroAlloc`, which searches by halves or takes the
  last hit, and `Free`, `FreeBig`, `ReallocStays` and `ReallocMoves` are what follows, with the
  chunk that `Find` put in `task`.  Addresses are numbers here, as the table is sorted by
  them.
* `FSBAllocator`, `FSBAllocator2`.  `data[i]` is a block with its free list; `blocksWithFree`
  the stack of those that have a free element; `vectorIndex` what stands behind an element.
  In the second, `ptrs`, `headIndex`, `freeList` and `allocatedElementsAmount`; `Deallocate`
  includes `freeAll()` when the count reaches 0.
* `MBAlloc`.  `link` has `prev` and `next` of each megablock; `partlyFree`, `filledMegaBlock` and
  `freeMegaBlock` are heads of lists.  `FromPartlyFree`, `FromJustAllocated` and
  `FromNewMegaBlock` are the ways of `MBAlloc`, `FreeBlock` is `MBFree` with the moves between
  lists, `MBReallocStays` `MBRealloc` in place (otherwise it is an allocation and a free), and
  `MBFreeContext` the end of the context.
* `DumbTlsf`.  `table[c]` is the list of a column, `res` the regions.  A block of the
  application has the room it was made with and the size asked for.  `CutEnd` frees the end
  of a block, which `dfree` allows; `dsalloc` puts the size in front.
* `Tlsf`.  `header[b]` is the header of a block with its size, the two flags and
  `prev_phys_block`; `fl_bitmap`, `sl_bitmap` and `blocks` are the control structure.
  `tlsf_add_pool`, `tlsf_remove_pool`, `tlsf_malloc`, `tlsf_memalign` and `tlsf_free` keep
  their names, `ReallocInPlace` and `ReallocMoves` are `tlsf_realloc`.  The helpers of the code
  (`block_split`, `block_absorb`, `mapping_insert`, ...) are operators on a record of the four
  variables, composed as the code calls them.
* `WinnieAlloc`.  `free_blocks_lists` by the logarithm of the size.  Sizes count in headers.
  `Refilled` is the search of larger lists and of the system, `Split` the distribution of the
  halves.
* `WinniePool`.  A thread's state of a size is `pChunksHead[t][s]` and `pFirstFree[t][s]`;
  `pThreadAllocatorStates[t]` are the sizes registered.  Any thread may free a block;
  `CleanThreadAllocatorState` is the end of a thread, and has the condition that the authors
  ask of the caller (`KeptApart`): blocks that went to other threads have come back.
* `IronPeter`.  `nodes[b]` is the list of a bin, `index`, `usedObjs` and `firstObject` the header
  of a node.  `Free` includes `clean_up`.

## 3. Hazards

`PROJECT.json` lists them with their lines.  The main ones and what watches them:

* threadalloc: a block is freed by a stranger while its owner ends.  Page and directory
  are released by whoever comes last, so a counter off by one is a use after free or a
  leak (`CountersExact`, `NoUseAfterFree`, `NothingLost`, `OneOwner`); `cleanup()` repeats
  while others free (`CleanupTerminates`).
* readerwriterqueue: the empty test of the consumer against a producer that has gone on to
  another block (`FalseMeansEmpty`, `KeepsOrder`); a slot in use by both
  (`SlotsKeptApart`); a block reused while the consumer is about to enter it
  (`AssertionsHold`).
* ltalloc: lists of several lengths that must end up in batches of exactly one length
  (`ArraysInOrder`, with `CountersExact`); counts that grow stale behind the lists, and must
  still never let a counter or a cache out of its bounds (`CountersCover`); the lock dropped around a fetch, so that two threads install a chunk
  (`InOnePlace`, `NothingLost`); chunks given back while threads hold blocks
  (`ReleasedWhenUnused`, `BufferFits`); an array of batches that must never be full when
  one is added (`ArraysInOrder`).
* michael: credits in flight between the anchor, the active word and threads
  (`CreditsExact`); a stale pop (`ListExact`); a superblock that falls off every list
  (`NothingLost`).
* sizes: rounding at each bound, a size field that does not lead back to the chain, a
  reallocation that copies more than there is room for (`RequestFits`,
  `FreedWhereItBelongs`, `PagesTiled`, `Aligned`).
* MicroAllocator: the chunk found before the lock was dropped is used after it was taken
  again, while others add and remove chunks (`FreedWhereItBelongs`); the table must stay
  sorted though chunks come and go in any order of addresses (`TableExact`).
* the other pools: long sequences of legal calls after which a block is on a list twice or
  on none, memory is returned with a block in use, or a flag, bitmap, counter or list does
  not tell what is so (`Tiled`, `CountersExact`); a list for several sizes, and blocks
  reallocated in place (`RequestFits`, `AllocatesGivenBytes`).

## 4. The runs

Deadlock is not checked where a model stops for lack of what is bounded: all pages, chunks,
blocks or superblocks in use, or a queue destroyed.  It is checked in `survey`.

| run | bounds | shows |
|---|---|---|
| `ta_posix` | 2 threads, 2 directories, 2 pages of one block, 2 chains, 1 large block, threshold 0 | pthreads: nothing is freed early or lost, one owner, `cleanup()` ends |
| `ta_win32` | the same with 1 chain and 2 blocks to a page; scan frequency 1, count bounded by 2 | Windows: the scan by other threads; counters exact, the heap contract |
| `ta_period` | as `ta_win32` | finding 1 |
| `rwq_order` | 3 blocks of 2, 4 and 8 slots, at most 6 elements, labels modulo 5 | FIFO, slots kept apart, the asserts of the code, no false "empty", delivery |
| `rwq_destructor` | 2 blocks, at most 4 elements | finding 2 |
| `lt_classes` | 2 threads; a large class with 2 chunks of 3 blocks, batches of 2; a small one with 3 chunks of 2 blocks, batches of 2 in arrays of 1; the system may refuse memory to the large one | nothing lost or on two lists; a place for every batch; counters exact |
| `lt_squeeze` | 2 chunks of 3 blocks, batches of 2, both threads may squeeze, pad of 0 or 1 | only unused chunks are released; no block on two lists; counts never short of the lists; the heap contract |
| `lt_lost` | 2 chunks of 2 blocks, batches of 1 | finding 3 |
| `survey` | see below | size arithmetic, the radix tree, and the nine pools |
| `dumb_sizes` | requests of 64 and 72 bytes | finding 5 |
| `mi_heap` | 2 threads, 2 descriptors, 3 blocks to a superblock, 1 credit, 2 superblocks set up | credits, free lists, life of superblocks, the heap contract |
| `mi_reuse` | 2 blocks to a superblock, 3 superblocks set up | finding 4 |

The six properties of threadalloc that are proved (section 6) are spread over `ta_posix` and `ta_win32`, as
each of them holds on both platforms.

Why the bounds are enough to meet the interesting cases:

* threadalloc.  Two threads are an owner and a stranger; the owner can end, be cleaned up
  and start again while the stranger frees, and the addresses of its directory and pages
  are then used for others.  Two pages let one be given up while another stays.  Two blocks
  to a page (`ta_win32`) leave a page partly used; two chains (`ta_posix`) tell a block that
  goes back to a wrong chain.  A threshold of 0 makes pending requests be taken back as
  soon as there is one.  The threads are not symmetric: the main thread has no destructor.
* readerwriterqueue.  Three blocks are the least number at which a block that is neither
  front nor tail waits between them and is taken into use again.  Sizes double, so the
  index arithmetic wraps around 2, 4 and 8.
* ltalloc.  Three blocks to a chunk and batches of two leave chunks that do not divide into
  batches; the chunk addresses 1 and 3 are the nearest at which `ltsqueeze` looks at all.
  `lt_squeeze` has a view, `ByChunk`: the free blocks of a chunk that were carved are told
  apart only by the list they are on and their place in it.  Every action treats two such
  blocks alike, so states with the same view differ by a permutation of the blocks of a chunk,
  and no property depends on it; that a block may be in two places is in the view.  Blocks
  dropped by `ltsqueeze` while the other thread ends, and a list shorter than its size, do
  occur in these bounds: `CountersExact`, checked there, fails after 14 steps, and the walk past
  the end of the list is reached after 25.
  In the small class an array has one place for a batch of two, so that the second batch that
  comes back runs over into the neighbouring chunk, and the arrays empty in the other direction.
* michael.  One credit makes every allocation an update of the active word, three blocks
  leave the anchor a count above 0 at the same time.  Two superblocks are set up at most, the
  second one possibly in the descriptor of the first: with a third, `mi_reuse` finds a real
  error, after which `NoUseAfterFree` fails too.  `mi_heap` states what holds up to that
  point.
* survey, the sizes.  The real constants; requests at and next to every bound of the size
  tables; four keys that branch at three bits, two threads, every order of insertion and
  removal.
* survey, the pools.  Two or three blocks to a page, node or chunk and up to three pages: a
  page is full, partly used and empty while another one is on the same list, and the
  addresses of pages that went back come again.
  - MicroAllocator: the fixed chunk and two more at three addresses, two threads; the table
    is searched by halves from two entries on (the code: four), so that both searches occur.
  - ironpeter: bins of 1 and of 3 objects.  A node with a single object is never on a list.
  - tav: megablocks of 40 bytes and two sizes, so that two or three blocks fit.
  - dumb_tlsf: two regions of 40 bytes; requests that share no column with another size.
    Where several sizes share one, `AllocatesGivenBytes` fails: that is `dumb_sizes`.
  - winnie1: blocks of the system of 4 headers, split twice; one request above the threshold.
  - winnie3: two threads, a size with two blocks to a chunk and one with one.
  - tlsf: two pools of 176 bytes, at most three blocks in use, an aligned request whose gap is
    larger than a block.  With 4 second-level lists per power of two (the code: 32) and sizes
    up to 256, both bitmaps have several bits in use.

Properties and faults.  Each property of a passing run is violated by at least one seeded
fault under that run's own bounds.

Fairness.  `ta_posix` assumes that a thread inside a call is scheduled (`WF` on its steps);
that the application calls again, or that a lock is granted to a particular thread, is not
assumed.  `rwq_order` assumes that a call that was begun is finished and that the consumer
keeps calling, which is what its delivery is about; nothing is assumed of the producer
beginning a call.

## 5. Findings

1. `CheckIsPeriodic` (`threadalloc.cpp:290`).  The count of allocations between two checks
   for dead threads is incremented without a lock and compared with `==`.  A thread that
   read it before another one reset it can write it back above the limit: the test does
   not succeed again, and dead threads' memory is no longer looked for.
2. `DestructorFreesAll` (`readerwriterqueue.h:110`).  The loop of the destructor stops at
   `tailBlock`, which is freed only if it is the front block.
3. `SqueezeLosesNothing` (`ltalloc.cc:874`).  The batches that `ltsqueeze` regroups are
   hooked to `*pbatch` (874), which is then overwritten with the hook of `cc->firstBatch` (882).
   The list of blocks has the same fault when no block is left over that does not fill a
   batch: `pblock` (875) is then the address of the local `additionalBlocksList` and not of
   the end of the list, so that `cc->freeList` is saved where nobody looks (884) and replaced by
   `NULL` (885).  Blocks that a thread that ended, or another `ltsqueeze`, put there after
   the lists were detached are lost, and `cc->freeListSize` goes on counting them.  A cache
   that takes the list later starts with a counter that is too low, so that lists and batches
   come up short of `BATCH` from then on and the assertions at 441, 450 and 753 do not hold; and
   once the size is above `BATCH + 1`, `ltmalloc` walks a batch's length (475) along a list that
   may be shorter, to a null pointer.  `CountersCover` is what remains: the errors all go to
   the safe side, so no counter is negative and no cache grows beyond a batch.
4. `FreedWhenEmpty` (`allocator.h:1769`).  `free()` marks a superblock empty and later
   unlinks its descriptor without looking again; in between, the descriptor may serve
   another superblock.

5. `AllocatesGivenBytes` (`dumb_tlsf.cpp:28`).  A column of the table stands for several
   sizes from 64 bytes on, and the first block of a column is handed out whatever its size:
   a request for 72 bytes gets the 64 of a block freed before.

Met while modelling, without a run of their own:

* `ltalloc.cc:366` says the list of the central cache "should be less than batch size"; the
  threads that end add to it without a limit (`:754`), and the model's list has none.
* the assertion at `ltalloc.cc:450` does not hold after a failed fetch: `counter` was set
  before the fetch and stays 1 with an empty list.  The blocks freed after that come back in
  batches that are not whole.  In a class of the smallest blocks there may then be more batches
  than slots, since there are only as many slots as whole batches: with 6 blocks to a chunk,
  batches of 3 and 2 slots, TLC finds a behaviour of 23 steps of two threads after which no
  array has room, and the assertion at `ltalloc.cc:664` does not hold.  `CountersCover`,
  `CountersExact`, and `TypeOK` and `ArraysInOrder` of a small class, are therefore checked and
  proved where the system refuses no memory.  Where it does, `lt_classes` checks `InOnePlace` and `NothingLost` of
  a large class, and `RefusedTheorem` (section 6) has what is proved.
* ironpeter gives requests of up to 4 bytes objects of 4 bytes (`GRAN_ALLOC`, `iron.cpp:18`),
  and keeps the link of a free object in it (`:108`).  On a 64-bit build the link is longer
  than the object, and the links of neighbours overwrite each other.  `IronPeter`, which has
  lists as sequences, is about bins whose objects hold a link: all bins of a 32-bit build, and
  those from 8 bytes on of a 64-bit one.
* `realloc` of michael tests the block size the wrong way round (`allocator.h:1828`): to grow,
  the block is returned as it is, and to shrink, a new one is made.
* FSBAllocator2: `cleanSweep()` frees again, through `deallocate()`, elements that were counted
  when they were freed, so that the count reaches 0 and `freeAll()` runs while others are in
  use; it also takes a lock that it holds (`FSBAllocator.hh:459`).
* MicroAllocator: the lock is empty on Linux unless `LINUX` is defined
  (`MicroAllocator.inl:119`).  The models assume that it locks.  `releaseHeapManager` does not
  give the manager itself back.
* tlsf: `mapping_search` of a size whose rounding reaches `block_size_max` gives an index behind
  the lists (`tlsf.c:335`), and so does a pool of exactly that size.  From `block_size_max` on,
  `adjust_request_size` gives 0: `tlsf_realloc` then shrinks the block to nothing, where the
  comment says that "a request that cannot be satisfied will leave the original buffer
  untouched" (`tlsf.c:989`), and `tlsf_memalign` hands out a block without bytes.
* winnie1: `MSize` counts the header as room for the application, and `Realloc` copies that much.
* dumb_tlsf: `dsfree` of a block that came with more room than asked for files it under the
  smaller size.  A request of 0 bytes gets a block without room for the link that `dfree`
  writes.
* winnie2: `deallocate` passes a count of elements where `wfree` expects bytes (`winnie.hpp:75`),
  so a block goes to the list of another size and is not found again.  winnie3 and winnie4:
  `CleanThreadAllocatorState` leaves the lists as they are, so a thread must not allocate
  after it.  winnie4: its assertion on the size of a chunk accepts one that is smaller than a
  block, of which none is then cut.
* balloc: `bfree` pushes a block on itself instead of on its bucket (`balloc.cpp:63`), and an
  empty bucket is not noticed.
* uray: the counters of available objects are changed under no common lock, so updates are
  lost, and `borrowObj` then returns nothing, or does not return, although there are objects
  (`allocator.hpp:123`, `:142`).

## 6. Proofs

Seven components have theorems: threadalloc, readerwriterqueue, ltalloc, michael,
MicroAllocator, FSBAllocator, and winnie3 with winnie4.

The theorems about `ThreadAlloc` hold for any threads, directories, pages, blocks, chains and
either platform.  They rest on `ThreadAllocAssumption` only: finitely many pages and places in
a page, `NULL` apart from every address.

| module | theorem | states |
|---|---|---|
| `ThreadAllocProofs` | `OneOwnerTheorem` | `Spec => []OneOwner` |
| | `TypeOKTheorem` | `Spec => []TypeOK` |
| | `CountersExactTheorem` | `Spec => []CountersExact` |
| | `NoUseAfterFreeTheorem` | `Spec => []NoUseAfterFree` |
| | `NothingLostTheorem` | `Spec => []NothingLost` |
| | `KeepsContractTheorem` | `Spec => KeepsContract`: the refinement of `HeapContract` |

These are all the safety properties that `ta_posix` and `ta_win32` check, and each is proved
for both platforms at once.

`OneOwner` first.  It is not inductive: that a thread which begins `cleanup()` is alone with
its directory follows from what its thread-local pointer was before, which `OneOwner` does
not speak of for threads inside a call.  `OwnerInv` adds the layers `Types` (what each
variable holds), `Stages` (what a thread's locals hold at each place in the code: a thread in
`cleanup()` on pthreads has no directory of its own, on Windows it is inside `thread_alloc`),
and `Ownership` (a directory in use by a thread is allocated, not terminated, not waiting
for a scan, and used by no other).

The memory needs more, and none of its properties is inductive alone: that a page with
counter 0 can be freed rests on the counter being exact, that the counter is exact on a block
not being freed twice, that on the blocks being in one place each, and that on no page being
freed early.  `MemoryInv` is their conjunction with `OwnerInv`:

* `MemoryTypes` and `Locals`: types, and where in the code `target`, `taken` and `blk` are set;
* `Places`: a block is with the application, or with one call, or pending, or taken off, or on
  the chain of its page, never in two of these;
* `Living`: a block that is not back on a chain is on a live page;
* `CountersExact`: the property itself.  `CountsRemove` and `CountsAdd` are its two lemmas
  about cardinalities; every action is an instance of one of them or changes nothing that is
  counted.  `PageCount` and `DirCount` turn a counter of 0 or 1 back into a statement about
  blocks, which is how `cleanup()` and the last free use it;
* `Listed`: live pages are on the list of their directory; after the sweep and in a terminated
  directory each of them is in use, so none is left when the directory goes;
* `Attended`: a directory that is not terminated has a thread at work on it or waits for a
  scan, and `thread_list` has no directory that is being cleaned up.

There is a lemma for each of these layers and, where the action does more than one thing to
it, for each action.  For the refinement, `Users` is the term the contract's variable is
mapped to; `UsersInUse` shows it is 0 or 1, and `ContractStep` that every action is `Malloc`,
`Free` or `Move` of the contract or a stutter.

The theorems about `ReaderWriterQueue` hold for any finite set of blocks, any `maxSize` and any
number of labels, so for any number of blocks added and any sizes they reach.  They rest on
`QueueAssumption` only: `maxSize` is at least 1, and `NULL` is neither a block nor a label.

| module | theorem | states |
|---|---|---|
| `ReaderWriterQueueProofs` | `TypeOKTheorem` | `Spec => []TypeOK` |
| | `SlotsKeptApartTheorem` | `Spec => []SlotsKeptApart` |
| | `AssertionsHoldTheorem` | `Spec => []AssertionsHold` |
| | `FalseMeansEmptyTheorem` | `Spec => []FalseMeansEmpty` |
| | `RoomForMaxSizeTheorem` | `Spec => RoomForMaxSize`, an action property |
| | `KeepsOrderTheorem` | `Spec => KeepsOrder`: the refinement of `Fifo` |

These are all the safety properties that `rwq_order` checks.  Even `TypeOK` is not inductive:
that an index stays inside its block is, but that the element to construct is there is not.
`QueueInv` is the inductive invariant:

* `Types`: `TypeOK`, every block at least as large as the first, and `element` and `moved` set
  where the code uses them;
* `Contents`: a slot holds an element exactly if it lies between front and tail of its block,
  but for the one that the consumer has moved out, or if it is the one that the producer has
  constructed and not yet published;
* `Ring(r, n, k)`: there are n different blocks `r[1]`, ..., `r[n]` linked in a ring, front block
  first and tail block at k.  `ProducerAt` and `ConsumerAt` say what each thread may rely on at
  its place in the code: behind the front block a block up to k holds an element, and one after
  it holds none; the producer in `room` has room though it tested for it earlier, as the other
  thread only makes more; `tailBlockAtStart` is one of the first k blocks.

The last point is what the consumer's argument rests on: if `frontBlock` is not
`tailBlockAtStart`, the tail block is further on, so the next block is not empty.  For each
action there is a lemma (`RoomConstructKeeps`, ...) with the new ring where there is one: `Link`
puts a block into it after the k-th, and `EnterNext` turns it by one.

For the refinement, `Queue` must be followed through a step, and it is defined by a recursive
walk along `next` and by `FlattenSeq`, which is recursive too.  `WalkIs` shows that the walk
meets `r[1]` to `r[n]`, `QueueIs` that the queue is the elements of `r[1]` to `r[k]` put together,
and `RunIs`, `RunGrows` and `RunShrinks` what the modulus does at both ends of a ring buffer.
`Whole` is `QueueInv` with these facts.  Then each action has a lemma of its own: the queue gets
`sent` at its end (`RoomPublishQueue`, `AdvanceQueue`), loses `moved` at its front
(`ReleaseQueue`), or stays as it is.

Recursion.  The library's induction cannot be used, as it takes an operator as a parameter.
`SequenceLemmas` does without: `LeastNumber` says that a set of natural numbers has a least
one, from the well-foundedness of finite sets, and an induction is the remark that a set of
counterexamples has no least one.  In this way `Doubling` (`ceilToPow2`), `StepsExist`, the
lemmas about `FlattenSeq`, `WalkIs` and `AmongTakes` are proved for all inputs.

The theorems about `LtAlloc` hold for any finite sets of threads and chunks, any number of blocks
to a chunk, any length of a batch, and a class of either kind.  They rest on
`LtAllocAssumption`: chunk addresses are positive, `NULL` is none of them, the arrays of a small
class have slots for all blocks of a chunk in whole batches, and the squeezers are threads, of
which a small class has none.

| module | theorem | states |
|---|---|---|
| `LtAllocProofs` | `TypeOKTheorem` | `Spec => []TypeOK` |
| | `InOnePlaceTheorem` | `Spec => []InOnePlace` |
| | `KeepsContractTheorem` | `Spec => KeepsContract`: the refinement of `HeapContract` |
| | `ReleasedWhenUnusedTheorem` | `Spec => []ReleasedWhenUnused` |
| | `BufferFitsTheorem` | `Spec => []BufferFits` |
| | `PadBoundedTheorem` | `Spec => []PadBounded` |
| | `CountersCoverTheorem` | `Spec => []CountersCover` |
| | `CountersExactTheorem` | `Spec => []CountersExact`, where `ltsqueeze` does not run |
| | `ArraysInOrderTheorem` | `Spec => []ArraysInOrder` |
| | `NothingLostTheorem` | `Spec => []NothingLost`, where `ltsqueeze` does not run |
| | `RefusedTheorem` | `InOnePlace`, `ReleasedWhenUnused`, `BufferFits`, `KeepsContract` of a large class when memory may be refused |
| | `NothingLostRefused` | `NothingLost` of the same, where `ltsqueeze` does not run |
| `LtAllocClassesProofs` | `ClassesTypeOKTheorem` | `Spec => []TypeOK` |
| | `ClassesInOnePlaceTheorem` | `Spec => []InOnePlace` |
| | `ClassesNothingLostTheorem` | `Spec => []NothingLost` |
| | `ClassesArraysInOrderTheorem` | `Spec => []ArraysInOrder` |

These are all the safety properties of `lt_squeeze` and of `lt_classes`.  `NothingLost` and
`CountersExact` are stated without `ltsqueeze`, because with it they are false (finding 3);
`ArraysInOrder` of `lt_classes` includes `CountersExact` of the small class, which is never
squeezed.

`InOnePlace` counts occurrences in all lists together, which no step can be followed through.  The
invariant says the same the other way round: there are functions `kind` and `who` on blocks that
say where each block is (with the application, in a cache, in the batch put aside, in a batch or
the list of the central cache, not carved yet, detached as part of a batch or of the list, in a
chunk being installed or given back, in the pad, or the system's) and which thread has it there,
such that whatever stands on a list has that list's account (`Accounted`).  A block has one
account, so two lists with different accounts have no common block, and it remains to say that
none has a block twice (`NoRepeats`).  The functions are quantified in each state: a step is
shown to keep the invariant by naming the new ones, which differ only on the blocks that move
(`Moves`), and `Kept` then carries over the account of every list that the step leaves alone.

* `Types` has more than `TypeOK`: batches are not empty, a thread that fetches has empty lists,
  what is detached exists exactly while `ltsqueeze` is at work, and no list is longer than its
  size says.
* `ServingAcc`: the chunk of a block in service is between the two addresses of the class, and of
  a small class is listed.  The buffer of `ltsqueeze` was made for the addresses as they were, and
  `DetachedAs` keeps for each thread that its detached blocks were inside them (`BufferFits`).
* That a chunk is wholly free is decided by counting: `WhollyFreeListed` shows that a count equal to
  the number of blocks means every block is among those detached, by cardinality; hence none is
  with the application or on another list (`ReleasedWhenUnused`).
* `Regrouping` is what `ltsqueeze` puts back: the blocks of `Among`, of batches joined by
  `FlattenSeq` and cut into batches again, are some of the detached ones, each once.
* `Arrays` and `Counted` are the counts, which `Inv` does without: a batch has at most `BATCH`
  blocks, and a counter is at most what the cache lacks to a batch; both exactly, where there is
  no squeezer (`Whole`, `Told`), which with `ListTold` for the central list is one invariant for
  `CountersCover` and `CountersExact`; the arrays before `chunkWithFreeBatches` are full
  and those after it empty.  `RoomForBatch` is the point of the assertion at `ltalloc.cc:664`: were
  all arrays full while a thread has a batch in hand, there would be more blocks than in the
  chunks listed.  It needs the exact counts and the accounts together, so for a small class the
  two halves are proved as one (`IInv`); a large class does not need it, and that is why
  `RefusedTheorem` holds.

For each action there is a lemma with `Inv` (`CarveKeeps`, ...) and one with the counts
(`CarveCounted`, ...).

`NothingLost` is the converse of `Accounted`, and is about what is there and not about what is
listed: a block that a section under the lock forgets breaks it and nothing else.  `AllHeld`
says that every block of a mapped chunk is `Held`: with the application, in a thread's cache
(`Cached`), in the central cache (`Central`, or on its list), not carved yet (`ToCarve`), or in a
chunk that a thread is about to install (`Coming`).  `NoneLeft` is needed with it: a chunk that has no
more blocks than a batch is carved whole, so that `Hooked`, which drops what the end of the last
chunk was, drops nothing.  `Unsqueezed` says that nobody is in `ltsqueeze` and no chunk in
the pad.  Each action takes places away and has a lemma on where the blocks of these went;
`HeldListed` leads back from the places to `AllLists`, over which the property is stated, and
uses the accounts to tell a chunk in service from one that is only coming.

`LtAllocClasses` instantiates `LtAllocProofs` for either kind, so the lemmas about an action
come with each instance, and its own proofs need only say which hold where: a small class keeps
the whole invariant (`SmallIInv`), a large one, which may be refused memory, the part without the
counts (`LargeIInv`).

The theorems about `MichaelHeap` hold for any finite sets of threads and descriptors, any
capacity from 2 to 2048 and any limit of credits, so for any number of superblocks and any
depth of interleaving.  They rest on `MichaelAssumption`.

What it promises is not true of every behaviour (finding 4): `free()` empties a superblock and
in a later step takes it off the list and releases it, without looking at the anchor again.
The theorems say that nothing else is wrong.  `StillEmpty` is the condition that this step
finds the superblock empty, and `CarefulSpec` is `Spec` with it; a code that looked again
would satisfy it.  Then two theorems about `Spec` itself say when it need not look.
`Promises` is the conjunction of the six formulas above them.

| module | theorem | states |
|---|---|---|
| `MichaelHeapProofs` | `CreditsExactTheorem` | `CarefulSpec => []CreditsExact` |
| | `ListExactTheorem` | `CarefulSpec => []ListExact` |
| | `NoUseAfterFreeTheorem` | `CarefulSpec => []NoUseAfterFree` |
| | `NothingLostTheorem` | `CarefulSpec => []NothingLost` |
| | `FreedWhenEmptyTheorem` | `CarefulSpec => FreedWhenEmpty`, an action property |
| | `KeepsContractTheorem` | `CarefulSpec => KeepsContract`: the refinement of `HeapContract` |
| | `DescOnceTheorem` | `Spec` keeps all six as long as no descriptor is used for a second superblock |
| | `OneThreadTheorem` | `Spec` keeps all six when there is one thread |

The condition is not one that nothing meets: every behaviour of the instance of `mi_heap`
satisfies it, and so does every behaviour with one thread, whatever it reuses.  `IInv` was
also checked with TLC under `CarefulSpec` where descriptors have several lives: two threads
with superblocks of two blocks, set up four times; of three blocks and two credits (two
million states); and three threads.

No property is inductive alone.  That a count can be trusted rests on each superblock being in
one place, since two threads that both believed they had it would both give its credits out;
that rests on the state in the anchor, which decides who puts it where; and the state changes
where the count says so.  `IInv` is their conjunction:

* `OnePlace`: a superblock is active, or in `pPartial`, or on the list, once, or one thread
  `Owns` it: it has it between two places, or holds credits of it that are not in the active
  word.  A thread that popped with an ordinary credit owns nothing.
* `Somewhere`: a superblock that is in no such place is full.  This is `NothingLost`, and why
  the thread that makes it not full puts it on the list.
* `States`: the active superblock is `ACTIVE`, those that wait are `PARTIAL` or `EMPTY`, a
  partial one has a block left and a full one none.
* `ThreadsOK`: between the load of an anchor and the CAS, what the thread has read is still
  true unless the tag was changed (`stale`): the whole argument about ABA.
* `Counts`: `CreditsExact` with `More(d)`, the credits that one thread carries, instead of a
  sum over threads.  `ReservedIs` shows they are the same, as `OnePlace` lets one thread at
  most carry any.  Of a superblock that does not serve nothing is out, so that an empty one can
  be set up again.
* `Chains`: there is a sequence through the unused blocks, each once, that follows the links
  from the anchor on.  A pop takes its first element away and a push puts one before it
  (`ChainTail`, `ChainFront`); `PopperHas` is where the two halves meet: a thread that has
  reserved a block makes the count of the unused ones positive, so the first of the chain
  exists, and nobody uses it.

For each action there is a lemma that it keeps `IInv`.  `StillEmpty` is used in that of `Unlink`
only.  `EmptyStays` takes its place in the last two theorems.

The theorems about `MicroAllocator` hold for any threads, any number of chunks, blocks to a chunk
and chunk lists, and any places for them.  They rest on `MicroAssumption`: addresses are numbers,
`NULL` is none of them, and between two blocks of the C library there is at least its header
(`findChunk` looks left of a chunk for the address where it ends, so this is needed).

| module | theorem | states |
|---|---|---|
| `MicroAllocatorProofs` | `FreedWhereItBelongsTheorem` | `Spec => []FreedWhereItBelongs` |
| | `TiledTheorem` | `Spec => []Tiled` |
| | `TableExactTheorem` | `Spec => []TableExact` |

None of the three is inductive.  A call of `heap_free` finds a chunk under the lock, gives the lock
back, and uses the chunk under the lock again; what others do between must not take its memory
away.  It cannot, because the block is not back yet: the chunk's counter counts it, and a chunk
gives up its memory at 0.  So the counter must be exact, the blocks of different chunks apart,
and the chunk found the right one, which is the table's business.  `MicroInv` is their conjunction:

* `Types`; `Spaces`: no two chunks share memory, nor does one with a block of the C library;
* `OneUser` and `Known`: a block in use, or on its way back, is so once, and lies in a chunk that
  has memory or is the C library's;
* `FreedWhereItBelongs` and `TableExact`, the properties themselves, and `TiledAt(c)` for each chunk,
  which is `Tiled` chunk by chunk: the blocks of a chunk in use are those that `Busy` has in its
  area, so a step in one chunk leaves the others as they are (`OthersTiled`).

`SearchFinds` says what the search by halves returns: the place of the chunk with the address,
or 0 if there is none.  `Search` is a recursive function.  The lemma gives a closed form
between any two bounds, shows that it satisfies the recursive equation, so that the function
exists, and then that any function that satisfies it finds what is there: of all stretches of
the table where it does not, take the shortest, which the step leads to a shorter one.
`TableWith` and `TableWithout` are what `addMicroChunk` and `removeMicroChunk` do to a sorted table, by
insertion in the right place and by removal of the first entry that matches.

`PoolsProofs` is about the specification in which one of the pools runs (`PoolsSpec`: the
variable `part` says which, and its next-state relation leaves the variables of the others
alone).  For each pool it has the invariant under the condition that this pool runs
(`MicroPart`, `FsbPart`, `Fsb2Part`); a step of another pool keeps it because the condition is
false.  The theorems hold for any memories, finitely many or not, and any number of elements to
a block; they rest on `PoolsAssumption`, of which each uses its pool's part: `MicroAssumption`;
for `FSBAllocator` that a block has at least two elements; for `FSBAllocator2` that there is a
memory and a block has an element; for `WinniePool` that a chunk has a block.

| module | theorem | states |
|---|---|---|
| `PoolsProofs` | `TableExactTheorem` | `PoolsSpec => []TableExact`, a property of `survey` |
| | `FoundAgainTheorem` | `PoolsSpec => []FoundAgain`: `FreedWhereItBelongs` of `MicroAllocator` and `FSBAllocator` |
| | `FSBTiledTheorem` | `Tiled` of `FSBAllocator` |
| | `FSBCountersExactTheorem` | `CountersExact` of `FSBAllocator` |
| | `FSB2TiledTheorem` | `Tiled` of `FSBAllocator2` |
| | `FSB2CountTheorem` | `CountExact` of `FSBAllocator2` |
| | `WinnieTiledTheorem` | `Tiled` of `WinniePool` |

FSBAllocator writes the index of a block behind an element when it first hands the element out, and not
again.  That it is right later, when the element was taken from the list, does not follow from
the indices of the elements in use; `FsbKept` therefore says that the index is right behind every
element the block ever handed out of the memory it has.  Memory that was given up and comes back
to another block starts from its first element, so each index is written anew before it is
read.  The rest of `FsbKept`: no two blocks have the same memory; a block's list and the elements
of its memory in use make up what was handed out (`BlockOK`), and the counter is their number;
the stack has each block that is not full, once.  The last is why `deallocate()` may put a block on the stack when
it was full: it was not on it.  `Replaces` is the shape that both actions have: one block
changes, and only elements of its memory come or go.

`Tiled` and `CountExact` of FSBAllocator2 need each other.  `deallocate()` gives all blocks back
when the count reaches zero, which keeps the elements tiled only if the count is exact; and the
count is exact only if no element is handed out twice.  `Fsb2Inv` is their conjunction with
`Fsb2Types`, which says that the list of blocks is never empty, so that there is a block to hand
out from and one to keep, and that no memory is on it twice.  The rest of the argument is that a
new element was not handed out before: from the last block because of `headIndex`, from a new
one because its memory was not held.

`WinnieInv` of winnie3 and winnie4 is in terms of chunks and free lists by thread and size
(`WinnieKept`): each memory is a chunk of one thread and one size; each block of it is in use or
on one list of that size, whichever thread's, once.  To this it adds `RegisteredIs`: the sizes a thread has
registered are those it has chunks of.  Clean-up walks the registered sizes, so without it the
theorem could not say that all chunks of a thread are given back.  That no other thread's block goes with
them is what `KeptApart` asks of the caller, and is used only there.  A chunk has a block because
of `WinniePoolAssumption`; winnie4's assertion allows a chunk too small for one (section 5).

Only model-checked: the properties of `survey` other than `TableExact`, that is the size
arithmetic with the constants of the code, the radix tree, and the pools that the theorems above do not
name.  `Survey` reaches the recursive operators and the bit operations of `PTrie`, so its
own properties cannot be stated as theorems; those of `Pools` can, which is where the
conjuncts of `Survey.FreedWhereItBelongs`, `Tiled` and `CountersExact` are proved that belong to
MicroAllocator, FSBAllocator and `WinniePool`.  Liveness (`CleanupTerminates`, `Delivered`) is out of the
prover's reach.  So every safety property of `ta_posix`, `ta_win32`, `rwq_order`,
`lt_classes`, `lt_squeeze` and `mi_heap` is a theorem, that of michael on the condition
`StillEmpty`, and `NothingLost` of ltalloc, as `lt_classes` has it, without `ltsqueeze`.

## 7. What is not modelled

* Memory weaker than program order, in readerwriterqueue and in michael.
* threadalloc: requests within 24 bytes of the largest `size_t`; a failing `malloc`.
* ltalloc: destructors of thread-local objects that allocate after the cache was
  released, `ltmemalign` of 0 bytes, the mapping of aligned regions (`sys_aligned_alloc`),
  the timer in `ltrealloc`, a failure of the buffer of `ltsqueeze`, the 32-bit build.
* michael: several processor heaps at once (they share only blocks freed by strangers,
  which `free()` treats as any other), the page cache, `realloc`, `alloc_aligned`, the bound
  checker, the heap's destructor.
* MicroAllocator: the other sixteen sizes at the same time, which share only the table; a
  failing C library; the end of a heap manager.
* FSBAllocator: `cleanSweep()` (section 5), the STL adapters.
* tav: the choice of a context by thread or mode, requests above `MAX_BLOCK_SIZE`, the
  statistics.
* dumb_tlsf: requests that go to `malloc()`; `dset_alloc_size` while there are regions.
* tlsf: sizes from `block_size_max` on (section 5), the walkers and checkers of the debug build.
* winnie1: the build without the threshold; `MSize` and the bytes that `Realloc` copies.
* Pools: memory that the system refuses, except where the pages of the bound are used up: the
  call is then not made.
* winnie2: what `WinniePool` has for one thread.  balloc, uray: unfinished.
  tlsf0 and tlsf1: `Tlsf` stands for them.
* The allocators marked so in `PROJECT.json`: large third-party code (dlmalloc, nedmalloc,
  lockless, boost, hoard, jemalloc), wrappers of libraries that are not here, and the
  benchmark.  They are by far the most lines of the repository, and it uses them as they are.

## 8. Plan

In this order; each step keeps the shape of what is there.

1. Proofs about the other pools, on the pattern of `PoolsProofs`: `Tiled` of `WinnieAlloc`
   and of `MBAlloc`, whose sizes are powers of two.  Those of `IronPeter` come last: its lists are
   filtered with a recursive operator.
2. michael: size classes and `realloc`, with the page cache.
3. A second context of tav, and the choice between them.
