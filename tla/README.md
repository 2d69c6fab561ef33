# iTaro in TLA+

iTaro is a cache server in three layers: `src/usmm`, a memory manager whose memory is a shared
mapping that outlives the process; `src/cache`, a dictionary with its strings and objects; and
`src/engine`, network front ends, of which the working one is a memcached server (`memcache.cc`).
This directory models the parts that keep state, checks them with TLC on small instances, and
proves with TLAPS, for every value of the constants, nearly all of the safety properties that the
runs check and the four refinements.

Contents: 1 inventory, 2 what is hard, 3 modules, 4 runs, 5 assumptions, 6 fairness,
7 findings, 8 further claims that fail, 9 proofs, 10 what is not modelled, 11 plan.

## 1. Inventory

| component | state | operations | module |
|---|---|---|---|
| slab bitmap, `usmm/bitmap.c` | one bit for each 2 MB slab of the mapping | set and clear a range, find a run of zeros | `Bitmap` |
| memory manager, `usmm/usmm.c`, `usmm_slab.c`, `list.h` | the bitmap; lists `free_slabs`, `full_slabs` and one for each size class; a header in each slab (class, count, chain of free slices); counters | `usmm_init`, `usmm_heap_alloc/free`, `usmm_slice_alloc/free` | `Usmm`, `RegionAlloc` |
| crash and reload, the same files | the mapping survives the process, the call in progress does not | each single write of `usmm_init` and of the four calls; a crash; a reload | `UsmmCrash` |
| size classes, `usmm.c` | none (a table of 41 sizes) | `usmm_slab_find` | `SizeClass` |
| root slots, `usmm.c` | an array of pointers | set, get, append | - |
| dictionary, `cache/dict.c` | two tables, `rehashidx`, the number of safe iterators, the global `dict_can_resize` | add, replace, delete, find, fetch, random key, resize, expand, rehash, empty | `Dict`, `DictMap` |
| cursor scan, `cache/dict.c` | kept by the caller: a cursor | `dictScan` | `DictScan` |
| iterators, `cache/dict.c` | table, bucket, the current and the saved next entry | get, next, release | `DictIterator` |
| strings, `cache/sds.c` | the header (`len`, `free`) and the bytes of a string | make, grow, append, copy, trim, cut, map, compare; split, join, quote | `Sds`, `SdsText`, `Text` |
| accounting, `cache/zmalloc.c` | `used_memory` and the size word in front of each block | allocate, reallocate, free | `Sds` |
| objects and cache API, `cache/cobj.c`, `cache.c` | a typed value | add to and subtract from a number kept as a string; set, get, delete, one call of the dictionary each | `Sds`, `Dict` |
| a shard of the memcached server, `engine/memcache.cc` `class cache` | items with reference counts and versions, the hash set, a timer set with its timer, a flush timer, the size counter | set, add, replace, remove, get, cas, incr, decr, flush, expire, evict | `CacheShard`, `ItemStore` |
| protocol and front ends, `memcache.cc` `sharded_cache`, `ascii_protocol`, `tcp_server`, `udp_server` | per connection: the parsed command, the insertion, the results so far, the answer; tasks on the way between cores | `handle` for each command, the routing of keys to cores, accept and receive, the answer, `stats` | `Memcache`, `MemcacheProtocol`, `MemcacheService` |
| engine skeleton, `engine/server.*`, `session.*`, `proto.*`, `bucket.hh` | declarations, empty handlers | - | - |

How they interact. The two levels of `usmm` share the slabs: a slab belongs to a heap block or to
the slice level, which `usmm` records twice, in the bitmap and in the lists. The size class of a
slice is computed when it is taken and read back from the slab header when it is given back. The
dictionary runs in one thread; what overlaps with its operations is the migration between its two
tables, an open iterator and a scan whose cursor the caller carries over. The memcached server has
one shard for each core and no locks: a command runs to its end, but its result, a reference to an
item, lives until the network has sent it, and timers and the slab allocator's evictions come in
between. A protocol object is on the core of its connection; a command on a key of another core is
sent there as a task that does not carry the key and the data but refers to where the protocol
object keeps them, and its result comes back as a message. The strings of `sds.c` get their blocks
from `zmalloc.c` and are the keys and values of the dictionary; `cobj.c` keeps numbers in them.

What makes each part correct. `usmm`: memory is not given out twice, a slice keeps its size while
it is held, the lists, chains and counters agree, a refusal means there is no room, a restart leaks
memory at worst. The dictionary: it is a map whatever the migration does, the migration ends, a
scan and a safe iterator miss nothing that stays. The shard: an item's memory is reused only after
its last reply, sizes and timers are exact, no `cas` loses an update; to its commands it is a map whose
entries may be lost. The front end: each command takes effect on each of its keys at one moment
between its arrival and its answer, whichever core the key is on, what a task refers to stays in
place until it has run, and every command is answered. The strings: header, block and accounting
agree, each operation does to the bytes what it says, what is quoted or split can be put together
again.

## 2. What is hard here

`PROJECT.json` lists each hazard at its line. In short:

* the same fact kept in two places (bitmap and lists, chain and count, list and counter);
* a crash between any two writes to memory that another process will trust;
* arithmetic at boundaries (runs of slabs that end inside a byte, seven ranges of sizes,
  sizes and counts that wrap);
* a migration that every call moves one bucket further, under open iterators and scans;
* references that outlive the item they point to;
* timers that are rearmed only when the timer set says so;
* messages between cores: the parts of one command run and answer in any order, among the commands
  of others, and refer to an object that stays behind;
* an allocation that fails half-way through a write, on another core than the one that answers;
* a length and a room kept by hand on some twenty paths, where an error of one writes behind the
  block;
* overflow tests before additions, quoting that another function must undo.

## 3. Modules

### Usmm, Bitmap, RegionAlloc (`usmm.c`, `usmm_slab.c`, `bitmap.c`, `list.h`)

| TLA+ | code |
|---|---|
| `slab_bitmap` | the slabs whose bit is **0**, i.e. free (`bitmap_clr_range` removes from the set of 1 bits, so it adds here) |
| `free_slabs`, `full_slabs`, `slabs` | the lists, as sets of slab numbers |
| `header[s]` | `usmm_slab_t` at the start of slab `s`: first word (magic, or the length of a heap block, which overlays it), slice class, `used`, the chain as a set of slice numbers |
| `stat_*` | the counters of `usmm_t` and `usmm_slice_stat_t`, except `ops`, which only counts calls |
| `heaps`, `slices` | what the application holds (the code has no such variable) |
| `died` | an `ASSERT` failed or a `list_del` followed a link that is zero or, in a held block, the application's |
| `HeapAlloc`, `HeapFree`, `SliceAlloc`, `SliceFree` | the four calls, each one action with all it does: the move between lists, the header, the counters |
| `bitmap_find_range` | the set of answers the search may give; its branches are written as they are in the code, the faulty mask included |

A list is a set: the code takes the first entry and the model any, so what holds in the model
holds for whatever order the lists are in. `RegionAlloc` is the promise: a set of disjoint regions
of memory that are granted and returned; `ImplementsRegionAlloc` says that `Usmm` implements it,
with the regions computed in bytes (`HeapCells`, `SliceCells`), so that a wrong offset or a wrong
number of slices breaks it too.

The bytes of a heap block behind its length word are the application's as soon as `usmm_heap_alloc`
has returned (`usmm.c:208`). So when a block is cut out of one that is held, `list_del` follows
whatever the application put there: `ListDelDies` lets it end the process or go on, and when it goes
on the slabs are given out twice. Nothing in the lists keeps heap blocks apart, only the bitmap does.
What the manager may then read of other overwritten words, or write through such links, is left out:
past an overlap the model has some of the program's behaviours, which is enough to refute a property
and never used to confirm one.

`Spec` is every order of calls. `DocSpec` is the usage the project documents, in the lengths for which the
search is sound (section 5).

### UsmmCrash (the same code, one write at a time)

The persistent variables are what is in the mapping; `op` is the call in progress with its local
variables and the place it stands at. `Start` and its successors are `usmm_init`; `AllocReuse` /
`AllocFresh` .. `Return` are `usmm_slice_alloc`; `FreePush` .. `Release` are `usmm_slice_free`;
`HeapFind` .. `HeapReturn` are `usmm_heap_alloc`, slab by slab, and `HeapGive` .. `HeapClear` are
`usmm_heap_free`. The search finds any run of clear bits; its branches are in `Usmm`. `Crash`
forgets `op` and starts the next process, which reloads when the magic is in place. A slice counts
as `held` (a heap block as one of `blocks`) from the return of the allocation to the call that frees
it, and stays held across a crash, because the application keeps its data in the mapping as well.
`node[s]` is the state of a slab's list node: `list_del` poisons it and `list_add` links it.

### SizeClass

`usmm_slab_find` on all sizes, its bands as records instead of nested `if`s (six of them, and
the sizes up to 8), and the conversion of `size_t` to `int` at its call, where `INT_MAX` stands for
2^31 - 1. The run gives it 19 bits, so that sizes wrap to negative ones and to small ones again.

### Dict and DictMap

`d` is the `dict`; a table is the set of its entries, each with its bucket `idx`. Operators on a
dictionary value have the names of the static functions (`_dictRehashStep`,
`_dictExpandIfNeeded`, `dictRehash`, `dictExpand`...); an action composes them in the order the
code does. `NextBucket` is the loop over empty buckets. `MAX_SIZE` stands for `LONG_MAX`, the
largest table `_dictNextPower` answers with. `DictMap` is the promise: one map, each
call atomic. `ImplementsDictMap` is the refinement, with the union of the two tables as the map.

### DictScan

One key, the two table sizes, `rehashidx` and the caller's cursor. The other keys matter only as
reasons to resize or for buckets to be empty, so resizes and migration steps are free to happen
between calls. `rev` is the bit reversal (`Reversed[k]` reverses the k lowest bits, `Pow2` are the
powers of two), `Advance` the reversed increment, `Expansions` the loop
over the larger table. `widest` is a history variable: the largest table a cursor of this
iteration came from.

### DictIterator

Chains are sequences here, since a safe iterator saves the entry *after* the one it returns; values
are left out. `Moved` pushes the entries of a bucket one after the other onto their new chains, so
the order in which they stand there is the code's. `MAX_SIZE` stands for `LONG_MAX` as in `Dict`.
`seen`, `again` and `steady` are history: keys returned, returned twice, present all along.

### CacheShard (`class cache`)

`c` holds the items by the memory chunk (`Slot`) they live in, `_cache`, `_alive` (the timer set),
`next` (its earliest time, as `timer_set::insert` compares against), `_timer` and `_bytes`. The
methods are operators from one such record to the set of those it may leave behind, because an
allocation may evict several items or fail in the middle: `Insert` is the allocation with
everything it evicts, `add_overriding` erases before it allocates, exactly in that order.
The count of an item is a `uint16_t` (`memcache.cc:106`) and wraps: `RefModulus` stands for 2^16.
`HoldersFit` says that it can tell all the references there may be, which the code does not see to.
`reply[r]` is the item the unsent reply of connection `r` refers to, `token[r]` what its last
`gets` returned. A command or timer callback is one action, since a core runs each to its end.

`ItemStore` is what the shard promises: a map from keys to entries in which a step stores one key
anew, with the next version, and any step may lose entries. `ImplementsItemStore` is the
refinement; the map is what `_cache` and the chunks hold (`EntryOf`), so an item that stays
reachable in freed memory, or an overwriting that forgets the version, breaks it.

External, modelled from how `memcache.cc` uses them: Seastar's slab allocator (it evicts items
with `is_unlocked()`) and `timer_set`.

Left out: the growth of the bucket array, hit and miss counters.

### Memcache, MemcacheProtocol, MemcacheService (`sharded_cache`, `ascii_protocol`, the servers)

| TLA+ | code |
|---|---|
| `Command`, `Request` | what the parser leaves in `_parser` after a command; those a connection's client sends |
| `Home`, `At` | `get_cpu` of a key; the core of a connection |
| `shard[i]` | `_peers.local()` on core `i`: an `ItemStore`, since that is what `CacheShard` implements |
| `conn[c]` | the connection or UDP channel with its `ascii_protocol`: `_parser`, `_insertion`, the results of the futures it waits for (`got`, for a get of many keys `_items`), the answer |
| `mail` | the tasks of `invoke_on` and their results, on the way |
| `Receive`, `Dispatch` | the parser's future and its continuation, the switch in `handle` |
| `Start`, `RunHere` | the calls of `sharded_cache`: on the connection's own core at once, on others as a task; `flush_all` and `stats` on all |
| `Execute`, `Deliver` | a task runs on its core, reading key and insertion by reference; its result fulfils the future |
| `Respond`, `Flush` | the continuations that write the answer, the exceptions included; `flush`, and `respond` of the UDP channel |
| `Accept`, `Close`, `Refuse` | the accept loop; a connection at its end; a datagram that is one of several |
| `Lose` | the expiration and the flush timer of a shard (`CacheShard` has them in detail) |

`MemcacheService` is the promise of the whole server to a client: one store, on which each part of a
command takes effect at one moment while the command is at work. A command on one key has one part,
a get has one for each key, `flush_all` and `stats` one for each core, so only commands on one key
are atomic, which is what the code offers. A write may find no memory, and the answer is
`SERVER_ERROR`. Then the key's old value may be lost (`add_overriding` erases first) or not
(`prepare_insertion`, `memcache.cc:973`, and the text of a new number, `memcache.cc:600`, are made
before). `ImplementsService` is the refinement: cores, messages and references do not show.

`PrepareFails` is the failure before a write reaches its core (`memcache.cc:973`).

What is abstracted. `got` is a function of the parts, so the order of the items in an answer is
left out. The insertion of the last command is forgotten when the next one is parsed, since no
command reads it before setting its own. Datagrams arrive in any number and order, as `Receive`
may happen at any time; a lost one is one that is not received. Answers have no layout and no
fragments; a datagram shorter than its header is dropped without effect. At the bound on versions
a write throws, as one that finds no memory. The counters of commands and hits are left out.

### Sds, SdsText, Text (`sds.c`, `zmalloc.c`, `cobj.c`)

| TLA+ | code |
|---|---|
| `m` | one string: `len` and `free` of the header, the bytes up to the one that ought to be the NUL (`buf`), the size of its block, and `used_memory` |
| `zmalloc`, `zrealloc`, `zfree`, `zmalloc_size` | the accounting, with each function's own idea of the size of the block |
| `sdsnewlen` .. `dictSdsKeyCompare` | the functions of those names; `Write` is their common tail (bytes, NUL, `len`, `free`) |
| `sdscatfmt`, `AddPiece`, `Piece` | the loop over the format, with `len` and `free` kept piece by piece |
| `cobj_incrby`, `cobj_sds_decrby` | the test of the range before the sum, `strtoll`, the string that replaces the old one |
| `sdssplitlen`, `sdsjoin`, `sdscatrepr`, `sdssplitargs` | on texts; the array of tokens with its slots |
| `Places`, `NextPlace` | the loop of `sdssplitlen`, place by place: `at` is `j`, or behind the separator it found |
| `Readings`, `NextByte` | the two loops of `sdssplitargs`, byte by byte: `mode` says which loop and, by `inq` and `insq`, which branch of it |

A byte that a function does not write, because a copy is too short or a buffer is cut, reads as
`Junk`, which is no `Byte`. `Text` says what the functions mean to their user, without room or
memory: `Trimmed` is a characterisation and no algorithm, `Slice` counts from both ends.
`sdsmapchars` with letters stands for `sdstolower` and `sdstoupper`. The build is the one without a
`malloc_size` of the platform; the process has one thread; a `malloc` that fails ends it. The buffer
of `sdscatvprintf` is allocated and freed within the call.

A byte is written as a string of one character, but for NUL, the space (`"SP"`), the double quote
(`"DQ"`) and the control characters (`"LF"`, `"HT"`, ...), which have names. `sdssplitargs` takes at
most one step for each byte, one to end the last token and one to see the end, so its answer is
what has been read after `Len(s) + 2` steps.

### Proof modules

`<module>Proofs` holds the theorems about `<module>` (section 9). What is to be proved about is
written without RECURSIVE operators: sums and loops are folds or recursive functions (`Digits`,
`sdscatfmt`, `Moved`, `Reversed`, `Places`, `Readings`). The theorems about `SizeClass` are in
`UsmmProofs`, those about `SdsText` in `SdsProofs`.

Modules `MC*` give constants their values. The modules also hold mutated forms of some definitions,
next to the definition they vary and used nowhere else (`FullForFree` beside `SlabFor`, `Peek`
beside `Pop`, `AnyCached` beside `Evictable`...), each under a comment that starts with
"Mistake": forgotten counts, unlinks and masks such as a
plausible bug would leave. Each property of a passing run fails when the definition it is paired
with under `mutants` in `PROJECT.json` takes its mutated form, so none holds by construction.

## 4. Runs

Passing runs:

| run | question | bounds, and why they are enough |
|---|---|---|
| `usmm_shared` | do bitmap, lists, chains and counters agree after any calls, is memory given out once, is a refusal justified? | 7 usable slabs, classes of 3 and 2 slices, heap blocks of 2 and 6 slabs, at most 5 slices held (constraint). A block of 6 leaves one slab for two classes, so refusals happen; 5 slices fill, empty and recut two slabs. 101 911 states |
| `usmm_heap` | is a slab given out once, whatever blocks are taken and freed at any time? | 24 slabs, three bytes of bitmap: blocks of 2, 5, 8 and 16 slabs take the one-byte branch and the branch of several bytes, a request for one slab fails the `ASSERT`. 4 914 states |
| `crash_serving` | what does a crash at any write leave to the next process? | three slabs, two classes of two slices, heap blocks of two slabs, which may lie in two places: a block, what a crash left of another one and a slab of slices meet; two crashes: the second meets what the first left. 1 895 331 states |
| `sizeclass` | is the class of each size an `int` holds the smallest that fits, is such a size refused just when it is above 128 kB, is the class found again at the free? | every size to 660 000, with 262 143 as the largest `int`: past the largest class (128 kB), through the negative numbers and through the table a second time. 660 001 states |
| `dict_tables` | is the dictionary a map during its migrations, and do these end? | three keys, of which two share a bucket in a table of two; tables of 2 to 8 buckets; growth, shrinking and an iterator. 77 752 states |
| `dict_scan` | does a scan return a key that stays? | every hash of 4 bits, tables of 2 to 16 buckets, any resizes in between. 49 296 states |
| `iter_safe` | does a safe iterator return each key that stays once? | four keys, chains of up to three, a migration starting under the iterator. 36 782 states |
| `shard` | are references, sizes and timers exact, are replies stable, is `cas` sound, is the shard a map? | two connections, so that two unsent replies share an item or hold both chunks; two keys in two chunks, so that insertion must evict or fail; one number and a text of twice the size (what `incr` computes is a question of `front_end`); three moments, a flush put off to the last; two versions; a count of two bits (`RefModulus` 4), the least that tells three holders. 707 870 states up to the symmetry of keys and connections |
| `front_end` | is the server one store to its clients, do references stay good, is every command answered? | two cores with two keys and one, a TCP connection on one and a UDP channel on the other: each writes keys of its own core and of the other's, the two meet on every key; 15 commands, with and without reply; numbers 0 and 1, so `incr` wraps and `decr` stops at 0; two versions, so `cas` may find a newer one and a write may fail. 191 699 states |
| `strings` | are header, block and accounting exact, do the operations mean what they say, can quoted and split texts be read back? | texts of up to three bytes over letters, digits, a sign, blanks, both quotes, a backslash and NUL; room for three more; `SDS_MAX_PREALLOC` 4, so both rules of growth apply; words of 4 bytes and a header of 3, so sizes are padded by 0 to 3; numbers to 12 and amounts to 2, so sums leave the range at both ends; 2 slots for tokens, so the array doubles. 22 436 states |

Runs that show a disagreement (section 7): `usmm_levels_v`, `dict_scan_v`.

Deadlock is checked except in `usmm_heap` (the process may die), `crash_serving` (crashes may leave
nothing to allocate and nothing to free, or the process may fault) and `sizeclass` (the enumeration ends).

What the properties say, beyond the names:

* `HeapBlocksDisjoint`: heap blocks that are held do not meet; the bitmap, set and cleared over many
  calls, is all that sees to it.
* `ClassIsSmallestFit` speaks of the sizes an `int` holds, `FreeFindsSameClass` of every size: a slice
  that is served is found again when it is freed, however its size wrapped.
* `CountersMatch`: the counters of the two levels and of each class are what the lists and the
  holders say.
* `NullMeansFull`: when `usmm_slice_alloc` would return NULL, no slab is free and none of the
  class has a free slice.
* `HeldSlabKeepsClass`: no step changes the class of a slab of which a slice is held. This is an
  action property.
* `UsedCoversHeld`, `HeldIsNotFree` (crash): after any crashes the count may be too large and the
  chain too short, never the other way round. That is why memory leaks but is not shared.
* `BlockIntact` (crash): a heap block that is held is in no list, its bits are set and its length
  word is in place, although a process died while it took or gave back another block or a slice.
* `EntriesReachable`: each key is chained where a search looks for it in the present state of the
  migration, and no bucket below `rehashidx` holds entries.
* `RefsExact`: an item has one reference for the cache and one for each unsent reply.
* `TimerCovers`: an item that expires is in the timer set, and a timer that fires no later than it
  expires is armed.
* `CasSound`: of the keys that never left the cache since the `gets`, a `cas` that would succeed
  finds the data the `gets` returned.
* `ImplementsItemStore`: to its commands a shard is a map with versions; references, chunks and
  timers show only as entries lost.
* `RequestIntact`: `memcache.cc:693` asks that the insertion stay live until the future resolves.
  While a task has not run, the protocol object it refers to is at work on the same command and
  holds what the task was sent for, also when no reply is wanted.
* `ImplementsService`: the server is linearizable, key by key, for clients on any core.
* `CommandsAnswered`: every command ends and its connection takes the next, also one of many parts,
  one that ran out of memory and one on keys that others write all the time.
* `BufferExact`: after any sequence of operations `len`, `free` and the NUL fill the block exactly,
  no byte before the NUL is unwritten, and `used_memory` is the block's, although `zrealloc` counts
  without the word in front.
* `MeansText`: in every state of a string, with whatever room it has, each operation does to its
  bytes what `Text` says, `sdstrim` as long as it meets no NUL (`NulInside`, section 8); a sum out
  of range leaves the number alone.
* `RoundTrips`: `sdssplitargs` reads back a line of texts that `sdscatrepr` quoted, whatever bytes
  they have, a text in single quotes, and the words of a line without quotes; `sdsjoin` restores what
  `sdssplitlen` split, no token has the separator in it, and the array of tokens is never overrun.

## 5. Assumptions on the callers and on the platform

Each is a constant or a specification of its own, and dropping it is shown to fail in section 7
or 8. The models do not hide the case, they separate it.

* `DocSpec` of `Usmm`, and `HeapFind` of `UsmmCrash`: heap blocks are taken only while no slice is
  held, and only in lengths for which the search is sound (2 to 7 slabs, or a multiple of 8).
  `usmm/README.md:39` advises to allocate large blocks once, at initialisation; the lengths are an
  assumption of this project alone: nothing in the documentation asks for it, and `usmm_test.c`
  takes blocks of 1, 9, 100 and 513 slabs, too. Blocks may be freed at any time. `usmm_heap` has the
  lengths without the rest: blocks are taken at any time.
* `DieInInit = FALSE`: the process survives `usmm_init`.
* `EmptyWhileIterating = FALSE`: no `dictEmpty` under an open iterator.
* `Allowed = {}`: under a safe iterator the user deletes only the current entry and does not call
  `dictRehash` himself.
* `MAX_SHRINK = 2`: during a scan no table is less than half as large as one a cursor came from.
* `EvictErased = FALSE`: the slab allocator does not evict an item the cache has already erased and
  a reply still holds. The allocator is outside the repository, so what it does is not known here.
* `HoldersFit` of `CacheShard`: an item has fewer than `RefModulus` references, which is 65 536 in the
  code. Nothing bounds them there: a get of many keys keeps one reference for each time it names a key
  (`memcache.cc:860-864`), so one command can make the count wrap.
* `IntsHoldSlices` of `UsmmProofs`: an `int` has room for 128 kB, as on every platform the code is for.
* Of the constants: classes hold two slices or more in a slab, a slab is larger than a length word,
  texts are sequences of bytes, the two texts of a `sdsmapchars` are as long as each other
  (`sds.c:938`), table sizes are powers of two. These are the named assumptions of the modules.
* `zmalloc` does not fail (it aborts the process); `dict.c` has no path for it.
* `len` and `free` of a string are `unsigned int` (`sds.h:43`) and do not wrap here: texts, with their
  room, are shorter than 4 GB.
* `Amount` of `Sds`: a number is not decremented by `INT_MIN`, whose negation is no `int`
  (`cobj.c:107`).
* `Delay` of `CacheShard`: a `flush_all` is put off to one of these moments. This is a bound.
* A free is of something that is held. Double frees are out of the contract.
* Versions do not wrap (64 bits; `MaxVersion` bounds them here). A version restarts at 1 when a key
  leaves the cache and comes back, so a `cas` may succeed on another item then; `CasSound` speaks
  only of keys that stayed.

## 6. Fairness

* `Dict!LiveSpec` is `WF_vars(Lookup)`: the dictionary goes on being used. `dict.c:301` states the
  design: the migration advances "while it is actively used". Nothing else moves buckets, so
  without lookups there is no promise. `MigrationEnds` allows for an open iterator, which stops the
  migration by design.
* `DictScan!LiveSpec` is `WF_vars(dictScan)`: the caller goes on until the cursor is 0, which is
  what the function's comment asks of him. Migration and resizing need not be fair for `ScanEnds`.

* `Memcache!Fairness` is `WF_vars(Serve(c))` for each connection: a reactor runs every task that is
  queued on it, a core takes the messages the others send, and the client takes the answers it is
  sent. Only what is already under way is fair: arrivals, new connections and the timers are not.
  One condition for a connection is enough, since each of its steps brings its command nearer to
  the answer, and no other connection can disable all of them.

All other properties are safety properties and assume no fairness.

## 7. Findings

1. `usmm_levels_v`: `usmm_heap_alloc` (`usmm.c:192`) consults the bitmap alone, and
   `usmm_slice_alloc` never marks a slab there. A heap block taken after the first slices may be cut
   out of a slab in slice use; the next free of such a slice fails the assertion of `usmm.c:314`.
2. `dict_scan_v`: the guarantee of `dict.c:668` fails when the table shrinks to a quarter during a
   scan: the loop at `dict.c:802` starts at the cursor's own high bits and skips the expansions
   below.

## 8. Further claims that fail, as they stand or when one constant is changed

These are defined beside the others but belong to no run. Each takes the named configuration with
the change given (and without a check for deadlock), and the definition as its invariant. The first
five are disagreements with the documentation like those of section 7.

| definition | module, configuration | change | steps |
|---|---|---|---|
| `HeapBlocksDisjoint` (`usmm/README.md:27`) | `Usmm`, `usmm_heap` | `HeapSizes = {14, 35, 63}` | 5: for nine slabs or more that are no multiple of eight, `bitmap.c:93` compares the last byte with a mask of the wrong end, and the search answers with a run whose end is in use. A block is given out over another one, if `list_del` finds addresses it can write to in the bytes of that block; else the process ends there. `usmm_test.c:78` takes such a block, of 100 slabs |
| `NeverDies` (`usmm/README.md:37`) | `Usmm`, `usmm_heap` | none | 1: a request for one slab fails `ASSERT(range > 1)` (`bitmap.c:55`), although the documentation names one slab less eight bytes as the smallest granule and the first request of `usmm_test.c` (lines 56 to 60) is for less than a slab |
| `ServedIsEnough` (`usmm/README.md:43`) | `SizeClass`, `sizeclass` | none | 19: `usmm_slice_alloc` (`usmm.c:252`) passes its `size_t` as an `int`, so a size of 2^31 or more, which ought to be refused, is served with a slice of 8 bytes, and one a little above 2^32 with the slice of what is left of it |
| `TrimsTheSet` (`sds.c:551`) | `MCSds`, `strings` | none | 1: `sdstrim` (`sds.c:572`) also takes NULs off both ends, where its comment speaks of the characters of the set alone: `strchr` finds the NUL that ends the set |
| `LargestRunServed` (`usmm/README.md:38`) | `Usmm`, `usmm_heap` | none | 0: the search tries byte boundaries only and does not see every run there is |
| `ClassNotStuck` | `UsmmCrash`, `crash_serving` | none | 16: a process that dies between taking a slab's last slice and moving the slab to `full_slabs` (`usmm.c:278-283`) leaves an exhausted slab at the head of its class; from then on `usmm_slice_alloc` returns NULL for the class, although there are free slabs |
| `BlockHoldsRequest` | `Usmm`, `usmm_heap` | none | 1: the length word in front of a block is not counted |
| `ServesInitialised` | `UsmmCrash`, `crash_serving` | `DieInInit = TRUE` | 3: the magic is written first |
| `HeldSlabLinked` | `UsmmCrash`, `crash_serving` | none | 18: a slab lost between `list_del` and `list_add` |
| `FreeSlabLinked` | `UsmmCrash`, `crash_serving` | none | 9: the same of a slab whose bit is clear; the next heap block of that place faults in `list_del` |
| `IteratorsCounted` | `Dict`, `dict_tables` | `EmptyWhileIterating = TRUE` | 2: `dictEmpty` resets the count |
| `NextEntryLive` | `DictIterator`, `iter_safe` | `Allowed = {"delete"}` | 5 |
| `SteadyKeysOnce` | `DictIterator`, `iter_safe` | `Allowed = {"rehash"}` | 7 |
| `FreeFindsSameClass` | `SizeClass`, `sizeclass` | `INT_MAX = 65535` | 18: with an `int` too short for the slice sizes these wrap to other classes |
| `RefsExact` | `CacheShard`, `shard` | `EvictErased = TRUE` | 4: `is_unlocked` sees one reference and takes it for the cache's |
| `RefsExact` | `CacheShard`, `shard` | `RefModulus = 3` | 3: a key is stored and two replies hold its item; the count of its three holders is 0 |

Some observations need no model. `usmm_slot_append` looks for a free slot from 0 on, while
`USMM_SLOT_CACHE` and the other numbers below `USMM_SLOT_APP` are fixed, so an append before they
are set takes one of them. And a reload (`usmm.c:129`) compares only the magic: a configuration
with another length or slab size is ignored or misread.

In the strings: a format of `sdscatfmt` that ends in a percent sign is read one byte past its end; a
string with a NUL after a number counts as that number; `sdsrange(s, 0, -100)` keeps the first
byte, since a place before the beginning is the beginning; `sdssplitlen` of the empty text returns
an empty array, where its comment promises NULL. In the objects: the encoding as an integer is
never set, so every number takes the way over a string; a value is not freed with its entry (a
FIXME of the code); `cache_set` (`cache.c:76`) adds and never replaces, and the object it made for a
key that exists stays allocated. `used_memory` is not safe for threads unless
`zmalloc_enable_thread_safeness` is called, and nothing calls it.

## 9. Proofs

What is proved is proved of the same definitions that TLC checks, for every value of the constants
the named assumptions of the modules allow: any number of slabs, keys, cores, connections, crashes,
any hash, any text. Each module has one inductive invariant (`IInv`), one lemma for each action that
keeps it, and theorems that read the properties off it.

| module | theorem | states |
|---|---|---|
| `UsmmProofs` | `TypeCorrect`, `NoSlabGivenTwice`, `BitmapExact`, `ListsExact`, `SlicesAccounted` | `TypeOK`, `HeapBlocksDisjoint` and `LevelsDisjoint`, `BitmapIsHeap`, `SlabPlaced`, `SliceAccounts`, all of `DocSpec` |
| | `StatisticsExact` (and `CountersExact`, the half about slabs) | `CountersMatch` |
| | `AssertsHold`, `RefusesOnlyWhenFull`, `HeldSlicesKeepSize` | `NeverDies`, `NullMeansFull`, the action property `HeldSlabKeepsClass` |
| | `RegionsNeverOverlap` | `ImplementsRegionAlloc`, the refinement |
| | `BlocksNeverOverlap` | `HeapBlocksDisjoint` of `Spec`, without slices (`Class = {}`): blocks are taken and freed at any time, in lengths the search is sound for or refuses (`LengthsSearched`) |
| | `SmallestFit`, `FreeFindsIt` | both properties of `sizeclass`, the second when an `int` holds the slice sizes (`IntsHoldSlices`) |
| `UsmmCrashProofs` | `TypeCorrect`, `HeldStaysOut`, `UsedNeverShort`, `NoSlabInTwoLists`, `BlockSurvives`, `ClassKept` | all properties of `crash_serving` |
| `DictProofs` | `TypeCorrect`, `NoKeyTwice`, `NoEntryLost`, `CountersExact`, `Refinement` | all safety properties of `dict_tables`, the refinement `ImplementsDictMap` among them |
| | `IteratorsKept` | `IteratorsCounted`, when nobody empties the dictionary under an iterator |
| `DictScanProofs` | `NothingIsMissed`, `TypeCorrect` | `NothingMissed` and `TypeOK`, when `MAX_SHRINK =< 2` |
| `DictIteratorProofs` | `TypeCorrect`, `NextNotFreed`, `ReturnedOnce` | `TypeOK`, `NextEntryLive` and `SteadyKeysOnce` (all of `iter_safe`), when `Allowed = {}` |
| `CacheShardProofs` | `TypeCorrect`, `CountIsHolders`, `ReplyKept`, `CacheCounted`, `TimerNeverLate`, `CasLosesNothing`, `Refinement` | all properties of `shard`, the refinement `ImplementsItemStore` among them, when `~EvictErased` and `HoldersFit` |
| `MemcacheProofs` | `InsertionLives`, `Refinement` | `RequestIntact` and the refinement `ImplementsService` |
| `SdsProofs` | `HeaderTruthful`, `MeansWhatItSays`, `ReadsBack` | `BufferExact`, `MeansText`, `RoundTrips`: all properties of `strings` |

Hypotheses. `~EvictErased`, `HoldersFit`, `~EmptyWhileIterating` and `Allowed = {}` are the
assumptions of section 5; without them the properties fail (section 8). `IntsHoldSlices` says that
128 kB is an `int`; with less the slice sizes wrap themselves (section 8), while the sizes asked for
may wrap as they like. `MAX_SHRINK =< 2` says that no resize during an iteration makes the table
less than half of one a cursor came from; with 4 a key is missed (section 7). `DocSpec` is the
documented use of the manager in the lengths the search is sound for; `BlocksNeverOverlap` needs the
lengths only, and with others it is false (section 8).

**Memory manager.** No single invariant is inductive. `LevelsDisjoint` needs that a free slab or a
slab of a class list is in no heap block (`SlabPlaced`), that the bitmap says so too
(`BitmapIsHeap`), and that the length word read back by `usmm_heap_free` is the block's (also
`BitmapIsHeap`). `SlabPlaced` needs that a slab with free slices is known as such, i.e. chain, count
and what is held agree (`SliceAccounts`). `NeverDies` needs all of them: an assertion fails or a link
is zero exactly when a slab is where it should not be. So `IInv` is their conjunction. Below the
lemmas of the actions, `FoundRunFree` says that the search is sound for the lengths of `SoundNum`,
and the cardinality lemmas count slices. The counters of the classes are a second invariant on top
(`ClassCountersHold`), since each step changes a class by one slab or one slice. The refinement
follows from `IInv` in each step: what changes hands is a region that no other one meets, which is
arithmetic on bytes (`HeapCells`, `SliceCells`). For `BlocksNeverOverlap` the
lists do not matter, since without slices only the bitmap says what is taken: its invariant
`BlocksOK` is that the blocks are disjoint, that the bitmap is exact and that the length words are
right, from which `usmm_heap_free` knows how many bits to clear.

**Crashes.** `IInv` has two halves: what holds of each slab at every moment and so after a crash
(`SlabOK`: chain within what is not held, count no less than what is held, in one list at most), and
what the call in progress knows in addition, for each place it may stand at (`SliceOpOK`,
`HeapOpOK`, `BootOK`). A crash drops the second half and must find the first one intact, which is
why each write has a lemma of its own.

**Size classes.** The table is brought into a closed form (`TableSize`), one case for each of the
seven ranges; within a range the claim is linear arithmetic, and the limits of the ranges keep them
apart. What a size wraps to is an `int` like any other, so `FreeFindsSameClass` needs that the class is
one of the table (`ClassInTable`) and not which one.

**Dictionary.** `Sound` says of each table that its counter is exact, keys are unique and each entry
is in the bucket of its hash; of the two, that they share no key and that nothing is left below
`rehashidx`. Each operator on a dictionary value keeps `Sound` and the map (`MapOf`), or changes the map in
one key, so a call, which composes them, does. `_dictNextPower` finds a power of two for every size.

**Cursor scan.** Read in reverse, the cursor only grows: a call raises it to the next multiple of
the reversed step of the smaller table (`Advanced`), or ends the iteration. `Ahead` says of the key
that it has been returned or that its reversed hash is not below the reversed cursor. A call keeps
it, since a key it passes over (`StaysAhead`) has the cursor's bits under the smaller mask and so
sits in the one bucket of the smaller table the call returns, or in one of the buckets of the larger
table its expansion goes through. For the latter the expansion, which starts at the cursor's own
bucket, must not start too late (`InExpansion`): that is `Cursor`, the cursor lies under the largest
table it came from, and the hypothesis on shrinking. The lemmas below it are about bits: `Reversed`
is its own inverse (`ReversedTwice`), takes low bits to high ones (`LowBitsFirst`, `HighBits`) and
so keeps the order of what agrees on them (`OrderKept`).

**Iterator.** That a key is returned once is not inductive: it needs to know where the iterator will
still go. `Ahead` says of a key that it is in the rest of the chain, from the saved entry on, or in a
later bucket, and `IInv` that a key that stayed has been returned if and only if it is not ahead.
Adding and deleting keep the order of all other keys in their chains (`SameBut`), so nothing
overtakes the iterator; a turn of the migration does not keep it, and is only taken while no
iterator is counted, when all keys are ahead anyway (`KeptWhenFresh`). The saved entry is never the
one that may be deleted, since a key is in one place only (`AfterOrder`). That `Moved`, a fold over
a chain, loses and doubles no key goes by the places of the chain (`MovedIs`).

**Shard.** `CacheOK` (sizes, keys, timers, chunks) and `RepliesOK` (the count of an item is its
holders) hold of the values the methods return, evictions and failed allocations included, so the
lemmas are about the methods and the actions follow. The count of an item is never so high that one
more would wrap, since the holders are counted by `HoldersFit` (`AddRefOK`). `TokensOK` relates what
a `gets` returned to what the item has now. `_bytes` is a sum over a set; that a sum changes by what
one element changes is proved in the first part of `CacheShardProofs`, from the recursive function
inside the fold.

**Server.** `IInv` is `Talk /\ Shards`. `Talk` relates each connection to the messages that are on
the way for it: a part of its command has run here, is a task, is a result on the way back, or has
its result in `got`, and just one of these. The map to `MemcacheService` takes the results from
`got` and from the messages on the way back, so a part takes effect when its task runs; sending,
delivering and answering of it are stutters or the service's own steps.

**Strings.** `Exact` is `Sound` (length, room, block and `used_memory` fit together, no byte is
unwritten) with `Ended` (the NUL is where the length says). Every operation takes an exact string to
an exact one, and its bytes are those that `Text` defines: `Trimmed` is shown to allow one part only
(of a text where no NUL is trimmed off, `NulInside`),
`Mapped` to choose the first place, the test of the range to be that of the sum. `sdscatfmt` is only
`Partial` between two pieces; its string and the text of `Text` grow together (`PiecesAdded`). The
digits of a number come from a recursive function on numbers.

**Texts.** `RoundTrips` is a property of the text a string has, and that any text of bytes can be it
is all that comes from `IInv`. The work is in three loops. `SplitUpTo` is the invariant of
`sdssplitlen`: the tokens, each with the separator behind it (`Followed`), are the text before `start`,
and no separator begins between `start` and `at`; what is left is the last token, so joining
restores the text (`SplitAndJoin`), and since no separator begins where a token has stood none is
inside (`NoPart`). For quoted texts, `DoubleByteRead` says that one step of the reader takes what
`Escape` made of a byte back to that byte, for each of its four forms, from the code being below 256
and different for different bytes; `BytesRead` adds the steps up along the flattened text, and
`QuotedRead` opens and closes the quotes. For a line without quotes the reader and `sdssplitlen` at
spaces go in step (`InStep`): the begun token is the reader's text, and the reader's arguments are
the tokens that are not empty. `Reaches` counts the steps, so that `Len(s) + 2` of them suffice.
`CharAssumption` is what this needs of the bytes: NUL has code 0 and is none of the bytes the
functions look for, no two bytes have one code.

The prover's library has induction only as theorems with an operator parameter, which the installed
provers cannot instantiate. Where a function is recursive (digits, bits, the loops over texts,
folds) the proofs show by sets of numbers that such a function exists and is what its equation says,
and then go by a set that holds 0 and with each number the next (`AllNumbers`, `EveryNumber`), or by
the least number for which the claim fails (`LeastOf`, `LeastNumber`).

Only model-checked is liveness (`MigrationEnds`, `ScanEnds`, `CommandsAnswered`), which is out of the
prover's reach. All safety properties of the passing runs are proved, with the hypotheses above.

## 10. Not modelled

* The generated scanner that parses commands from bytes; the layout of answers and their fragments
  on UDP; `stats_printer`, which only prints.
* Of `zmalloc.c`, the atomic and the mutex variants and the readers of `/proc`; of `cobj.c` and
  `cache.c`, the stubs (`cobj_htable_*`, `cache_expire`, `cache_destroy`). `cache_set`, `cache_get`
  and `cache_del` are one call of the dictionary each.
* The crash of a process between two link writes of one list operation. The lists are sets and
  have no direction; the order of the four link writes is the compiler's.
* The fingerprint of the unsafe iterator, `dictPrintStats`, the hash functions (a hash is a
  constant function of the key).
* Root slots: three functions of one assignment each (but see section 8).
* The engine skeleton (empty handlers), loggers, the platform layer, the test programs.

## 11. Plan

Done: all components of section 1 with state are modelled, and every safety property and every
refinement that a run checks is proved.

1. Extend: the fingerprint of the unsafe iterator; the root slots.
2. Review: deeper properties in place of shallow ones, runs that answer the same question merged.
