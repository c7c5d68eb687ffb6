# A verification of ECE344Lab

The repository holds the laboratory work of an operating systems course: a
user-level thread package (`threads/`), a concurrent web server with a file
cache (`webserver/`), a small Unix-like file system (`fs/`), and warm-up
exercises (`warmup/`). This directory holds TLA+ models of the first three,
configurations with which TLC checks them, and proofs that TLAPS checks.

Contents: [inventory](#inventory), [plan](#plan),
[the models and the code](#the-models-and-the-code),
[what the runs check](#what-the-runs-check), [fairness](#fairness),
[what is proved](#what-is-proved), [what the models found](#what-the-models-found),
[what is not modelled](#what-is-not-modelled),
[running the checks](#running-the-checks).

## Inventory

### Thread package (`threads/thread.c`, `interrupt.c`)

*State.* One `struct thread` per thread (identifier, `state`, `flag`, stack
pointer, saved context), linked by its single `next` field into one list at a
time: `READY_HEAD`, the head of a wait queue, or `TO_DELETE_THREAD`;
`RUNNING_THREAD`; the array of identifiers in use; a `size` counter per wait
queue; the signal mask, which is per process and is saved and restored by each
call.

*Operations.* `thread_create`, `thread_yield`, `thread_exit`, `thread_sleep`,
`thread_wakeup`, `wait_queue_create/destroy`, and the SIGALRM handler, which
calls `thread_yield(THREAD_ANY)` on behalf of whoever runs.

*Interactions.* A library call masks SIGALRM; when it switches threads the mask
is handed, with the processor, to a thread that is inside another call or at
the top of `thread_stub`. `getcontext` returns twice, and only the `state`
field tells the two returns apart. Dead threads are freed by whoever switches
next. Identifiers are free at exit, before the structure is.

*Hard parts.* Preemption between any two calls; a flag set on a thread that is
suspended in the middle of a call; one link field for three lists; early
returns that must restore the mask.

*Correct when* each structure is in one place; identifiers of live threads
differ; every thread that comes back from a switch knows it; a careful program
never makes the package dereference NULL or run on a freed stack; ready threads
run.

### Locks and condition variables (`threads/thread.c:370-455`)

*State.* A lock's `state` and wait queue, a condition variable's wait queue.
*Operations.* acquire, release, destroy; wait, signal, broadcast, destroy, each
built on `thread_sleep` and `thread_wakeup`.
*Hard parts.* `lock_release` wakes all waiters and one of them takes the lock;
`lock_acquire` goes round its loop with SIGALRM masked, so that if nobody else is
ready it spins for ever; `cv_wait` is three calls, with interrupts on between them.
*Correct when* two threads are never inside, no thread sleeps on a lock that is
available, and a signal reaches a thread that has called `cv_wait`.

### Web server: request queue (`server_thread.c`, `server.c`)

*State.* A ring buffer of `max_requests + 1` slots, a mutex, `cv_full`,
`cv_empty`. *Operations.* The master puts connections (`server_request`), the
workers take and serve them (`stub_func`).
*Hard parts.* The signals are conditional: `cv_empty` only when the ring was
empty, `cv_full` only when it was full, both decided before an index moves.
*Correct when* no signal is lost, each connection is served once and in order,
and every accepted connection reaches a worker.

### Web server: file cache (`server_thread.c:11-235`)

*State.* A hash table of chains, an LRU list, the space left, one lock; per
request a `file_data`. *Operations.* Lookup, read and send outside the lock,
second lookup, insertion, eviction.
*Hard parts.* A miss is decided under one critical section and acted on in
another; a cached file is sent after the lock was released; three structures
must agree. *Correct when* they are those of a least-recently-used cache, and a
reply carries the file that was asked for, once.

### Web server: robust I/O (`common.c:25-210`)

*State.* Per connection a `struct rio`: the buffer `rio_buf`, the place
`rio_bufptr` of the next unread byte and their number `rio_cnt`; the bytes a
write has still to send. *Operations.* `rio_readlineb` over `rio_readb`,
`rio_write`, and the wrappers `Rio_...`, which end the process on an error.
*Hard parts.* `read` and `write` transfer as many bytes as they like, are
interrupted, and fail when the peer has gone; lines, buffers and reads end at
different places. *Correct when* a caller is given the bytes that were sent, each
once and in order, cut at newlines only or at the end of its own buffer.

### Web server: requests and clients (`request.c`, `client.c`)

*State.* Where a worker is in its request (request line, header lines, reading,
replying) and what its line buffers hold; what a client has sent, the length and
the checksum it was told and those it received.
*Operations.* `request_init`, `request_read_headers`, `request_readfile`,
`request_sendfile`, `request_error`, `request_destroy`; `client_send`,
`client_print`. *Interactions.* The two processes share a connection; the file
comes from the disk or from the cache.
*Hard parts.* Either may close with bytes of the other unread, which resets the
connection; a buffer that was never written is examined; the header loop ends
at a blank line only. *Correct when* the assertions in `client_print` hold, a client
with a well-formed request gets all of its reply, and the worker comes back
whatever the client does then.

`client_simple.c`, `fileset.c` and the scripts generate load.

### File system: blocks (`read_write.c`, `bitmap.c`, `block.c`, `super.c`, `file.c`)

*State.* A bitmap of allocated blocks, a counter of them in the super block, the
block map of each inode (10 direct blocks, an indirect and a doubly indirect
block), `block_count` and `i_size`. *Operations.* Read, write, remove, each over
a range that may begin and end within a block and cross from one kind of block
to the next. *Hard parts.* Up to three allocations for one block, any of which
may meet a full volume; holes; removal computes from the size what allocation
did by the offsets. *Correct when* every allocated block is in one place of one
file, files read back what was written, and removal frees exactly what a file has.

### File system: inodes, directories, shell (`inode.c`, `dir.c`, `testfs.c`)

*State.* A table of in-memory inodes with reference counts and dirty flags; the
entries of each directory, where a removed entry is marked and reused for a name
of the same length; the current directory. *Operations.* `cd`, `create`,
`mkdir`, `rm`, `ls`, `stat`, `quit`. *Correct when* each inode in use is named by
one entry of one directory, references are given back, and no changed inode is
dropped without being written.

### Warm-up (`warmup/`)

A sorted linked list of points, a table of word counts, and small programs: pure
sequential data structures.

## Plan

| order | module | of | state |
|---|---|---|---|
| 1 | `BoundedFIFO`, `RequestQueue`, `RequestQueueProofs` | request queue | done, proved |
| 2 | `ThreadLifecycle`, `Threads`, `ThreadsProofs` | thread package | done, proved |
| 3 | `ThreadSync` (extends `Threads`), `ThreadSyncProofs` | locks, condition variables | done, proved |
| 4 | `LRUCache`, `FileCache`, `FileCacheProofs` | file cache | done, proved |
| 5 | `FileBlocks`, `FileBlocksProofs` | blocks of the file system | done for commands up to the first dangling pointer, proved |
| 6 | `DirectoryTree`, `Directories`, `DirectoriesProofs` | inode table, directory entries, current directory | done, proved |
| 7 | `LineStream`, `Rio` | robust I/O at both ends of a connection | done, proved in `HttpExchangeProofs` |
| 8 | `HttpExchange` (extends `Rio`), `HttpExchangeProofs` | a worker and its client | done, proved |

"Proved" is said of the safety properties; liveness is checked by TLC.

Abstract specifications: a bounded FIFO queue (1), the life of a thread (2), a
least-recently-used cache (4), a tree of names (6), a stream read by lines (7).

`ListProofs` holds the facts that the proofs of 2 to 8 share: sequences without
repetitions, induction over finite sets, sums over finite sets.

Still worth doing: the exchange and the cache as one system, where the bytes of a
reply come from a cached `file_data` (what `FileCache` sends in one step is there a
sequence of writes); and what an abstract volume promises of `FileBlocks`,
a function from offsets to values for each file, as a refinement.

## The models and the code

Each definition that models code is listed with its lines in `PROJECT.json`
under `map`. Definitions marked `fault` are variants with a plausible bug, which
show that a property can fail; no specification uses them.

**`RequestQueue`.** Variables `in`, `out`, `buf` are the fields of `struct
server`; `mpc` and `wpc` say where the master and the workers are, `mconn` and
`wconn` which descriptor they have. Every access is made under `sv->lock`, so a
critical section is one action (`Put`, `PutWait`, `Take`, `TakeWait`); a wait
releases the lock and joins the waiters at once, and a woken thread starts again
at the top of its loop. `SpuriousWake...` are the wakeups POSIX permits. The
signals are chosen as in the code, before the index moves.

**`Threads`.** A thread is the address of its structure (`Addr`), because
identifiers are reused earlier than structures. A call runs masked up to its
switch, and is one action; the thread switched to continues with `Resume` (the
second return of `getcontext`) or `Start` (`thread_stub`). `Interrupt` may happen
in a thread's own code whenever `on` is true for it. `state`, `flag`, `sp`,
`tid` are the fields of `struct thread`, with `state = NEW` meaning that the next
return of `getcontext` is the first. A NULL dereference and a state in which a
freed stack will run set `status` and end the behaviour. `Disciplined` restricts
arguments to those a call can serve (naming a ready or the running thread,
sleeping when another is ready, destroying empty queues only).

`Mode` is the place of a structure as `ThreadLifecycle` sees it.

**`ThreadSync`** extends `Threads`: `lock_state` is the field, `frame` tells
which of the non-atomic calls a thread is inside (the loop of `lock_acquire`, the
gap of `cv_wait` between release and sleep, its final acquire). `holders` is
history. `Disciplined` here also means: release, wait and signal only with the
lock held; no exit with a lock; destroy only what nobody uses.

**`FileCache`.** A request goes through `Begin`, `Lookup`, `ReadFile`,
`SendFile`, `Insert` (with `Evict` and `InsertAfterEvict` under the same lock) and
`Close`. A `file_data` is an address; a hash chain and the LRU list are sequences
of addresses; `stale` marks a bucket whose table entry still points to a freed
entry. `ChangeDisk` is the environment. A use of freed memory or NULL sets
`fault` and ends the behaviour.

**`FileBlocks`.** `fs` is the volume: `freemap`, `used`, the contents of the
blocks, the inodes. A block is an array of cells; the size of a cell stands for 4
bytes in an index block and for a unit of data elsewhere, and `NIndirect` is both
the number of pointers and of cells. One process runs one command at a time, so a
command is an action; inside it, operators follow the code call by call
(`Allocate`, `PutChunk`, `WriteData`; `Freed`) including what a failing
allocation leaves behind. `content` is history: the values a read may find in each
cell (both the old and the new after a write that failed half way).
The behaviour ends when an assertion fails (`abort`), when removal takes the
super block for an index block (`corrupt`), and when an inode points to a block
that was freed (`dangling`); the properties are about the volumes before that.

**`Directories`.** Again a command is an action, together with what it undoes when
it fails. `entries` holds each directory's entries in the order of its data,
removed ones included (inode number -1), since `testfs_add_dirent` uses again the
first removed entry whose name is as long. `type` is the inode bitmap and
`i_type`, `count` the in-memory table with its reference counts, `cwd` the
current directory. Sizes are counted in cells, so that the place of an entry
decides whether it needs another block; of blocks only the number taken is kept
(`Left`). A failing `mkdir` takes and gives back a block for its dots. When the
second of two blocks for one entry is missing the directory gets the size
34376597504 and half an entry, and later scans fail an assertion (`dir.c:29`) or
the next `testfs_put_inode` does: the behaviour ends (`broken`). `leaked` is
history: the references that `ls` of a file never gives back; `Quit` aborts if
there are any. `pwd`, `stat`, `read` and `ls` of a directory give back what they
get and have no action; the assertion in `pwd` follows from `TreeSound`, which is
`LinksSound` (single links) and `BelowRoot` (paths).

**`Rio`** has the two ends of a connection. `stream` is what was sent to an end,
`taken` how much of it `read` has delivered, `closed` that no more will come;
`rio` has the fields of `struct rio`, the line so far and the result of the
last call (`busy` while it is in one). `Take` is `rio_readb` on a buffer that is
not empty, `Refill` a `read` of any size up to `RIO_BUFSIZE`, `Interrupted` EINTR,
`Eof` and `ReadFails` the other results; `Write` is a `write` of any size. A
connection closed with bytes unread is reset (`IsReset`): from then on reading may
fail. A line of `MaxLine` bytes is returned without a newline; that its
terminating 0 falls behind the buffer (`common.c:163`) is not modelled.

**`HttpExchange`** extends it with the worker (`srv`) and the client (`cl`); `at` is
where each is in its code, and every call of `Rio_readlineb` and of a write is
begun by one action and taken up by the next when `Rio` has its result. A word
of text, a name or a number is one byte; newlines, the buffers' bounds and the
bytes of the files are kept, and so are the blank line, which is compared with
the whole line, and the tags, which the client looks for in every header line but
the first. Buffers nobody wrote (`Methods`, `URIs`, `srv.blank`) are
nondeterministic. `unix_error` ends a process (`ServerExits`, `ClientExits`);
`GoesAway` is the environment.

**`BoundedFIFO`, `ThreadLifecycle`, `LRUCache`, `DirectoryTree`, `LineStream`** are the abstract
specifications; the detailed modules instantiate them with a refinement mapping.

**`MC...`** modules hold what TLC needs besides: symmetry sets, the bucket
function, the texts.

## What the runs check

| run | instance | shows |
|---|---|---|
| `request_queue` | 2 workers, 2 places, 4 connections | No signal is lost, the master sleeps only while the ring is full, one owner per connection, the ring implements the FIFO queue, every accepted connection is served |
| `threads_careful_program` | 5 structures, 4 identifiers, 1 queue, preemption | The `state` fields always tell the right return; `size` covers the queue; no fault; the mask is restored; the lists implement the life of a thread |
| `threads_any_arguments` | 4 structures, any argument, any failing allocation | Until a fault, lists and identifiers agree |
| `threads_destroy` | 4 structures, 3 identifiers, no preemption, `thread_exit(THREAD_ANY)` | violation: a destroyed thread that first yields |
| `sync_careful_program` | 3 threads, a lock and a condition variable, preemption, fair | Mutual exclusion, no sleeper on an available lock, no masked spin; sleepers on a lock are woken and no ready thread starves |
| `sync_signal_gap` | 3 threads | violation: `cv_wait` is not atomic |
| `cache` | 2 threads, 4 requests, 3 files in 2 buckets, space 4 | Table, LRU list and space agree; one copy per name; the right file; the LRU cache is implemented |
| `cache_dangling_entry` | space 2 | violation: `delete_entry` at the head of a chain |
| `http_exchange` | buffers of 3 bytes, lines of 5, 2 files, 5 requests | However the bytes are cut, they arrive whole and by lines; the client's assertions hold; a whole request brings the worker back |
| `fs_blocks` | 2 files, 7 blocks per file (1 + 2 + 2x2), 6 blocks on the volume, 4 commands | No block lost or shared; files read back what was written, from any offset; files without a failed write can be removed entirely |
| `fs_sparse_zeros` | 8 blocks, 2 commands | violation: a hole that reads as pointers |
| `fs_directories` | 3 inodes, 4 blocks, 3 names | The directories stay a tree, references balance, a command that fails changes nothing |

*Bounds, and why they are enough.* Two workers are the least for one to consume
what another was signalled for; with two places and four connections the ring
wraps and is full while the master waits with one more. Four threads allow a
running, a ready, a sleeping and a dead one at once, and a fifth structure lets an
identifier be reused while its old structure waits to be freed. With a lock and a
condition variable, three threads are one that is inside, one that waits for
the lock and one that signals. `MaxSize` bounds
the size counter of a queue, which `thread_wakeup(q, 0)` does not decrement:
calls that would exceed it are not made (in `ThreadSync` it is at least the number
of threads, and `lock_release` resets it). In the cache, three files of sizes 1
and 2 in a space of 4 make an eviction of one and of two files, chains of two and
a file too large; `Data` bounds the requests, since addresses are hardly ever
freed; `MaxChanges` the changes to the disk. In `HttpExchange` a buffer of 3 bytes and lines
of 5 make lines that span refills, refills that hold parts of two lines, and
lines as long as the caller's buffer; the five requests are for two files (one with
a newline in it, one longer than a line), for none, with a method that is
not served, and with a header line so long that its end comes back as a line of its own. A file of 1 direct, 2 indirect and 4
doubly indirect blocks has every kind of boundary between blocks; six blocks on
the volume let a write fail at each of the three allocations; texts of 1, 3 and 5
cells are a part, a head and tail, and a head, middle and tail. `MaxCommands`
bounds the commands. Three inodes make a directory in a directory and run out;
with two names of one length and a longer one, removed entries are reused by
their own name and by another, and are too short for the third; blocks of 7
cells put an entry at the end of a block and across it, and four of them let the
block of a new directory, or of the entry that names it, be the one that is
missing. `MaxRefs` bounds the references that `ls` of a file leaves: it may
forget one per file. Deadlock is checked only for the request queue: the other
systems stop legitimately (the program exits or faults, or the bound is reached).

## Fairness

- `RequestQueue`: weak fairness of the master's and each worker's own steps. The
  threads are kernel threads; the kernel runs them and hands out the mutex, and
  serving a request returns. Nothing is assumed of clients (`Accept`) or of
  spurious wakeups.
- `Threads`, `ThreadSync`: weak fairness of `Resume` and `Start` (steps of the
  library already under way), and strong fairness of `Interrupt`: the handler
  sets the alarm again at each call, and an alarm that comes while SIGALRM is
  masked is delivered when it is unmasked; strong because the running thread may
  mask and unmask for ever. `sync_careful_program` also assumes that a thread that has a
  lock and runs again and again releases it, which is the program's part of the
  bargain.
- `HttpExchange`: weak fairness of the worker's and of the client's steps: kernel
  threads and processes run, and the network delivers. Nothing is assumed of
  `GoesAway`; a client that stays to wait gets its reply, and one that goes
  away lets the worker come back.
- `FileCache`, `FileBlocks` and `Directories` are checked for safety only: a file
  system command is one step, and the cache waits for nothing but its lock.

## What is proved

`RequestQueueProofs` proves, for every non-empty set of workers, every
`max_requests` and every set of connections:

| theorem | states |
|---|---|
| `TypeCorrect` | `Spec => []TypeOK` |
| `NoLostSignals` | `Spec => []NoLostRequestSignal` |
| `MasterNotStuck` | `Spec => []MasterSleepsOnlyWhenFull` |
| `OwnersUnique` | `Spec => []OneOwner` |
| `RingImplementsFIFO` | `Spec => FIFO!Spec`: the safety part of the refinement |

*Assumptions*: `WorkersAssumption`, `MaxRequestsAssumption` (a natural number,
0 included) and `NoConnAssumption` of `RequestQueue`; TLC evaluates them in its
run.

*The argument.* First, lemmas on the ring: `%` over twice the ring's length
(`ModRing`), the distance of two indices, and the contents as a window of the
buffer: writing at `in` appends (`RingAppend`), moving `out` takes the tail
(`RingTail`). `PutContents` and `TakeContents` lift them to the actions. None of
the four invariants is inductive alone. `OneOwner` needs that a thread has a
descriptor exactly in the states where it should, and that the window holds
descriptors only; `NoLostRequestSignal` is kept by `Put` into a non-empty ring
because it held before, and by `Take` because the worker that took is awake.
`IInv` is the conjunction of them with these facts; `PutInv`, `TakeInv` and
`OtherInv` show that it is inductive, and the theorems follow with PTL. The
refinement theorem shows that each step under `IInv` is a step of the FIFO queue
or leaves it unchanged, `Accept`'s guard (the descriptor is not open) giving that
a connection put is not already waiting.

`ThreadsProofs` proves, for every finite or infinite set of structures, number of
identifiers, set of queues and set of calls:

| theorem | states | assumes |
|---|---|---|
| `ThreadsTypes`, `ThreadsOnePlace`, `ThreadsIds`, `ThreadsStates`, `ThreadsSizes` | `Spec =>` `[]TypeOK`, `[]OnePlace`, `[]TidsAgree`, `[]StatesTellReturns`, `[]SizeCoversQueue` | nothing of the program |
| `ThreadsNoFault` | `Spec => []NoFault` | a careful program (`Disciplined`) without `thread_exit` of others |
| `ThreadsRestore` | `Spec => []InterruptsRestored` | the same, and no failing `malloc` or masking by the program |
| `ThreadsImplementLifecycle` | `Spec => ImplementsLifecycle` | `Disciplined` |

`ThreadSyncProofs` extends it to locks and condition variables:

| theorem | states | assumes |
|---|---|---|
| `SyncTyped`, `SyncOnePlace`, `SyncSleeps` | `SyncSpec =>` `[]SyncTypeOK`, `[]OnePlace`, `[]SleepOnlyWhileHeld` | nothing of the program |
| `SyncExcludes`, `SyncImplementsLifecycle` | `[]MutualExclusion`, `ImplementsLifecycle` | `Disciplined` |
| `SyncNoSpin` | `[]NoMaskedSpin` | `Disciplined`, one lock |

*Assumptions on constants*: `MainAssumption`, `MaxThreadsAssumption`,
`MaxSizeAssumption`, `BooleanAssumption` of `Threads`; `SyncQueues` and
`SizeBoundSuffices` of `ThreadSync`.

*The argument.* The operations differ in what they do to the lists, and agree in
little else; so first each action is shown to be one of a few kinds of steps
(`NextSteps`): it moves a structure from one place to another, moves a suffix, or
changes no list. Lemmas say how appending, concatenating and removing at a position
change what is on a list. `OnePlace` and `TidsAgree` are not inductive: `Placed`
adds that the lists have no repetition, that they, the running thread and the
program counters agree, and that a structure in use is somewhere. `IInv` is
`Placed` with the typing of the fields, `States`, `Ids` and `SizeCoversQueue`,
and is inductive whatever `status` says, since a step that faults is still one of
the kinds. `NoFault` and `InterruptsRestored` follow for careful programs step by step.
In `ThreadSync` every call works on these lists through the operators of `Threads`,
so `IInv` is kept by the same lemmas; `SyncInv` adds the types of the frames and
that a sleeper on a lock's queue was put there while `lock_state` was 1, which
`lock_release` keeps because it empties the queue. That nobody spins masked needs
`SpinInv`: the holder is not flagged for exit, is not itself asking for the
lock, and is ready or running whenever somebody sleeps on the lock.

`HttpExchangeProofs` proves, for every set of ends, alphabet, buffer size and line
length, all files and all requests of the form below:

| theorem | states |
|---|---|
| `RioInvariant`, `BytesConserved` | `RioSpec => []IInv`, `RioSpec => []Conserved` |
| `ReaderImplements` | `RioSpec => ImplementsLineStream` |
| `HttpUsesRio` | `HttpSpec => RioSpec`: the server and the client use a connection through `Rio` only |
| `HttpConserved`, `HttpReadsLines` | the two results, of the exchange |
| `HttpTypes` | `HttpSpec => []HttpTypeOK` |
| `ClientIsServed` | `HttpSpec => []ClientServed` |
| `WorkerNeverWaits` | `HttpSpec => []LineAhead`: the safety half of `RequestServed` |

*Assumptions*: `EndsAssumption`, `SizesAssumption` of `Rio`; of `HttpExchange`
`EndsNamed`, `TextIsBytes` (what is sent is made of bytes), `WordsDiffer` (words and
numbers contain no newline; the two tags differ from each other and from `'\r'`;
the longest header line of a reply, four symbols here, fits in `MAXLINE`) and
`RequestsEnd`: a request ends where its first blank line does, because there
`client.c` stops writing and waits. That the two line sizes are one constant is
because `MAXLINE` and `MAXBUF` are both 8192.

*The argument.* `Conserved` says what is in the buffer and in the unfinished line.
`IInv` adds the types, that a line under way is shorter than `MaxLine` and has no
newline in it, and that a caller is never given more than `read` delivered. Each
step is shown to keep it at the end that takes it (`At`) and to leave the other
end alone. A step of `Rio` is then a step of `LineStream`: the byte that ends the
line is `Deliver`, the earlier ones, the refills and the interrupted calls change
nothing that can be seen.

`ClientServed` is proved over that result: neither end is looked at below the lines
it was given. The invariant `SInv` says, of a client that is there, that what was
written of its request and what is still unsent make the request, and, if it asked
for a file of the disk, two things. `Serving`: the server's state tells where in the
request it has read to; its first line is the request line, whose two words are
`GET` and the file; from `reply` on, what it has written and has still to write make
`ReplyTo` the file; and if the lines of the request fit its buffer then it reads at
ends of lines and has read all of the request when it leaves the headers, since a
line `"\r\n"` that follows an end of line is the blank line, after which nothing
comes. `ReadingReply`: the client's state tells which line of the reply it is in
(the head is lines that end after 3, 7, 11 and 13 symbols); what it received of the
body and its sum are those of the part it was given; and what it was told is the
file's. Then the client cannot be cut off: the server closes after its last
write with nothing left unread, so neither `IsReset` nor a failing write can
happen, and `closed` means that all of the reply was sent. `SumOfParts` adds the bytes of
a line to the sum of those before.

`LineAhead` says of a worker that is in `ReadLine` or in the loop of
`request_read_headers` that, once the blank line has been sent, an end of line is
still ahead of what it was given: what remains of `RequestServed` is that the
scheduler lets it read on. It has an invariant of its own, `HearInv`, which needs
neither the form of the request nor `RequestsEnd`: no line end followed by the blank
line lies in what the worker has used (`NoBlank`), and no line it was given stops
inside one (`Edge`: it stops at a newline, or was cut by `maxlen` after a byte that is
not one, or the client has closed). A blank line could then only be overlooked by
being the line the loop has just looked at.

`FileCacheProofs` proves, for any threads, names, sizes, limit, buckets and hash
function:

| theorem | states |
|---|---|
| `CacheTablesMatch` | `Spec => []TableMatchesLRU` |
| `CacheHasOneCopy` | `Spec => []OneCopyPerName` |
| `CacheGivesRightFile` | `Spec => []RightFile` |
| `CacheSendsLiveFiles` | `Spec => []NoUseAfterFree` |
| `CacheTypes`, `CacheAccountsSpace` | `Spec => []TypeOK`, `Spec => []SpaceAccounted` |
| `CacheIsLRU` | `Spec => ImplementsLRU` |

*Assumptions*: `NamesAssumption`, `SizesAssumption`, `CacheSizeAssumption`,
`MaxChangesAssumption` (naturals) and `NoneAssumption`.

*The argument.* The chains and the list are read through the set of files they
hold: a chain that can still be walked holds exactly the files of the list whose
names hash to it (`Chained`). A bucket whose entry was freed is left out until an
insertion gives it a new one; without that, `TableMatchesLRU` is not inductive.
`Listed` says that what is listed was not freed and that names differ, `Owned`
that a request's own `file_data` and the one it uses are live and of one
name, `Evictors` that a thread that evicts has the lock and that its name is not
cached, which is what its second lookup found: the insertion after an eviction
needs it. `IInv` is these. That the space left is the limit less the sizes of the
list needs more (`JInv`): the size of a listed file must not change, so a `file_data`
that `ReadFile` is still going to fill is in no list and in no other thread's hands
(`Private`); and the loop of `cache_evict` must end with room, so a file that is
evicted for fits in an empty cache (`Room`). The space is a sum over a list;
`SumTake`, `SumAdd` and `SumSame` say what removing, adding and moving to the front
do to it. With `JInv`, a round of the loop is a step of `LRUCache`'s eviction, `Insert`
and a hit are its insertion and use, and the other steps of a request leave it as it
is.

`DirectoriesProofs` proves, for any names, entry sizes, number of inodes and volume:

| theorem | states |
|---|---|
| `DirectoriesStayTree` | `Spec => []TreeSound`; `DirectoryLinksSound` is its part about single links |
| `DirectoryTypes` | `Spec => []TypeOK` |
| `ReferencesBalance` | `Spec => []RefsReturned` |
| `DirectoriesImplementTree` | `Spec => ImplementsTree` |

*Assumptions*: `NamesAssumption` (no name is a dot), `EntriesAssumption` (an entry
takes at least a cell and at most a block, and the two dots fit in one),
`VolumeAssumption`. That no entry is longer than a block (8192 bytes) is a
restriction of the model: the shell reads lines of any length.

*The argument.* `Link(d, k)` says that place `k` of directory `d` has an entry that
makes the tree. A successful `create` or `mkdir` is shown to add one link, to an
inode nothing named (`CreateAdds`, `AddedLinks`), at the end or over a removed
entry; `rm` to take the only link to an inode that has none of its own
(`RemoveDrops`, `DroppedLinks`): the current directory is never that inode, since
it holds the live entry being removed. `IInv` says that directories begin with their
dots and have them nowhere else, that links go to inodes in use, one to each but
the root, that names differ in a directory, and that `..` of a linked directory is
the one that links it. Commands are then steps of `DirectoryTree`; `cd ..` moves to
the parent because of the last part. How much space is left decides which branch a
command takes, and no part of this depends on it.

That `..` leads from every directory to the root is about paths, which a link added
anywhere could close into a circle. `Acyclic` says it without paths: every non-empty
set of subdirectories has one whose parent is outside. It is kept because a new
directory is the parent of none. If following `..` from some directory as often as
there are inodes did not reach the root, two of the directories on the way would be
the same (`FS_PigeonHole`), and those between them a set that breaks `Acyclic`.

`DirectoryTypes` needs `Space`: the blocks that the entries of the directories need and
those written to files are together never more than the volume has. `Left` is looked
at before a block is taken, and lemmas on sums say how an entry appended, reused or
removed, or a file written or removed, changes their number.

`FileBlocksProofs` proves, for any geometry of an inode, number of files, volume,
offsets and texts:

| theorem | states |
|---|---|
| `BlocksTyped` | `Spec => []TypeOK` |
| `BlocksOwned` | `Spec => []BlocksOwnedOnce` |
| `WrittenIsRead` | `Spec => []ReadsBack` |
| `RemovalFreesAll` | `Spec => []RemoveFreesAll` |

*Assumptions*: `GeometryAssumption`, `BoundsAssumption`, `WritesAssumption` (a text
is a word that `strtok_r` found, `testfs.c:107`, and so is not empty; an empty one
would take a block that the size does not cover).

*The argument.* Everything is said of pointers: `Points(v, f, b, c, x)` is that entry
`c` of block `b` (or of the inode) of file `f` is `x`. A volume is `Sound` when
every pointer names an allocated block, no two pointers name one block, no allocated
block is without a pointer, free blocks are zero and the counters count; it is
`Tidy` when every index block has an entry. Allocating a block and storing its number
adds one pointer (three at most for one logical block), and each of the ways in
which it can fail either leaves the volume as it was (`Refused`) or leaves a pointer
to a freed block (`Undone`), where `Dangling` ends the behaviour; of a volume that
dangles only `Loose`, the types, is kept. A write is a recursive function of the
number of chunks: what holds before a chunk is shown to hold after it, and induction over the
number of chunks carries it to the whole. `Reads` says that the blocks hold
what the history has for every cell of every file, and `Covers` that the size of a
file no write of which failed is behind its last block but within it: the loops of
`testfs_free_blocks`, which are bounded by the size, then visit every entry that is
not 0. Counters are cardinalities; `IntervalGrows` and the lemmas on finite sets say
how a step changes them.

*Induction.* The library's induction theorems take an operator as a parameter, and
are not used. `FiniteInduction` and `NatSet` of `ListProofs` take a set instead of
a predicate, and are proved from the least counterexample: if every subset of a finite
set is in `F` as soon as those with one element less are, then all are. The predicate
becomes the set of those for which it holds, and facts about sums
(`SumFunctionOnSet`) and about recursive functions follow.
No module with a theorem reaches a RECURSIVE operator.

*Only model-checked.* Liveness (`EveryRequestServed`, `ReadyRuns`,
`LockSleepersWake`, `RequestServed`, and the fairness part of the FIFO refinement):
the prover does not handle fairness and ENABLED; `WorkerNeverWaits` proves of
`RequestServed` what does not need them. The violations of the four runs
that expect one. Every other property of a run is stated by a theorem.

## What the models found

Shown by a run:

1. `thread.c:156`: a thread destroyed with `thread_exit(tid)` that had not run,
   and whose first switch is a yield, sees its flag on the first return of
   `getcontext`; it is then on the ready list and on the list to be deleted.
2. `thread.c:440`: between `lock_release` and `thread_sleep` of `cv_wait` another
   thread can take the lock and signal; the signal is lost.
3. `server_thread.c:168`: evicting the first entry of a chain of several leaves
   the table pointing to the freed entry.
4. `read_write.c:32`: a hole under an existing doubly indirect block reads as
   that block's pointers; a partial write to it stores them.

Met while modelling, kept in the model, and not given a run of their own:

- `thread_create` and `thread_exit` return early with SIGALRM masked on some
  failures (`thread.c:117`); `InterruptsRestored` holds for programs that do not
  meet them.
- `thread_wakeup(q, 0)` does not decrement `size` (`SizeCoversQueue` is what
  remains true).
- `thread_yield` and `thread_exit` index the identifier array with the error
  codes -3 to -7 when they are passed as identifiers; naming a thread that
  sleeps runs off the end of the ready list.
- A created thread that is given identifier 0 after the first thread exited never
  has its stack freed; a structure without a stack keeps its identifier.
- `wait_queue_destroy` frees threads that sleep on the queue; `lock_release` and
  `lock_destroy` do not look who has the lock.
- With `max_requests` 0 and workers the ring is full when empty.
- Evicted and duplicate `file_data` are never freed.
- `server_thread.c:218`: a request for a file that cannot be read is answered
  with the error and then with a 200 and an empty body, which is cached
  (`sent` shows both replies).
- `request.c:63`: the header loop ends at a blank line only. At the end of the
  stream `Rio_readlineb` leaves the buffer as it was, so a client that closes before
  its blank line keeps the worker in the loop (`NextHeader`); `RequestServed` is
  about requests that have one.
- `request.c:63` compares with the whole line: when a header line is longer than the
  buffer by just its end, the end comes back as a line by itself and is taken for
  the blank line.
- `request_init` examines its buffer even if the client closed at once.
- A method that is not served is answered without reading on: the close with bytes
  unread resets the connection, and the client may lose the reply.
- `common.c:183`: a client that goes away makes a read or write of its worker fail, and
  `unix_error` ends the process with all other connections.
- Two locks taken in opposite orders end in the masked loop of `lock_acquire`
  (`NoMaskedSpin` is about one lock): a deadlock that no timer ends.
- `dir.c:311`: `ls` of a file returns without `testfs_put_inode`, and
  `inode_hash_destroy` then fails its assertion when the shell quits (`Quit` with
  `leaked`).
- `dir.c:228`: a `create` or `mkdir` whose entry crosses into a block that cannot
  be allocated leaves the directory changed, dirty and with a false size.
- On a full volume: a freed index block stays named by `i_indirect`,
  `i_dindirect` or an entry (`read_write.c:138,154,189`); an uninitialized array is
  examined when an old doubly indirect block gets no index block (line 150); a
  failing tail sets the size to 34376597504 (line 216), and removal may then read
  the super block as an index block (line 274); a write that fails half way
  leaves blocks beyond the size, and removal fails its assertion (`inode.c:224`).

## What is not modelled

- Text: the shell and `popt` options, which names `request.c` refuses, file types,
  the formatting of replies. `HttpExchange` has one reply of each kind.
- The sockets of `common.c` (`open_clientfd`, `open_listenfd`), its random numbers
  and timers, the threads of `client.c` that repeat requests, `client_simple.c`,
  `fileset.c`, the scripts: kernel I/O, and load; no reply depends on them.
- The composition of `HttpExchange` with `FileCache`: the exchange reads each file from
  the disk, and the cache sends in one step; they meet in the bytes of a file only.
- The dirty flag of an in-memory inode: each command writes what it changed before
  it puts it, but for the failure at which `Directories` stops.
- Crashes of the file system: nothing in the program recovers from one, so there
  is nothing to promise; writes are not ordered.
- The warm-up programs (a sorted list, a table of word counts, a factorial):
  sequential exercises with one caller, used by nothing else, and without a failure,
  an order or a bound that their tests would not reach.
- `threads/os-150/` (an earlier stage of `thread.c`), editor backups, the
  demonstrations and test drivers: they were read for what they expect.

## Running the checks

    tlc -workers 2 -config RequestQueue.cfg MCRequestQueue
    tlapm RequestQueueProofs.tla

and likewise for the other pairs of module and configuration in `PROJECT.json`.
The runs named `threads_destroy`, `sync_signal_gap`, `cache_dangling_entry`
and `fs_sparse_zeros` are expected to end with a violation.
