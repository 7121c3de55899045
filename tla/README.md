# Verification of the AESD character driver and socket server

This directory holds TLA+ models of the programs of this repository that
have concurrency, failure and state worth the name: the character driver
`aesd-char-driver/` (a ring of the last written lines behind `/dev/aesdchar`),
the socket server `server/` (a thread for each connection, writing lines to
that device and sending its content back), and the two examples with threads
and processes, `examples/threading` and `examples/systemcalls`. TLC checks them on small instances;
TLAPS proves the main results for instances of every size.

## The system

| component | state | operations | used by |
|---|---|---|---|
| circular buffer (`aesd-circular-buffer.[ch]`) | `entry[10]`, `in_offs`, `out_offs`, `full` | init, add_entry, find_entry_offset_for_fpos | the driver, which must lock |
| character driver (`main.c`) | `aesd_device`: `lock`, the ring, `_partial_write_buffer`; each file's `f_pos` | open, release, read, write, llseek, ioctl; load and unload | any process |
| connection threads (`socket.c`: `data_processing`) | `data_packet` (data, `end_of_packet`), `connection_active`, the device file; `file_mutex` for all | recv, write or ioctl, stream back, close | clients |
| server process (`aesdsocket.c`, `socket.c`: `setup_socket`, `client_handler`) | `exit_requested`, `global_server_socket_fd`, `thread_list`, the descriptor table | set up, accept, create thread, signal, join, destroy | operator |
| threading example (`examples/threading`) | a mutex, each thread's `thread_data` | start, lock, unlock, join, free | its own main, tests |
| system call examples (`examples/systemcalls`) | the child of each call: its descriptors, its wait status | do_system, do_exec, do_exec_redirect | tests |
| finder application, load and start scripts, image build, CI, student tests | files | sequential | - |

How they interact: a connection thread makes system calls on the device; each
call takes `dev->lock` inside the driver and, in the server, happens under
`file_mutex`. The main thread shares with its threads the descriptor table, the
mutex, the list of nodes and the flag `exit_requested`; the signal handler runs on
the main thread between any two of its steps.

What is hard: callers of the driver that interleave, with a lock that two return
paths release although they do not own it (`aesd_release`, the end of
`aesd_read`); positions that go stale when the ring evicts; a line buffer shared
by all writers; allocation failing half-way; the two separate critical sections
of a connection thread; a descriptor closed more than once; a signal between a
test and a blocking call; threads that wait, at shutdown, for clients that neither send nor read; memory
that a thread, its starter and its joiner share; failures of fork, exec and wait in
a process with other threads that wait for children.
`PROJECT.json` lists these as hazards, each at its line.

## Modules

| module | models | extends |
|---|---|---|
| `RecentLog` | abstract: the last `Capacity` items | |
| `CircularBuffer` | the ring's functions as operators on a record | |
| `BufferUse` | a ring in use, its invariants, refinement of `RecentLog` | `CircularBuffer` |
| `StreamOfLines` | a byte stream cut into lines | |
| `DeviceLog` | abstract: writers whose bytes are joined, one write at a time, to a stream that is cut into lines, the last ones kept | instance of `RecentLog` |
| `AesdDriver` | the driver's handlers, step by step, by any number of threads | `CircularBuffer` |
| `DriverProperties` | its properties, refinement of `DeviceLog` | `AesdDriver` |
| `AesdWorkers` | the connection threads calling the driver | `DriverProperties` |
| `WorkerProperties` | what clients are promised | `AesdWorkers` |
| `LineServer` | abstract: a server that does one thing at a time | `StreamOfLines` |
| `WorkersRefinement` | refinement of `LineServer` by threads, driver and ring | `WorkerProperties` |
| `SocketServer` | the process: main, signal, threads, descriptors, clients | |
| `ServerProperties` | its properties | `SocketServer` |
| `Threading`, `ThreadingProperties` | the threading example and its properties | |
| `SystemCalls`, `SystemCallsProperties` | the system call example and its properties | |
| `CircularBufferProofs` | lemmas on the ring's operators: shape, contents, `AddEntry`, `FindEntry`, sums of sizes, strings put end to end | `CircularBuffer`, `TLAPS` |
| `BufferUseProofs` | theorems on the ring in use | `BufferUse`, `CircularBufferProofs` |
| `DriverProofs` | the driver's lock and memory; what its callers read and find; refinement of `DeviceLog` | `DriverProperties`, `CircularBufferProofs` |
| `WorkersProofs` | the same under the server's threads; packets, replies, lines | `WorkerProperties`, `DriverProofs` |
| `LineServerProofs` | refinement of `LineServer`; each client's own line | `WorkersRefinement`, `WorkersProofs` |
| `ServerProofs`, `ThreadingProofs`, `SystemCallsProofs` | theorems on the process and the examples | the properties of each, `TLAPS` |
| `MC...` | inputs for TLC | |

`AesdWorkers` is the composition of the server's threads with the driver: a step of
it is a step of a thread outside the driver, or that and the beginning of a system
call, or a step of `AesdDriver`. `SocketServer` looks at the same threads from the
outside: a call on the device is one step that ends, and what counts is who waits
for whom.

### Correspondence to the code

*Driver.* `lock` is the owner of `dev->lock`. The kernel's `mutex_unlock` does not
ask who calls it in a production build, so the model clears the owner for any
caller. `ring` is `_circular_buffer` as a record; `heap` maps each block to its
contents (`NULL` when free), so that `kfree` of the wrong block, a missing `kfree`
and a use after `kfree` are all states of the model; `partial` is
`_partial_write_buffer`, its size being the length of the block. `op[t]` is where
thread `t` is in a handler, with the locals (`kbuf`, `combined_buffer`, `count`,
the position the VFS passes) and, afterwards, the result. A handler is split at
the lock and at each access to the device's memory: `WriteCombine`,
`WriteInstall`, one `WriteLine` for each iteration, `WriteReturn`, and each failing
exit of its own. `f_pos` is only stored back by a read that succeeds, as in the
VFS. `Oops` is a step on freed memory; the runs stop there. Between two
steps of a handler other threads run, within one they do not: when exclusion is broken
the code has still more outcomes (two threads in one `memcpy`) than the model. The per-call
temporary `kbuf`, which nobody else can reach, is not in `heap`.

*Connection threads.* `wpc` follows `data_processing`: `loop` is the test of the
`while`, `recv` the blocking call, `lock_io`/`io`/`in_io` the first critical
section, `lock_stream`/`stream`/`reading` the second. `Recv` appends, sets
`end_of_packet` at a newline, and chooses the next place as the two `if`s do.
`Send` is one `send` of what was read: it ends when the client makes room, or fails, and
`file_mutex` stays locked until then. `ReallocFails` is the failing exit of `socket.c:203-206`, which unlocks a mutex
that another thread may have locked and leaves the socket open; the thread is `gone`.
A command text `AESDCHAR_IOCSEEKTO:x,y` is one symbol that `Command` maps to
`<<x, y>>`; that is what `sscanf` makes of the head of the packet. `x` not below
`MAX` means that the text is written as data. `lseek(fd, 0, SEEK_CUR)`, used for
logging, changes nothing and is left out. `end_of_packet` starts with a value from
`Garbage`: `{FALSE}` is fresh memory, `BOOLEAN` is what `malloc` may really return.

*Server process.* `fds` is the descriptor table: a new file gets the lowest free
number; `Without(S)` is `close` of the numbers in `S`, whatever they stand for.
`mpc` follows main; the three closes of the listening socket are `Signal`,
`CloseListener` and `CloseMain`. `client` is what a client has done last. `Flagged` are the
connections whose `end_of_packet` happens to be true from the start: a part of their line
goes on to the reply (`RecvPart`). `Stream` is a whole reply, which takes until the client has read
it; `RecvNoMemory` is the failing `realloc`.
A process that cannot become a daemon, or has no memory for `conn_info`, ends in
`StartFails`.

*Threading example.* `mpc`, `round` and `turn` say which thread main deals with: a
round is one `if` of main, and starts its threads until one cannot be started.
`NoteId` is what the starter does with `thread_data` after `pthread_create`; it is a
step of its own because the thread runs by then. `block` is the state of each
`thread_data`. Sleeps end at any time, so every order the two waits could lead to
occurs.

*System calls.* `cpc` and `fn` follow the caller; `child` is its child process: the
place between fork and exec, what each descriptor stands for, and the wait status as
`<sys/wait.h>` encodes it. `wait_any` is the call after a fork that failed: it waits
for process -1. A status nobody has written (`WaitFails`, `WaitAny` without
children) gives either answer. `system()` is its shell: exit code 127 when the command
cannot be run, and 128 and the signal, or the signal itself, when it is killed.

### The log of lines

`DeviceLog` says what a write does to the device as seen from outside: it is called with its
bytes (`Write`), and then either returns an error with nothing taken (`Fail`), or takes effect at one
step, which joins exactly its own bytes to the unfinished line (`Accept`). While it is in effect no
other write is, its lines are completed one by one (`CompleteLine`), and it returns their number
only when no newline is left uncut (`Return`). When memory runs out for a line, what has not become one is
lost and the writer gets an error (`LoseRest`). The other calls return what they return and
change nothing (`ReturnOther`). The device empties only when it is unloaded, which nobody is using
then. The refinement mapping (`WriteOf`, `Rest`, `Lines`) says how far each caller of the driver
is in such a write.

### The line server

`LineServer` says what the server, the driver and the ring together are for: each
client's request is applied in one step and answered in another, the answer being
what is kept at one instant. The refinement mapping takes a line for applied as soon
as `aesd_write` has joined it to the unfinished line (`WriteCombine`); that the loop
moves it into the ring line by line is hidden, because `Latest(Lines \o Cut(Rest))`
does not change. An answer is given when the thread has read the end of the
device and unlocks. The specification lets other requests come between the two steps
of a client, because the code does (`socket.c:233`).

## Runs

Passing runs, each with one mutant for every property (a small fault, written next
to the definition it alters, that makes TLC refute the property):

| run | asks | instance |
|---|---|---|
| `MCBufferUse` | is the ring the log of the latest entries, and does find_entry address it? | MAX 4, entries of 0, 1 and 3 bytes |
| `DriverSequential` | does each write join its own bytes to the promised line log, or say that it has not, for one caller, every call, every failure, reloads? does every step of a handler leave it less to do? | MAX 2, 6 strings with 0 to 2 newlines, 4 blocks |
| `DriverWriters` | do concurrent writes take effect one at a time, between call and return, and does every call return? | 2 callers that write and seek, MAX 1 |
| `Workers` | does `file_mutex` make up for the driver's lock? are replies untorn, memory sound, locks released? does nobody wait for a waiter, and does every critical section come to its end? does only a thread's own flag make it answer early? does a thread with a packet finish? | 2 threads, MAX 1, lines in parts, reads of 1 byte, every failure, garbage in the flag, clients that read |
| `WorkersServe` | do threads, driver and ring behave as a server without concurrency? | 3 threads, MAX 2, lines, parts, bytes after the newline, seeks |
| `ServerFiles` | whose file does each descriptor stand for, through a shutdown too? lifetime of the mutex; does the shutdown only move on, and what can hold it up? | 2 connections, one with garbage in its flag, 3 descriptors, every failure |
| `ServerServes` | can clients that send nothing, or do not read, keep others from being accepted? can silent clients keep others from being answered, as long as clients read? does a signal end the loop? have ended threads closed their sockets? | 2 connections, one with garbage in its flag, 5 descriptors, failing `recv` |
| `MCThreading` | who uses and frees `thread_data`, who waits for whom, in every order, and does main end? | rounds of 1, 2 and 2 threads, every failing start |
| `SystemCalls` | what does each answer tell of the command? is the output where it belongs, are the children gone? | 2 callers, 3 functions, every failure, callers with and without a standard output |

Runs that refute a statement of the repository's comments (the findings):

| run | the statement | what happens |
|---|---|---|
| `DriverReadEnd` | the lock synchronises access | a read at the end unlocks twice; the second time for somebody else |
| `WorkersGarbage` | flag to indicate end of packet | never initialised: a reply before the line is complete |
| `ExecForkFails` | false if fork failed | the answer comes from a status nobody wrote: it may be true |

### What the passing runs rest on

Several properties hold only because of something the run assumes. Taking it away
makes TLC refute them; each is a behaviour of the code worth knowing:

| property | assumed | without it |
|---|---|---|
| `MutualExclusion` of `DriverWriters` | nobody closes the device | with `"release"` in `Calls`: `aesd_release` (`main.c:60`) unlocks for whoever holds the lock |
| `OwnLineReturned` | no more lines than `MAX` (a condition of the property) | `file_mutex` is released between the write and the reply (`socket.c:233`), and others push the line out |
| `WholeLines` | nobody sends after a newline (a condition); its theorem also assumes that no realloc fails | what follows the newline becomes the beginning of another client's line (`socket.c:230`) |
| `ImplementsLineServer` | no call fails, the flag starts false | a failing write is only logged, and the reply goes out without it |
| `CallsAreSerial`, `MemorySound`, `ReplyIsStream`, `OwnersGoOn`, `SectionsEnd`, and the theorems on them | no realloc has failed yet (a condition) | a failing realloc unlocks another thread's mutex (`socket.c:205`) |
| `CleanFlagsAnswerPackets` | the thread's own flag was false when it started (a condition) | it answers a part of a line (`WorkersGarbage`) |
| `PacketAnswered` | clients read (`ClientsRead`) | `send` (`socket.c:123`) blocks with `file_mutex` held |
| `OwnFiles` | after a signal, the device is not under the number of the listening socket (a condition) | that number is closed by the handler, `client_handler` and `main`; a thread's device may have got it in between |
| `EndedHaveClosed` | two descriptors for each connection and one for the listener, no faults `"open"` and `"realloc"` | the early returns at `socket.c:182` and `socket.c:206` keep the socket |
| `OnlyClientsDelayShutdown`, second disjunct | - | nothing interrupts the `recv` of a thread whose client is silent, or the `send` of one whose client does not read, which keeps `file_mutex` besides: `pthread_join` (`aesdsocket.c:107`) can wait for ever |
| `OnlyClientsDelayShutdown` | - | a client that hangs up within a line leaves a thread that calls `recv` again and again until the signal (`socket.c:194`): it does not delay the shutdown, but runs until then |
| `LineAnswered` | clients read (`ClientsRead`, a condition), no failing `realloc` | as for `PacketAnswered`; a failing `realloc` ends the thread without an answer |
| `RoundsAreSettled` | every thread of the round could be started (a condition) | the first is never joined nor freed, and the mutex may be destroyed before it locks it (`main.c:29`) |
| `AnswersTellOutcome` | the call saw its own child's status (a condition) | the result of `waitpid` is not looked at (`systemcalls.c:83`): the answer may be anything |

Three properties hold without such a condition because they state what the code does, where a
reader may expect better: `AnswersTellOutcome` says that a killed command of `do_system` is a success
(`systemcalls.c:21`, where the comment at lines 7-8 promises true only for a command that was
executed successfully), `OutputInFile` that a caller
without standard output gets none from `do_exec_redirect` (the file is opened as descriptor 1 and `fclose`
closes it, `systemcalls.c:146`), and `ShutdownMovesOn` that a thread that was never created
may be joined (`socket.c:382`), which fails or ends the process. `LockIsReleased` asks that every path
unlocks `dev->lock`; that the end of a read unlocks it twice is the finding of `DriverReadEnd`.

### Bounds

- `MAX` is 10 in the code and 1 to 4 here; `CapacityAssumption` allows up to 256,
  what the `uint8_t` offsets can address, and the theorems hold for all of it.
  Wrapping and eviction happen from the `MAX + 1`st line on, so a small ring shows
  them sooner. `WorkersServe` has one connection more than `MAX`, so that a line can be
  pushed out between its write and its reply.
- `Blocks` has `MAX + 2` members: the entries, the unfinished line and the one being
  made are the most the device ever holds at a time. Memory running out is the
  fault `"kmalloc"` (and, when exclusion is broken and blocks leak, an empty pool).
- `MaxPartial` stops callers from sending more bytes without a newline once so
  many wait; `MaxPos` bounds `lseek`; `MaxPacket` what one client sends. None of
  them forbids a path: they limit lengths.
- Blocks, and threads or connections that do the same, are symmetric; symmetry is
  used only in runs without liveness properties.
- Two callers are enough for `waitpid(-1)` of one to take the child of the other;
  rounds of two threads for one of them to be left behind when the other cannot be
  started.
- Strings are over one letter, the newline and the command symbols: the code looks
  for newlines and commands and copies everything else. A NUL inside a packet, at
  which `strchr` and `sscanf` would stop, is not modelled.

### Fairness

- Driver and threads: a thread that can take a step takes one (weak fairness: the
  scheduler), and a thread waiting for a mutex gets it if it is free again and again
  (strong fairness: kernel mutexes queue their waiters, and a futex wakes one at each
  unlock). The handlers themselves never wait for anything but the lock.
- Nothing is assumed of clients, unless it says so: `WSpecReading` adds to `WSpec` that
  clients take what they are sent, and `LineAnswered` has that as its condition
  (`ClientsRead`). They never need send anything. When a client does not read, `send` blocks for ever and
  `file_mutex` stays locked, so `PacketAnswered` is checked under `WSpecReading`;
  `OnlyClientsDelayShutdown`, `SignalEndsLoop` and `ClientAccepted` ask nothing of any client.
- In the examples, threads and children go on, a mutex that is free again and again
  is obtained, and commands end. A call whose own fork failed may wait as long as
  others have children; nothing is said of it.
- `EveryCallReturns` is checked where exclusion holds. With the stray unlocks a
  writer can be kept busy with other writers' lines for ever.

## Proofs

Each theorem holds for every value of the constants that the named `ASSUME`s of the
modules allow; TLC evaluates these in the runs. (`NullIsNoString` and `NullIsNoPosition` only
say that the mark of a free block, and of a position that is not there, is no string and no
number.) Every invariant of the passing runs is proved, and so are the three refinements. The type
invariants of the ring, the connection threads and the examples are proved only (`BufferShape`,
`ServerTypes`, `ThreadingTypes`, `SystemCallsTypes`); the runs spend their properties on more.

The ring:

| theorem | statement | argument |
|---|---|---|
| `BufferShape` | `Spec => [](TypeOK /\ Shape)` | inductive: the occupied slots are known from the offsets and `full` |
| `BufferImplementsLog` | `Spec => ImplementsLog` | `AddEntry` on the ring is `Remember` on its contents: one case for a ring that has room, one for a full ring, where every index shifts by one modulo `MAX` |
| `EveryByteFound` | `Spec => []FindsConcatenation` | the entries start at the running sums of their sizes; `find_entry`'s loop stops at the one whose interval holds the position |

The driver:

| theorem | statement | argument |
|---|---|---|
| `NoPathKeepsLock` | `Spec => []LockIsReleased`, for any callers | inductive `LockInv`: the owner of `dev->lock`, if it has one, is inside a handler; `StepLock` sorts every step of every handler into taking, keeping, leaving or nothing |
| `WritersExclude` | `Spec => []MutualExclusion` if nobody reads or closes | inductive `ExclusionInv`: whoever is inside owns `dev->lock`, which no reload resets because a caller has its file open |
| `MemoryApart` | `Spec /\ []MutualExclusion => [](HeapExact /\ NoUseAfterFree)` | inductive `ApartInv` (with `MemInv`): a write owns the unfinished line while it is inside; a slot the ring has not reached is empty, so `AddEntry` drops a block only when it evicts it (`AddReplaces`); what `memchr` and `find_entry` find is there, by well-founded induction for the least index |
| `DriverTypes` | `Spec /\ []MutualExclusion => []TypeOK` | inductive `TypeInv`: `ApartInv` and the type of each handler's locals |
| `ReadsContiguous` | `Spec /\ []MutualExclusion => []ReadsAreContiguous` | inductive `ReadInv`: what a read has copied is `SubSeq(Stream, f_pos + 1, pos)`; an iteration appends what `find_entry` found, which is the stream at `pos` |
| `SeeksFindCommands` | `Spec /\ []MutualExclusion => []SeekFindsCommand` | the loop of the ioctl computes the running sum that `find_entry` stops at |
| `DriverImplementsLog` | `Spec /\ []MutualExclusion => ImplementsDeviceLog` | from `ApartInv`, step by step: `WriteCall` is `Write`, `WriteCombine` is `Accept` with the caller's own bytes, `WriteNoMemory` is `Fail`, `WriteLine` is `CompleteLine`, `WriteLineNoMemory` is `LoseRest`, `WriteReturn` is `Return`; a call that is not a write is `ReturnOther` when it changes what its caller has got; locking and installing the unfinished line stutter. That no other write is in effect at an `Accept` is the exclusion |
| `HandlersAlwaysEnd` | `Spec /\ []MutualExclusion => HandlersEnd` | `Left(t)`, a bound on the steps thread `t` has left in its handler: a turn of the read loop copies at least one byte (`find_entry` never finds the end of an entry), one of the write loop takes at least the newline off the unfinished line (`StepsShorten`) |

Exclusion is a hypothesis of these theorems because the driver does not provide it by
itself (`DriverReadEnd` refutes it). It is discharged three times: by `dev->lock` when
nobody reads or closes (`WritersExclude`, whence `MemoryExact` and
`WritersImplementLog`), by there being one caller, which makes every call
(`OneCallerMemoryExact`, `OneCallerServed`), and by the mutex of the server.

The connection threads:

| theorem | statement | argument |
|---|---|---|
| `SerialCalls` | `WSpec => []CallsAreSerial` | inductive `Inv`: until a realloc has failed, who is in a critical section of `data_processing` owns `file_mutex`, and who is in a system call is in such a section |
| `DriverExclusion` | `WSpec => [](AnyGone \/ MutualExclusion)` | from the same `Inv`, which does not mention `dev->lock` |
| `ServerReleasesLock` | `WSpec => []LockIsReleased` | `LockInv` needs no exclusion: a thread enters the driver only by a call |
| `NobodyWaitsForWaiters` | `WSpec => []OwnersGoOn` | `Inv`, `LockInv` and `OwnerHolds` (the owner of `file_mutex` is in a critical section): whoever has `dev->lock` is inside a handler, so in a call, so it is the owner of `file_mutex` itself |
| `SectionsAlwaysEnd` | `WSpec => SectionsEnd` | `Ahead(w)`, what the owner of `file_mutex` has left to do: the bytes of the stream behind its position, each worth a turn of `stream_file_reader`, and `Left(w)` of the call it is in; a read that brings nothing is the last one, and the stream does not change while it is read (`Served`); files stay open (`FilesOpen`) |
| `ServerMemorySound` | `WSpec => []MemorySound` | inductive `Sane`: the driver's `MemInv`, with the exclusion that `file_mutex` gives; reads and closes included |
| `ServerTypes` | `WSpec => [](AnyGone \/ WTypeOK)` | part of `Sane` |
| `ServerKeepsDevice` | `WSpec => [](AnyGone \/ (TypeOK /\ ReadsAreContiguous /\ SeekFindsCommand))` | from `Sane` and `Served` |
| `RepliesAreStreams` | `WSpec => []ReplyIsStream` | inductive `Served`: a thread begins its reply at position 0 (`Asking`); while it reads and sends, the reply, what is read and not sent, and what a read has copied so far are consecutive parts of a stream that nobody else can change (`Sent`, `Delivered`, `Fetched`) |
| `CompletePacketsAnswered` | `WSpec => CleanFlagsAnswerPackets`, for any `Garbage` | inductive for each thread whose flag starts false: `PacketInv` and `Clean(w)`: before a newline is in its packet the flag is false, and a packet that has one keeps it, whatever other threads do |
| `LinesStayWhole` | `WSpec => []WholeLines` if no realloc fails | inductive `WholeInv`: between two critical sections there is no unfinished line, so a write moves lines of its own packet only; once a client has sent something after a newline the property claims nothing (`Trailing`, which is stable) |

The server of lines:

| theorem | statement | argument |
|---|---|---|
| `ServerImplementsLines` | `WSpec => ImplementsLineServer` if `NothingFails` | inductive `ServerInv`: `Sane`, `PacketInv`, `Served` and, for every thread, `Clean` as above, `RestInv` (no newline is left in the unfinished line unless a write is in progress) and `Serving` (where each thread is in its request); step by step: `WriteCombine` and `IoctlSeek` are `Apply`, the `UnlockStream` after the end of the device is `Answer`, every other step leaves what the clients see as it is |
| `OwnLinesReturned` | `WSpec => []OwnLineReturned` if `NothingFails`, the threads are finitely many and nothing that is received at a time has two newlines | inductive with `OwnInv`: behind the line of a client that waits for its answer are at most as many lines as other clients have written since, so with no more than `MAX` of them it is still kept; only then is it a statement on the answer |

`NothingFails` is the assumption of the run `WorkersServe`, for all instances: no failing
kmalloc, copy, realloc or send; the flag starts false; if the blocks are finitely many there
is one more than the entries and the unfinished line need; and a packet that a client
completes within `MaxPacket` is one of the `Payloads`. That is where `Serving` gets its strength from: without a
failure each request has exactly one step at which it takes effect. What makes the
refinement hard is the cut: `WriteCombine` appends a whole packet to the unfinished line
while the lines of it enter the ring one by one, later. The lemmas on strings say how
`Cut` divides a string that is appended to another (`CompletedAfter`, `CutShape`), and what the
loop takes off (`CutFirst`), so that `Latest(Lines \o Cut(Rest))` is the same before and after each
turn (`LatestShifts`). A seek is `Apply` because the sum the ioctl computes is the length
of the lines before (`SeekIsBefore`).

`WritersExclude` says what the driver's lock is worth by itself, `DriverExclusion`
what the server adds. In the server the driver's lock cannot help: `aesd_release`
runs outside `file_mutex` and clears `dev->lock` while another thread is inside.
The invariant has to follow `file_mutex` instead, and it ends with the first failing
realloc, which unlocks `file_mutex` for somebody else.

The server process and the examples:

| theorem | statement | argument |
|---|---|---|
| `ServerTypeCorrect` | `Spec => []TypeOK` | inductive with `ListInv`: main has accepted a connection before it makes a node for it |
| `MutexOutlives` | `Spec => []MutexOutlivesThreads` | inductive `ListInv`: each thread that has not ended has a node in `thread_list`, and the list is empty at the end |
| `FilesAreOwn` | `Spec => []OwnFiles` | inductive `FilesInv`: a number handed out was free, and a number closed was the closer's own or the listener's; a client's socket never has that number, because nobody is accepted once the listener is closed; and without a signal `main` closes the listener only when there are no threads |
| `ThreadsCloseConnections` | `Spec => []EndedHaveClosed` with two descriptors for each connection and one for the listener, and no faults `"open"` and `"realloc"` | inductive `Traced`: a file is open under one number only, the one its owner remembers, so a close of that number by anybody closes the file; counting them, a thread always finds a free number for its device |
| `ShutdownNeverTurnsBack` | `Spec => ShutdownMovesOn` | with `TypeOK` and `ListInv`: once `exit_requested` is set, each step of main goes up `MainWay` or takes a node off the list, each step of a thread goes up `ThreadWay` (the test of the `while` then leads to the end only), and a step that does neither is a client's |
| `BlocksOutliveUse` | `Spec => []UsedBlocksAreLive`, for any rounds | a block is freed only by the joiner, after the thread has ended and the starter is done with it |
| `RoundsSettle`, `ThreadingTypes` | `Spec => []RoundsAreSettled`, `[]TypeOK` | what main has reached in a round says which threads have ended and which blocks are freed |
| `NobodyWaitsInVain` | `Spec => []WaitsAreForRunners` | inductive with `OwnerHolds`: a thread leaves `hold` in the step that unlocks the mutex; main joins only in a round in which every thread was created |
| `OutcomesAreTold`, `SystemCallsTypes` | `Spec => []AnswersTellOutcome`, `[]TypeOK` | a child's status is 0 only if its command was run, and a signal only if it was; it is not changed once the child is reaped, and the answer is taken from it then |
| `OutputGoesToFile` | `Spec => []OutputInFile` | inductive: the descriptors of a child at each place between fork and exec, with a standard output and without |
| `NoChildIsLeft` | `Spec => []NothingIsLeft` | a call with a living child is in `wait`, which it leaves only when the child is gone |

Induction over data is done on sets: to prove something of every number up to `n`, the
set of the numbers that have it is shown to hold 0 and to be closed under adding 1
(`NaturalInduction` in `CircularBufferProofs`). A function defined by recursion in a
`LET` is known to the prover as a `CHOOSE`; that such a function exists is proved first, by
the same induction (running sums, and the folds behind `FlattenSeq`).

Only model-checked: everything that needs fairness (`EveryCallReturns`, `PacketAnswered`,
`SignalEndsLoop`, `OnlyClientsDelayShutdown`, `LineAnswered`, `ClientAccepted`, `MainReturns`,
`CallsReturn`), because the prover does not do `ENABLED` and leads-to. What these
rest on besides fairness is proved. A thread goes on for ever only by waiting for ever or by going round a loop for
ever: `OwnersGoOn`, `LockIsReleased` and `WaitsAreForRunners` say that whoever is waited for is
not waiting in turn, but for its own client's reading, and `HandlersEnd`, `SectionsEnd` and `ShutdownMovesOn` that every step of
a handler, of a critical section, and of the process after a signal brings its end nearer, by a measure in the
natural numbers that no other thread can raise. The step from there to "it ends" is the fairness stated
above. (`[][A]_vars` says nothing of a step that changes nothing; the lemma `StepsShorten` has
no such exception, so that a turn of a loop that leaves everything as it was is excluded as well.)
`OwnLineReturned` is model-checked in the same instance as its theorem allows;
that a packet of several lines would push others out faster is why the theorem asks for one
newline, and a failing write is why it asks for none to fail.

## Not modelled

- `find_entry` and `add_entry` called with null pointers, and `llseek` with an
  unknown `whence`: error returns without effect.
- A file shared by several threads (by dup or fork): nothing in the repository shares
  one, and no document says what its position should be.
- `getopt`, logging; the `timestamp` thread, which main does not start,
  and the functions nobody calls (`parse_seekto_command`, `read_from_file`,
  `server_handler`, `handle_signal` of `socket.c`).
- The arguments of a command, and its output that stdio has not flushed when another
  thread forks.
- A signal delivered to a connection thread (its `recv` then fails, which is the
  fault `"recv"`).
- Scripts, the finder application and build files: see the components in `PROJECT.json`.

## Plan

1. Done: the ring and its proofs; the driver and what its lock guarantees; the
   connection threads on it with the exclusion theorem, and the memory theorems of both;
   the server process with the theorems on its mutex and its descriptors; failing registration and start; the line server and its
   refinement; the threading and system call examples with their theorems.
2. Done: the types of every component, the bytes that reads, seeks and replies reach, and
   the refinement of `DeviceLog`, proved.
3. Done: `WSpec => ImplementsLineServer` and `OwnLineReturned`, proved.
4. Done: the safety half of the liveness properties, proved: who waits for `dev->lock`,
   `file_mutex` or the mutex of the threading example waits for a thread that has its next step
   to take, and the loops that run under a lock, or after a signal, have an end.
5. Left to TLC: the liveness properties themselves (see "Only model-checked").
