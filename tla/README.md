# A verification of the SOI laboratory programs

The repository holds the solutions of an operating systems course: a chat over
a monitor, two chats over semaphores, changes to the memory manager and the
scheduler of MINIX 2, a small virtual file system, and exercises. They have
little code in common, so the project has a group of modules for each. This
file says what the parts are, which module models which part, what TLC checks
and TLAPS proves about it, and what is left.

## 1. Inventory

| Part | Source | State | Operations | What is hard about it |
|---|---|---|---|---|
| Monitor | `monitory/monitor.h` | entry semaphore, per condition a semaphore and a count of waiters | enter, leave, wait, signal | a signal hands the monitor over; wait is three steps |
| Thread chat | `monitory/chat.cpp` | list of messages, two member iterators, loop counters | send_msg, read_msg, get_size; client and reader threads | `if` before wait, signals at two sizes only, a read outside the monitor |
| Physical memory | `pamiec/usr/src/mm/alloc.c` | hole list, free slots, swap hole, policy | alloc_mem, free_mem, mem_init, merge, do_hole_map, do_worst_fit | long orders of allocation, fragmentation, limited table |
| Swapping | `pamiec/usr/src/mm/alloc.c` | flags and segments of processes, inswap queue, outswap | swap_on, swap_off, swap_in, swap_out, swap_inqueue | double bookkeeping, retry loops, kills of queued processes |
| Semaphore chat | `semafory/czacik.c`, `nic.sh` | ring in shared memory, three System V semaphores | down, up, send_msg, read_msg; users, reader | both outlive the program; kills; ring used from both ends |
| Earlier semaphore chat | `semafory/chatting.c` | the same ring, three named semaphores | the same, with mutex before empty | the mutex is held while waiting; semaphores never removed |
| Scheduler | `szeregowanie/zmiany_*.c` | ready list, quanta, groups, first-visit flags | sched, do_fork, set_scheduler, change_group | numeric edges of the quantum, list of one |
| Programs over the scheduler | `szeregowanie/test_grupa.c`, `procesy.c`, `mm_main.c` | how far each has got, children to make and to wait for | set the proportion and retry; fork, compute, exit, wait | other processes between two calls; fork that fails; children that must all get the processor |
| Virtual file system | `system_plikow/*` | disk files: superblock, directory, bitmap; their names | createVFS, deleteVFS, readInfo, mls | 32-bit arithmetic; a field used before it is read; no lock between programs; truncate by name; calls that fail unnoticed |
| Others | `listy.cpp`, `semafory/chat.c`, `kolos_shell`, memory test programs, tables | | | |

How parts interact: within the thread chat by the shared list, under the
monitor; within the semaphore chats by shared memory and semaphores; the memory
manager and the scheduler are called by MINIX code that is not in the
repository (fork, exec, exit, signals, the clock, ready and unready), which is
modelled by what it does to the state of these files. The test programs of the
scheduler reach it by system calls, the programs of the file system meet at the
disk files. Otherwise no two parts of the repository call each other.

What makes each part correct:

* Monitor and thread chat: mutual exclusion; the list within its bounds; order
  of delivery; no lost wake-up; a hang only where the numbers given do not match.
* Memory: no click in two hands and none lost; the table never overflows; the
  policy in force is obeyed; a process is on swap exactly when flagged; every
  call returns.
* Semaphore chats: semaphores that agree with the ring, whatever interleaves;
  the ring a double-ended queue; a run that comes to rest.
* Scheduler: a list of exactly the ready processes; only the head moves; no
  quantum longer than a period; everybody runs.
* Its programs: the retry succeeds; parent and children end, and every slot is freed.
* File system: what create makes is a whole disk of the size asked for; readers
  refuse what is no disk, stay within what they have read (on disks whose blocks an
  `int` can count), and print the truth.

`PROJECT.json` lists the hazards one by one, at their lines, with the
properties that would catch them.

## 2. Modules

| Module | Models | Notes |
|---|---|---|
| `Monitor` | `monitor.h` | variables `s`, `w`, `waitingCount` are the semaphores and counts; one action per semaphore operation |
| `Chat` | `chat.cpp` | instantiates `Monitor`; one action per stretch of code between two operations on semaphores or the list |
| `PriorityQueue` | promise of `Chat` | bounded pool of two FIFO queues |
| `HoleTable` | `alloc.c`, what only touches the hole list | operators on a record of list, free slots, panic |
| `HoleList` | the same functions of `alloc.c` over the links, with the loops' pointers | extends `HoleTable`, whose table it keeps as the history variable `promised` |
| `Alloc` | `alloc.c`, the rest | `pc` says which loop the memory manager is in |
| `PhysMem` | promise of `Alloc` | every click is free or has one owner |
| `RingQueue` | `struct Queue` of both semaphore chats | operators only |
| `Czacik` | `czacik.c`, `nic.sh` | runs of the program over what is left of the run before |
| `Chatting` | `chatting.c` | the same for named semaphores |
| `Deque` | promise of the ring in both | |
| `Sched` | `zmiany_proc.c`, `zmiany_system.c` | pointers as in the code; `ready` and `unready` external |
| `ReadyQueue` | promise of `Sched` | a line of which the first may go to the end |
| `SchedUsers` | `test_grupa.c`, `procesy.c`, `mm_main.c` | extends `Sched` with what programs do when they have the processor |
| `DiskLayout` | the macros of `VFS.c`, `VFS.h`, `types.h` | operators; words of any width |
| `Vfs` | `VFS.c`, `helpers.c` and the four programs | extends `DiskLayout`; one action per library call that touches a file |
| `ChatProofs`, `AllocProofs`, `CzacikProofs`, `ChattingProofs`, `SchedProofs`, `VfsProofs` | | theorems |
| `HoleProofs` | | theorems about `HoleList`; lemmas on the list of holes |
| `RingProofs` | | lemmas on the ring and on sums over the two users |
| `MC*` | | values for the constants, symmetry |

### Thread chat (`Monitor`, `Chat`)

A thread's `pc` is `enter`, `test`, then `find`, `insert` (clients) or `pop`
(reader), `signal`, `leave`; `unlock` and `block` are the steps of
`Monitor::wait`, `reenter` is the `enter()` inside `Monitor::signal`, `count`
is the reader's `get_size()` after it has left. The iterators `next_pri` and
`last` are positions in the list, kept as members, set by `find` and used one
step later by `insert`. A message is its priority, its sender and the pass of
the loop that sent it, so two messages of one client differ. All numbers of
the command line are chosen at the start (`args`). The threads are there from
the start: the delays of `main` and of the reader only make some interleavings
unlikely.

### Memory manager (`HoleTable`, `HoleList`, `Alloc`)

In `HoleTable` and `Alloc` the linked list of holes is a sequence and the unused
slots are a number: no operation of the file depends on which slot of the table a
hole is in. `HoleList` is the reason why this may be said. It has the array with
`h_next`, `hole_head` and `free_slots`, and every loop over it turn by turn:
`loop.at` is the function whose loop is under way, the rest of `loop` its pointers.
A pointer that has no value when its loop begins starts as any pointer (`garbage`);
so does `prev_ptr` of first fit after `swap_out`, when it is left from the walk
before. What comes before and after a loop is one step with its first or last turn:
MM is one process that nobody interrupts. `outside` are the clicks that are not
MM's; a caller may give back any block of them, and anybody may ask at any time,
which is more than `Alloc`'s processes do.

In `Alloc`, `request` says for whom `alloc_mem` is running; `swap_in` and `swap_off` are the places
where it is called in a loop. A segment is a base and a length. `PAUSED` stands
for the three ways of being blocked on a call of the memory manager, `REPLY` is
as in the code; `TRACED` is left out, it only takes candidates away. Failing
disk operations are left out, as the code ignores them too. In `SwapOffEnd` the
read of `h_next` of `NIL_HOLE` is undefined: the word found there may end the
loop, or the manager is in the state `undefined`, which the model does not leave.
`AddressSpace` is the number of clicks a `phys_clicks` addresses, which
`swap_maxsize = 0 - swap_base` stands for. A killed process may be in the queue:
the main loop calls `swap_in`, which cleans the queue, before the next request,
so `Fork` never takes a slot that is in it.

`swap_in` calls `check_pending` for each process it has brought back, in the middle
of its walk over the queue (line 391). That is the state `signal`: the process may be
woken or killed by a signal that was kept for it; when it is killed, its parent and
others may be woken, and others of its group killed, and those of them that are on swap
are put on the queue that is being walked (`MayHear`, `Exit`, `Wake`, `Recall`).
`SignalsEnd` is the return. `check_pending` is MINIX's, so which signals there are is
left open.

`do_hole_map` mixes an `int` with `sizeof`, so `unsigned` takes `nbytes` modulo `UINTS`
before it is divided or compared; the run has 128 for the code's 2^32.

### Semaphore chats (`RingQueue`, `Czacik`, `Chatting`)

One action per semaphore operation, and two for each access to the ring (slot
and index, then `size`), so that a missing mutex would show. `Start` is `main`:
it resets the queue and gives values to semaphores only when they are new.
`Kill` ends all processes of a run at any point; `CleanUp` is `nic.sh`. The
constant `Tidy` says whether `nic.sh` is run between runs of `Czacik`;
`Chatting` has no such script.

### Scheduler (`Sched`)

`sched` is the clock's call when the running process has used a tick, in the
three cases of the code. `held` is a history variable: how many ticks the head
has had in a row. The process that runs is the head of the list, as `pick_proc`
takes it. Kernel tasks and servers are in other queues, which the code does not
change. 100 is the constant `FULL`.

### Programs over the scheduler (`SchedUsers`)

`SchedUsers` composes the scheduler with the programs that use it: `prog` says
which program a process runs, `at` where it is in it, `left` what it has still to
do. A process makes a step of its program only when it is at the head of the
list; ticks come in between as they like. A call that goes to MM and comes back
leaves the caller at the head and is one step: MM and the system task run in
other queues, before any user process. `fork`, `wait`, `exit` and
`kill` are MM's and external: a child is blocked until MM has made it ready, and its
slot is kept after it has ended until the parent has asked for it. A `fork` that fails
is taken for a child by `procesy`, whose loop does not look. A child may be killed while
it computes (`KillChild`). `procesy` returns when it collects such a child, or when
`times()` fails (lines 77-86; `Collected` leads to `end`): its other children go on
without it, and init collects them when they end (`Ended`), or at once those that had
ended (`End`). Only children are killed: a `procesy` that is killed has promised
nothing. Processes that run none of the programs make every call of `Sched` at any
time (`Others`).

### Virtual file system (`DiskLayout`, `Vfs`)

`DiskLayout` has the macros under their names. An operation whose operands all
have type `size_type` is taken modulo `WORDS`; one with a `sizeof` among them is
done in `size_t` and is not. The run scales the sizes down together: words of 6
bits, blocks of 4 bytes with an index of 1, bitmap bytes of 3 bits, a directory
of 2 blocks. A positive `int` then asks for 11 blocks at most, which no
macro wraps; 0 wraps around and gives 22 blocks, as the code's 0 gives 2^32 / 4092.

In `Vfs` a name leads to an inode, and a program keeps the inode it has opened.
A file is its length, the `n_datablocks` of its superblock, the sizes of the
files in its directory and the set of bits of its bitmap. `createVFS` is three
steps (`FopenWb`, `WriteSuperblock` at `fclose`, `SetSize`), a reader four or five
(`Ftell`, the three reads, the printing). The superblock that `Ftell` uses before
it is read is any word. Each call may fail where the code has a branch for
it, or would not notice; `malloc` (line 106) does not. `readInfo` counts blocks in a
`size_type` and tests them as an `int` (`AsInt`): bits that are in no byte of the
bitmap (`Outside`) hold anything, or the program is killed (`PrintCrashes`). Nothing in
the repository writes a directory entry or
sets a bit, so disks with files come from `Images`, found at the start: whole
ones, copies cut short, a disk of no blocks, a file that is no disk. `asked`,
`written` and `disturbed` are history variables; the properties use them to say
which disks a promise is about.

What reading the code showed, besides the properties:

* `create_VFS` looks at none of `fwrite`, `fclose` and `truncate` and returns 0
  in any case; `DiskWhole` excludes names where one of them failed.
* The size test (line 84) compares with an indeterminate word. It can refuse a
  good disk with code 2, or let in a disk that does not match its superblock; it
  does keep out every file too short for a directory (`RefusedForAReason`), as
  no word predicts so small a size.
* `VFS.h:41` says that a file's size is in blocks, and so does `types.h:15` of sizes in
  general; `list_VFS_rootdir` takes it in bytes, and divides it into blocks.
  `PrintsTheTruth` (its part `ListAddsUp`) takes the code's side: it is about bytes. A
  directory written as the comments say would be listed wrongly; nothing in the
  repository writes one. A file of size 0 is listed as occupying all the address range.
* `is_free_bitmap_block` takes an `int` (`helpers.c:5`) and is given a `size_type`
  (line 46): from 2^31 blocks the number is negative, and no bit of the bitmap. So
  `WalkInsideBitmap` and `PrintsTheTruth` stop at 2^31 blocks, 8 TB. `createVFS` makes
  no disk of more, whatever it is asked for (the lemma `MadeIsNarrow`).
* `do_hole_map` compares an `int` with `sizeof` (`alloc.c:469`): only sizes from 0 to 3 are
  refused, and one below 0 is taken for a huge one. `TableSound` promises the caller's
  buffer to fit for sizes from 0, and for those below that the list is whole. Since the
  division is unsigned as well, `nr_pairs` is never negative and line 467 never needed.
* `procesy` leaves children behind when one of them is killed (lines 77-81).
* Two `createVFS` on one name at a time can leave the superblock of one with the
  length of the other, and both report success.

## 3. Runs

All runs finish within five minutes with two workers. `CHECK_DEADLOCK FALSE` is
in every configuration: the programs end or hang on purpose when their numbers
do not match, the memory manager stops in `panic` or `undefined`, and calls of
the scheduler and programs over the file system are bounded.

| Run | Question | Bounds |
|---|---|---|
| `chat` | mutual exclusion, bounds, order, wake-ups, refinement of `PriorityQueue`, coming to rest | 1 priority and 2 regular clients, capacity 3, up to 2 messages each, up to 4 reads |
| `chat_race` (violation) | is the list only touched inside the monitor? | 1 + 1 clients |
| `alloc_swap` | safety and termination of first fit and swapping, signals in the middle of it, refinement of `PhysMem` | 3 processes of 1 or 2 clicks, 3 clicks of memory, swap areas of 1 click and of more than fits, buffers of 0 to 24, 63 and some of less than 0 bytes |
| `hole_list` | do the links spell the table of `HoleTable`, whatever the pointers start with, under both policies? | 4 entries, 5 clicks of memory, a swap area of 2, requests for 1 or 2 |
| `alloc_worst`, `alloc_nil` (violations) | worst fit with swap; `swap_off` without holes | 2 processes, 3 clicks, swap of 2 |
| `czacik` | semaphores against the ring, refinement of `Deque`, coming to rest | ring of 2, up to 3 messages per user, 4 reads, 2 runs |
| `czacik_rerun` (violation) | reading from an empty buffer | ring of 3, second run without `nic.sh` |
| `chatting` | the same over named semaphores, and the order of waits | ring of 4 (it just holds the messages), 2 messages per user, 10 reads, 2 runs |
| `sched` | list, quanta, refinement of `ReadyQueue`, everybody runs; the retry of `test_grupa` and the end of `procesy` | 3 processes, period of 4 ticks, 6 calls between ticks, a run of `test_grupa` counted as 2 of them and one of `procesy` as 2 for each of its children, up to 2 children of 2 ticks |
| `sched_zero` (violation) | are 0 and 100 percent allowed? | 2 processes, period of 3 |
| `vfs` | disks that are made, refused, walked over and listed, with other programs in between | 3 programs on one name, sizes 0, 4 and 31, 7 images, one of more blocks than an `int` counts |

Why the bounds are enough to meet the interesting cases: three clients suffice
for two of them to wait on `full` while the third and the reader run; a
capacity of 3 separates the two signal sizes, 1 and CAPACITY - 1. In `Alloc`,
three processes over three clicks give full memory, holes on both sides of a
block (a merge of three), a memory with no hole at all, a process on swap while
another takes its place, and the only hole in the swap area. They do not come near the
bound of 2 * NR_PROCS holes: that it suffices is proved (`TableIsSound`). Five clicks and a swap
area have four holes that do not touch, so in `hole_list` the entries run out, holes
are in the middle of the list, and one is larger than the first, which worst fit has to
prefer. Its `VIEW` leaves out the numbers in unused entries, which are written before
they are read. Worst fit goes with no swap area (`alloc_worst` says why), so no passing
run of `Alloc` has it: its choice is checked in `hole_list`, and what follows from it, for
several chunks too, is proved for `Alloc`. Rings of 2 and 4
wrap in both directions. Three processes give a list with a head, a tail and a
middle; `procesy` with two children fills it, or a `fork` fails because another process
has the slot; with one child, a third process is there that computes, forks, and changes
groups and proportions while they run (4 of the 6 calls are left for that). When `procesy`
gives up waiting, a child runs on beside it or after it. Three
programs on one name give a reader between the steps of two writers, and a
deletion besides a reader and a writer; the images have groups of all
shapes, a bitmap that fills its last byte and one that does not, and every code
from 0 to 5 comes up.

Bounds that are in the guards: `MaxSend`, `MaxRead` (numbers on the command
line), `MaxRuns` (runs of a chat, or programs started over the file system),
`MaxCalls` (calls of the scheduler between ticks), `ProgramCalls` (what a run of
`test_grupa`, and each child of `procesy`, takes of them), `MaxChildren` and `Work`
(children of `procesy`, and the ticks each computes), and
`held <= FULL` in `sched`, which stops counting a hold that is already longer
than the property allows.

### The violations

* `chat_race`: `chat.cpp:205` calls `get_size()` after the monitor was left. The
  number is only printed, but the walk runs beside `insert_after`.
* `alloc_worst`: `alloc.c:95` starts from `hole_head` without the test
  `h_base < swap_base`. With memory full and swap on, worst fit gives out clicks
  of the swap area as memory. First fit has the test; `SwapSeparate` holds for it.
* `alloc_nil`: `alloc.c:319-323` deletes the swap hole, sets `hp = hole_head`,
  and the loop steps over it: with a full memory that is `NIL_HOLE`.
  (A deletion also never looks at the new head; since a swap hole is last and
  swap holes touch once all processes are in memory, nothing is missed.)
* `czacik_rerun`: `czacik.c:235-242`. `IPC_EXCL` fails when the semaphores exist,
  nobody notices, and the queue has been reset: the values of the semaphores are
  those of the queue of before.
* `sched_zero`: `zmiany_proc.c:51-52`. The concept allows 0 to 100 percent; with
  0 or 100 a group's quantum is 0, and `--p_ticks == 0` is never true again.
  In the runs that pass, the proportions are 1 to FULL - 1.

## 4. Fairness

* `Chat`, `Czacik`, `Chatting`: weak fairness of each thread or process as a
  whole: the kernel schedules what can run. No order among those that wait at a
  semaphore is assumed, so nothing is claimed about the delay of one client (the
  report's test 5); since every loop is finite, the whole still comes to rest.
  `Settles` for the semaphore chats is about a run that nobody kills; for
  `Chatting` the program is also assumed to be started at all.
* `Alloc` needs none: that every request is answered is the action property
  `EveryTurnCounts`, a number that every turn of the loops makes smaller.
* `Sched`: weak fairness of `sched`: the clock goes on and user processes use
  their ticks. Calls are bounded, so `EveryoneRuns` speaks of the time after them:
  with wake-ups to the front for ever, nobody could promise it.
* `SchedUsers` (`FairUsers`): weak fairness of the clock, as above; of MM, a server
  that answers before user processes run; and strong fairness of the steps of
  programs as a whole: between two ticks the process at the head has time for a
  call, so that when programs are at the head again and again one of them gets on,
  although a tick may take the processor from it each time. It does not say which.
  That a child is killed is assumed nowhere.
* `Vfs` needs none: each program is a straight line.

## 5. Proofs

`ChatProofs` proves, for every finite set of clients and every positive
capacity (the assumptions `ThreadsAssumption` and `NumbersAssumption` of `Chat`),
`Spec => []P` for `MutualExclusion`, `TypeOK`, `BufferBounds`, `PriorityFirst` and
`NoLostWakeup`, and that `Chat` implements `PriorityQueue`.

* *The lock.* None of these is inductive. `LockInv` says that there is one permit
  in the system: the entry semaphore, the threads inside, and the semaphores of
  the conditions hold exactly one between them. A signal with a waiter moves it
  from the signaller to the condition, `BlockOn` moves it from there to the waiter.
  `PermitMoves` shows that every step of every thread takes the permit, passes it
  on, gives it back or leaves it, and `LockStep` that each of these keeps
  `LockInv`. Mutual exclusion follows at once.
* *The list.* `DataInv` adds what a thread inside the monitor knows: after the
  test or the wait there is room (or a message), the iterator just found is where
  the priority messages, or the list, end, and, when somebody waits at a size
  that no longer asks for it, the signal is on its way: the thread inside is about
  to send it, or the permit is at the condition. `SendKeepsData` and
  `ReadKeepsData` take the steps one by one; `LenOfBuffer`,
  `InsertAtProperties` and `PriorityPrefix` are the facts on sequences they use.
* *The two queues.* With the priority messages in front, the list parts into a queue of
  each kind after `Parting` messages; that place is the refinement mapping.
  `InsertPuts` shows that `insert_after` behind the place the iterator found puts the
  message at the end of its own queue and leaves the other one alone, `PopTakes` that
  `pop_front` takes from the regular queue only when the other one is empty. The room
  `Put` asks for, and the message the reader takes, are what `DataInv` says of a thread
  at `insert` and at `pop` (`ChatImplements`).

`AllocProofs` proves every invariant and action property of `Alloc` that a passing run
checks, for any number of processes, any memory,
swap area and policy. `TypeOK`, `QueueSound` and `EveryTurnCounts` need nothing more:
whatever hole is picked, flags and queue change in the same way; the last counts
processes and turns, so it rests on the types (`TypeInv`). `TableSound`,
`SwapSeparate`, `PolicyObeyed`, `ImplementsPhysMem` and `MemoryAccounted` hold under two
hypotheses. `Roomy`: the chunks of memory, and one more for a swap area, are fewer than
the processes; the chunks are at most the 8 `NR_MEMS` of MINIX, `NR_PROCS` is 32 there.
`NotBoth`: worst fit and a swap area are not used together; `alloc_worst` shows what
happens then.

* *The list of holes.* The first part of `HoleProofs` says of each operation on the list which
  clicks are free after it (`In`) and that the list stays sorted, merged and
    within the slots; for `mem_init` that goes chunk by chunk (`LoadedSound`). The slots
  suffice because a hole always ends where
  something else begins: at the base of a block in use, at the end of a chunk or of
  the swap area. `Ends` are those places, and there are fewer of them than slots.
* *The memory.* `MemInv` says of each click whether it is free or whose it is, of each
  process whether its segments are where its flags say, and which sizes the requests
  under way ask for. Each action gives a block that was free to one process, or takes
  one back: the same steps that `PhysMem` has, so the refinement follows along the way
  (`AllocImplements`), and `MemoryAccounted` with it: no click is in two hands, and
  none of memory in no hands.
* *The queue.* `swap_inqueue` looks at the flag `SWAPIN` and not at the queue, so
  `QueueSound` is not inductive. `Queued` adds why the flag is enough: who is on the
  queue is flagged, or was killed and has no flags at all. `InTurn` says that
  `alloc_mem` works for the process at `pmp`, or for one that is not on the queue; the
  latter is what a fork into the slot of a killed process would break before
  `swap_in` has cleaned the queue, and `Fork` has it as a guard from MM's main loop.
  `TableOrder` shows that the processes `swap_off` adds are all there, once each.
* *The end.* `ToEnd` falls with every turn (`TurnIsNearer`): a process of the queue that
  `swap_in` has not come to weighs more (`Weight`) than all the candidates that may be
  swapped out for it, and one that is swapped out is no candidate any more
  (`OneCandidateLess`). It falls also with what the signals of line 391 do
  (`HearingIsNearer`). While the process brought back is alive, they can only wake or
  kill it: being woken costs one of those asleep (`Asleep`). Once it is dead they may
  wake and queue others, each of those not queued once (`Others`); so each process in
  use weighs more than all that its death may put on the queue (`DeathIsNearer`).
* *The hole map.* `MapFits` follows the words of `do_hole_map` through its unsigned
    arithmetic, for any `UINTS` half of which counts the bytes of two more holes than the
  table has.

The second part of `HoleProofs` proves the three invariants of `HoleList`, for any number of
entries, any memory and any sizes of requests (`ListAssumption`): so what is proved of
the table is true of the links.

* *The two lists.* `Threaded` says that there are sequences `l` and `f` that the links spell
  from `hole_head` and from `free_slots`, and that every entry is in one of them or in
  hand, once; `Tied` adds that `l` has the numbers of the table's holes. There is a
  lemma for each writing of links: what `DeleteEntry`, `FillEntry`, `LinkBehind` and the
  others do to `l` and `f` (`DeleteThreads`, `InsertThreads`) and, with `EditTies` and
  `JoinTies`, that the table's operation does the same to its sequence.
* *The loops.* `NoStrayPointer` is not inductive: it speaks of `prev_ptr` and not of what
  the walk has passed. `ListInv` says that a loop is at a position of `l`, with
  `prev_ptr` one before it unless it is the first, and that the holes passed were no
  good for the search: so the hole found is the one `FirstFit`, `WorstFit`, `SwapHole`
  or `Place` name in the table, and `prev_to_max` is one before the largest so far.
* *Dropping the swap holes.* In `swap_off` the links run ahead of the table. `Dropping` says
  how far: they spell a table that is still the old one, or what the loop has left of it
  after the first removal (`Thinned`), which may lack swap holes but none of memory and not
  the head, the one the loop steps over each time it starts again. At the end of the walk
  only that can be left, which is what `DropSwapHoles` has (`ThinnedIsDropped`).

`VfsProofs` proves every invariant of `Vfs` the runs check, for all sizes of words and
blocks that `LayoutAssumption` allows and any number of programs. `TypeOK` and
`WalkInsideBitmap` need nothing more. `RefusedForAReason` and `PrintsTheTruth` are about
disks whose numbers do not wrap around (`ModestDisks`), `DiskWhole` about words that can
count the bytes of the data blocks of the largest positive `int` (`Wide`). With 4096, 4,
8 and 2^32, `Wide` holds, all sizes asked for are modest, and so are disks found of
less than 15.9 TB; the values of `MCVfs` satisfy both too. The invariant has three parts.

* *Types* (`TypeInv`), and the one fact that keeps the walk inside the bitmap: a
  program that has read a bitmap has read a superblock whose count gives the bitmap at
  least one byte, as `fread` of no bytes never reports an item. `BitsInside` shows that a
  bitmap of that many bytes has a byte for each block, also where
  `nb + CHAR_BIT - 1` wraps around, and `NothingOutside` that those are the bits tested
  as long as an `int` can count the blocks.
* *The readers* (`ReaderInv`). `Printed` is what a program prints in terms of what it
  has read, whatever happened to the file. `Seen` is what that says of the file as long
  as nobody writes it: that the length test against a word nobody has read still leaves a
  file that holds a directory (`SizeFits`: the prediction is never less, even wrapped),
  that the count is the file's, the bitmap is there, and codes 3 and 4 cannot come. Any
  writer of the file puts its readers into `written` (`ReaderFrame`).
* *createVFS* (`CreationInv`). Names lead to different inodes; the inode a maker has open
  has no other name; on a name nobody disturbed there is one maker and its file is
  there, with the count and the size it asked for once the superblock is written; so
  `truncate`, by the name again, finds the same file (`CreationEnds`).
* *The loops.* `GroupsUpTo`, `Occupied` and `BlocksNeeded` are recursive functions.
  `LoopRuns` shows once, from the library's theorem on recursive functions, that such a
  function exists and is what its turns say; `UpTo` is induction over the turns with the
  set of those for which the claim holds. `TurnRight` is the step for the groups:
  extending the last or starting another one keeps them adjacent, alternating and true.

`CzacikProofs` and `ChattingProofs` prove the invariants of both semaphore chats
for rings of any size and any numbers of messages, runs and kills.

* *The mutex.* `LockInv` is the type of the state with `MutualExclusion`: who gives
  the mutex back is inside, so the semaphore was 0 (`LockMoves`). It needs nothing
  of what the runs before left, so it holds with and without `nic.sh`.
* *The counts.* `TakenAt` and `FreeAt` say where a process answers for a taken or a
  free place. `Shift` turns the two sums over processes into what one step changes,
  and each action moves a place from one account to the other exactly when it
  changes `size`. For `Czacik` this starts from an empty queue only with `nic.sh`
  (`Tidy`): under that assumption `SemaphoresMatchQueue`, `TypeOK` (so that `size`
  never leaves the ring) and `NoReadFromEmpty`, which `czacik_rerun` refutes without
  it. For `Chatting` the bound on both sums survives every kill, the equality is
  about the first run.
* *The ring.* `Content` is the sequence of messages in the ring. `SendPuts` and
  `ReadTakes` show what the operations do to it, wherever the indices stand and wrap, if
  the messages span the places from `head` to `tail` (`Spans`). `RingInv` says that they
  do, counting messages whose `size` is not adjusted yet. That a sender at its slot finds
  a free place, and the reader a message, is what the sums over the semaphores give
  (`LengthBounds`), so `RingInv` leans on the counts: `Czacik` implements `Deque` after
  `nic.sh`, `Chatting` in its first run.
* *Nobody stuck.* `Room` counts the places the first run has taken from `empty`:
  no more than the passes made and in progress. A sender that waits inside leaves
  the other none in progress, so `2 * PASSES <= BUFFER_SIZE` is enough
  (`NobodyStuck`). `chatting.c` has 2 messages each and a ring of 5, so it meets it.

`SchedProofs` proves `HoldBounded` for any processes and any period of two ticks or
more, if the proportions leave both groups something (`Proper`), for `Spec` and with
the test programs (`UsersSpec`). With no condition at all it proves `NoBLAD`, the types,
`ListSound` and the refinement of `ReadyQueue`, the last three for both specifications.

* *The links.* `Lists` is about the links of ready processes only, since others keep
  stale ones and fork copies them: they lead to ready processes, no two to the same
  one, none to the head, and the tail ends the list. So whoever gets to the head is a
  ready process, hence one that was forked.
* *The list.* `Lists` alone does not exclude a cycle beside the list. `LineInv` does: there
  is a sequence of the ready processes, each once, that the links spell from `rdy_head` to
  `rdy_tail` (`Lined`). `LineStep` moves that sequence with each call of the scheduler
  (`LineMoves`): one joins it at an end, one leaves it, or the head goes to the end.
  `LineIs` shows that whoever walks the links from the head (`Behind`) sees this very
  sequence, so `ListSound` and the refinement of `ReadyQueue` follow. `ReadyQueue` says that
  one process leaves the line and the others keep their places (`Quit`).
* *The types.* `TypeOK` adds that the list is empty exactly when nobody is ready;
  `UsersTypeOK` that whoever waits in MM for a child, or as a new child, is blocked
  (`BlockedInv`), so that MM never makes a process ready that is ready already.
* *The quanta.* `QuantaInv`: each quantum and all that is left of one is below the
  period, also after a change of group, and `held` with what the head has left is
  below it too.
* *procesy.* `CollectedMoves` and `EndMoves` say whom its steps move: a child that is
  collected, or all that are left to init, and nobody who has a system call under way.
* *test_grupa.* `UsersInv`: refused, it is in group B; after its change it is in A,
  and only it changes its own group. `UsersAreSteps` maps every step of the programs
  to a step of the scheduler, so that the invariants above are proved once.

Every invariant, action property and refinement that a passing run checks is proved.
Only model-checked are the liveness properties (`Settles` of three modules,
`EveryoneRuns`, `ProcesyEnds`), which the prover does not reach, and what the runs that
expect a violation show. Where a definition is a recursive function or a fold, a proof
by induction needs a set to do it with, as the library's theorems that take a predicate
cannot be used; that is done for `Behind` in `Sched` and for the loops of the others.

## 6. Not modelled

* `listy.cpp`: a sequential trial of `forward_list` with fixed inputs; the walks
  it tries out are those of `chat.cpp`, which `Chat` has.
* `semafory/chat.c`: the first prototype of `czacik.c`. `main` copies from `head`,
  a null pointer, at line 111, before it makes a process: nothing after that has
  a defined meaning, and the semaphore calls of its loops are commented out.
* `kolos_shell`: one-off scripts. The tables and prototypes of MINIX have no state.
* `pamiec/t.c`, `w.c`, `x.c`: drivers of two system calls, whose calls are among
  the actions of `Alloc`.
* Text, printing, argument parsing, the times `procesy` measures, a `malloc` without
    memory (`VFS.c:106`), and thrown errors of the semaphore calls are left out
  everywhere. So are calls that
  only return a value.

## 7. Plan

Done: all components of the inventory that carry state, each with proofs of all its
safety properties and, where there is one, of the abstract specification it implements.
What would come next is a proof of the liveness properties, by hand or with another
prover, and the programs of `listy.cpp` should they come into use.
