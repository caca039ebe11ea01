# Operating systems labs: specifications, checks and proofs

This directory specifies the concurrent programs of this repository in TLA+.
The repository is a course's worth of small C programs (`lab01` to `lab10`);
there is no common library, so a *component* here is one exercise: the program
or the pair of programs of a `zad` directory, and the kernel objects they meet
on (mutexes, condition variables, System V and POSIX semaphores, signals,
message queues, sockets).

Contents: [inventory](#inventory), [modules and the code](#modules-and-the-code),
[runs](#runs), [fairness](#fairness), [proofs](#proofs),
[abstractions](#abstractions-and-their-reasons), [disagreements
found](#disagreements-found), [not modelled](#what-is-not-modelled),
[plan](#plan).

## Inventory

For each component: its state, its operations, how its parts interact, what is
hard about it, what makes it correct.

### Modelled

**Dining philosophers with ordered forks** (`lab09/zad3a`). *State*: one mutex
for each fork, the tables `who_has_fork` and `who_is_eating`. *Operations*: a
thread for each philosopher repeats pick up first fork, pick up second fork, eat,
put down left, put down right; `main` starts and joins them; a fork's table
entry is written after its lock and erased before its unlock. *Interaction*:
threads, through the mutexes. *Hard*: five threads that can wait in a circle;
forks are named first/second on the way in and left/right on the way out.
*Correct when*: neighbours never eat together, no circular wait, locks and
unlocks match, the printed table credits no fork to a thread that does not own
it, eating goes on.

**Dining philosophers with a counter at the door** (`lab09/zad3b`). *State*: as
above with a counter, its mutex and a condition variable. *Operations*: test the
counter, perhaps wait, count oneself in; left fork, right fork, eat, put down;
count oneself out, signal. *Hard*: the wait is under an `if`, not a `while`; the
woken thread competes with one that comes back to the table; spurious wakeups.
*Correct when*: neighbours never eat together, the counter is exact, no wakeup
is lost.

**Producers and consumers** (`lab08/zad1`). *State*: in shared memory a table of
tasks, the index of each side and the counter of each side; a set of two System
V semaphores; in each process the identifiers, the attached address and the flag
`is_sem_created`. *Operations*: find or create the objects, initialise them,
`semop` down, `put_task` or `execute_task`, `semop` up, removal on `exit` and
`SIGINT`; `runner.c` starts any number of both programs. *Hard*: nothing but the
semaphores is locked, so two producers update one index side by side; objects
are found by key and removed by processes that did not make them; a process can
be interrupted between down and up. *Correct when*: no slot is lost or invented,
with one process on each side the table is a bounded queue, one process
initialises a set, a removed set ends its users.

**Readers and writers** (`lab08/zad2`). *State*: in POSIX shared memory an array
and `readers_count`; named semaphores `sem_reader` and `sem_writer`; in each
process what it has opened under the four names. *Operations*: open or create
the objects, set size and value; enter and leave with the first/last test, scan
the array; wait, modify some cells, post; unlink two names on every exit,
`SIGINT` included. *Hard*: `sem_writer` is taken by one reader and given back by
another, under a count that is exact only if every update of it is under
`sem_reader`; a process that leaves unlinks the names while others go on with
the objects, so processes of two generations meet. *Correct when*: a writer
works alone, the count and both semaphores agree with where the processes are, a
scan shows one complete array.

**Signal exchange** (`lab05/zad3a`, `zad3c`). *State*: in each of two processes
a counter, a flag, the signal mask, the handlers, the pending signals.
*Operations*: block, fork, exec, install, unblock; send `quantity` signals and
one of another kind; `while(!finish_condition) pause();` answer. *Hard*: equal
standard signals merge; a handler may run between any two steps of `main`, also
between the test and `pause()`; the child's loop runs to a number its own
handler changes. *Correct when*: signals are only lost where the kernel may lose
them, the last signal is handled last, handlers that print do not interrupt a
`printf` of `main`, both programs end unless a wakeup is lost.

**Acknowledged signal exchange** (`lab05/zad3b`). As above, with the answer sent
from the child's handler and a `pause()` loop in every round. *Correct when*: one
signal at most is under way, and after each round both have counted as many.

**Client registry over datagrams** (`lab10/zad1`). *State*: the server's array of
clients, kept without gaps; two datagram sockets (Unix, internet); in a client
two threads, one socket and a mutex. *Operations*: ADD, LIST, INFO, UNREGISTER;
INFO is passed on to the client asked, whose answer the server awaits for 2000
trials on the very sockets requests come to. *Hard*: late or foreign datagrams
during the wait, entries that shift under a number the user read off a list,
a lost datagram, `sendto` to a client that has left (which ends the server), a
client that waits with the mutex its answering thread needs. *Correct when*: who
has been told so is on the list, a client takes the answer to its own request,
who waits gets an answer.

**Client registry over streams** (`lab10/zad2`). *State*: a thread for each
client, a list linked through variables on the threads' stacks, a mailbox of two
mutexes and `shared_info`. *Operations*: as above, on one stream for each
client. *Hard*: mutexes unlocked by another thread than the one that locked
them, a client that leaves or stays silent at any point, one too many. *Correct
when*: the list links running threads only, the asker gets the answer of the
client asked, who connects is accepted.

**Pattern finders** (`lab09/zad1` in its three builds, `zad2a`, `zad2b`). *State*:
one file descriptor for all threads, `threads_quantity`, `mutex_find`,
`mutex_cancel`. *Operations*: read every n-th block, compare, cancel the others or
count oneself out; `main` joins or polls; a signal (`zad2a`) or a division by zero
(`zad2b`). *Hard*: cancellation with a mutex locked or inside a library call,
strides read while others change the number, data freed while in use. *Correct
when*: every block is read, data is freed after its last use, the run ends, a
signal that is handled or blocked ends nothing.

**Chat over System V queues** (`lab07/zad1a`). *State*: the server's table of
clients and its queue; a queue with limited room for each client, used both
ways. *Operations*: register, poll all queues, send every message to everybody
else; a client's two processes write and print. *Hard*: `msgsnd` that waits for
room only the server could make, queues removed or left behind at any point.
*Correct when*: all hear the same messages in the same order, the server goes
on, who has left is removed.

**Message savers** (`lab07/zad2a`, `zad2b`, `zad2c`). *State*: a queue, a file with a
limit, the answer as a signal. *Operations*: send and wait; poll, receive or be
notified; answer, then write. *Hard*: the answer precedes the write; it may meet
the client between test and `pause()`; one-shot notifications. *Correct when*: what
is called saved is in the file, a client ends.

**Memory manager** (`lab02/zad1`). *State*: a search tree of empty blocks, a list of
reserved ones. *Operations*: `mem_init`, `mem_allocate` (with the rebuilding of the
tree when nothing fits), `mem_deallocate`, `mem_finish`. *Hard*: deletion of a node
with two children; the tree is rebuilt from the gaps of a list. *Correct when*:
the blocks are apart and together they are the buffer.

### Not modelled

| component | why | what would be hard |
| --- | --- | --- |
| Chat over POSIX queues, `lab07/zad1b` | a protocol of its own (one-shot notifications, one `SIGUSR2` for all queues); nothing in it promises delivery | see the hazard in `PROJECT.json`: merged notifications, messages put back behind later ones, a full list |
| Archiver and appender, `lab04/zad2` | next in the plan | the file is truncated whatever `cp` did and whatever was appended meanwhile |
| Named pipe server, `lab06/zad2` | next in the plan | a message is four `write()` calls; two clients' messages mix |
| Record locks, `lab03/zad3` | a menu over `fcntl`, each choice one system call; the rules are the kernel's | locks replace and split each other |
| Recursive file counter, `lab04/zad3` | parents wait for their children one by one; no shared state | exit codes add up modulo 256 |

The remaining directories are sequential exercises (matrices, sorting, directory
search, argument printing), measurements, or a pipe between two foreign
programs; `PROJECT.json` lists them with the reason each is left out.

## Modules and the code

| module | models | |
| --- | --- | --- |
| `Dining` | abstract table: a philosopher starts to eat only while no neighbour eats | specification of both programs |
| `Forks` | `pickup_fork`, `putdown_fork`, the two tables, the mutexes | shared by the next two |
| `PhilosophersOrdered` | `lab09/zad3a/philosophers.c` | implements `Dining` |
| `PhilosophersWaiter` | `lab09/zad3b/philosophers.c` | run; implements `Dining` |
| `Philosophers` | both, side by side | run of the first |
| `TaskQueue` | abstract bounded queue | specification of `TaskBuffer` for a pair |
| `TaskBuffer` | the loops of `lab08/zad1` producer and consumer | for a pair implements `TaskQueue` |
| `TaskStartup` | `lab08/zad1`: creation, initialisation, removal, `SIGINT` | joins `TaskBuffer` at `sem_op` down |
| `TaskExercise` | either of the two questions about `lab08/zad1` | run |
| `AtomicArray` | abstract array with atomic modifications and scans | specification of `ReadersWriters` |
| `ReadersWriters` | the loops of `lab08/zad2` reader and writer | implements `AtomicArray` |
| `ReadersWritersNames` | `lab08/zad2`: objects behind names, failure, `SIGINT`, unlinking | |
| `ArrayExercise` | either of the two questions about `lab08/zad2` | run |
| `Signals` | what the three `lab05/zad3` programs share: masks, fork, exec, pending signals, delivery | extended by the next two |
| `SignalExchange` | `lab05/zad3a` (a queue of 1 for each kind of signal) and `zad3c` (a queue of `REALTIME_LENGTH`) | |
| `SignalHandshake` | `lab05/zad3b` | |
| `SignalExercises` | any of the three | run |
| `DatagramRegistry` | `lab10/zad1` server and client | |
| `StreamRegistry` | `lab10/zad2` server and client | |
| `Registries` | either of the two | run |
| `Finder` | `lab09/zad1` (three builds), `zad2a`, `zad2b` | run |
| `ChatServer` | `lab07/zad1a` server and client | run |
| `SaveServer` | `lab07/zad2a`, `zad2b`, `zad2c` | |
| `QueueServers` | `ChatServer` and `SaveServer`, side by side | run of the second |
| `Allocator` | `lab02/zad1` library | run |
| `*Proofs` | theorems about the module of the same name and those it joins: `PhilosophersProofs`, `QueueServersProofs`, `RegistriesProofs` about both programs each, `TaskExerciseProofs` about `TaskBuffer` and `TaskStartup`, `ReadersWritersProofs` also about `ReadersWritersNames`, `SignalProofs` about `SignalExercises`, `FinderProofs`, `AllocatorProofs` | |

Where one run covers several programs a variable (`program`, `exercise`,
`version`, `variant`, `question`) says which one a behaviour is of; it never
changes and the other programs' variables stay put. Nothing is composed by that;
it lets related programs share a run. `Philosophers` and `QueueServers` put two
related programs side by side in the same way, so that what is proved of both can rest
on the same lemmas; in their runs (`OrderedFairSpec`, `SaveFairSpec`) only one of the two
does anything, and `OrderedAlone` and `SaveAlone` prove that these behaviours are those of that
program's own specification.

In all of them `pc[x]` is the next step of thread or process `x`, an action is
what it does up to the next point where another may come in between, and
definitions keep the names of the source (with its spelling:
`eating_philosopthers_count`, `curren_task_num`). A definition introduced by
`Slip` is not part of the specification: it is a plausible slip in the code, a
variant of the definition next to it, kept to show that a property notices it.

* *Philosophers*. Each lock, each write of a table and each unlock is a step.
  `NoOne` (= `SIZE`) is both an unlocked mutex and the code's `-1`. The code
  writes the neighbour's fork as `(n + 1) % 5`, the number of philosophers it is
  built for; the model says `% SIZE`. `LIMIT` is the 4 in `count > 3` and
  `count < 4`. `pthread_cond_wait` releases the mutex and joins `waiters` in one
  step; `ReturnFromWait` needs the mutex again and does not test again;
  `SpuriousWakeup` is what POSIX allows.
* *TaskBuffer*. Each load and store of a shared word is a step (`++(*task_counter)`
  is two), since the compiler and the machine promise no more. `read[x]` is the
  register; `puts` and `executions` are history: how often the functions were
  completed. The constant `COUNTER_MODULUS` stands for 2^64.
* *TaskStartup*. Identifiers count from 0, as in a system that has no other IPC
  objects: an untouched global `sem_id` names the first set. `AtExit` is the
  `atexit` function: note that `is_sem_created` is `TRUE` in a producer that did
  *not* create the set. Its steps are `RemoveSegment`, `RemoveSet` and `Detach`, and `RemoveSet`
  comes first in a consumer, nothing but `Detach` in a late-comer. A `SIGINT` in `main` calls
  it (`Interrupt`); one that arrives in the function itself ends the process there
  (`InterruptAtExit`, place "cut"), whether it is the first, whose handler calls `exit()` again, or
  the second, which kills because `signal` resets the handler. A process that was cut keeps
  its `sem_id`, so that the set it has left behind can be told from others; `interrupted` is
  history: a creator is in its `atexit` function because of a `SIGINT`. `missed[s]` is history: the slots of set `s` taken by
  processes that ended, or wiped by a late `SETVAL`.
* *ReadersWriters*. A scan takes one step for each cell, a modification one for
  each chosen cell. `committed` is history: the array at the last `sem_post` of
  a writer; `scanned` and `result` keep what a reader saw as an array rather
  than as the count of matches it prints.
* *ReadersWritersNames*. `object[n]` is what a name stands for now, `has[p][n]` what
  process `p` has opened under it; objects are called after their creators. The
  load and the store of the count are two steps here, because two readers with
  different `sem_reader`s may be at it; in `ReadersWriters` they are one, which
  `CountIsExact` justifies. `late` is history: the creator's `*readers_count = 0`
  (reader.c:101) met a count in use. A late-comer that touches the count before the
  creator's `ftruncate` gets `SIGBUS` (`BusError`).
* *Signals*. Handlers are installed with `sigfillset`, so a handler runs with
  everything blocked and is one step. Of two pending kinds the one with the
  lower number is delivered first, which is what Linux does and the programs
  rely on. `Raised` merges what the queue cannot hold.
* *DatagramRegistry*. `server` holds the place in `main`'s loop, the asker and the
  client asked; `requests` are its two sockets, `inbox[c]` a client's. A datagram is
  what its sender meant; the actions that receive say what it is taken for
  (`InfoReceived`, `NotRecognized`, `ReceiveAnswer`). It is sent to an `address(c)`, a path or a
  host and port, and goes to whoever has that address when it is sent (`Holders`): the
  client meant, nobody, or another one that has bound it since. `Lose` drops internet datagrams
  only. `name(c)` is the host name that clients are removed by; `files` are the socket
  files, which a client removes in its exit function whether it had bound them or
  not. `disturbed` is history: the clients one of whose datagrams was lost or
  misread, that left while waiting, or that met a full list, and when an answer goes to
  another client than the one it is for (`Misled`), both. `close()` and `remove()` of a leaving client
  are one step (`Leave`).
* *StreamRegistry*. `thread[c]` is the place of the server's thread for `c`, `clients`
  the list from `head_client`, `request[c]` the last request, which is carried out
  again after a `recv()` of 0 (`Closed`). A client whose `recv()` has the wrong size is
  `garbled`: it stays or leaves. Walking a list that links a dead stack may crash
  (`WalkDangling`). `AskClient` has the unlock of the list and the `send` to the client found as
  one step (server.c:257, 268), `AnswerTooEarly` the receiving and the registering anew. `crossed` is
  history: a question was not answered, or two were under way, or the last answer of a
  closed client was repeated.
* *Finder*. `version` is the build; positions count blocks; of a block only the
  outcome of the comparison is kept. `offset` is the one of the shared descriptor, so
  `lseek` and `read` are two steps. `stride[t]` is the thread's own copy of
  `threads_quantity`. `CancelledInLibrary` is a cancellation inside `malloc` or `printf`
  in the asynchronous build, which leaves the thread or the next one `stuck`.
* *ChatServer*. The polling loop, and `send_everyone` one client at a time. A queue has
  room for `CAPACITY` messages of both types together. `log` (what `send_everyone` was
  called for) and `heard` (what was printed) are history.
* *SaveServer*. `client[c]` and `server` are the places in the two programs; in `zad2b` and
  `zad2c` the queue is ordered by priority, which is the sender's pid. The server
  answers (`Answer`) and then writes (`Write`); `message` is the one in between.
* *Allocator*. A tree is a sequence of nodes in an order `bst_add_node` could have
  added them in, which fixes its shape. `list_add_node` puts a block before the first
  that has no lower address, as the walk in list.c does. `mem_allocate` includes the rebuilding
  (`Rebuilt`) and the second search. Every function is one step: the library is for
  one thread. `parent_set` says whether the root's `parent` was ever written (bst.c:31-41 leaves it
  uninitialised in a first node): `bst_delete_node` reads it (bst.c:162), and finds `NULL` or does
  something undefined, which is the status "crashed", as is reading a list that is empty; there the
  model stops. `overrun` is history: a defragmentation has put memory in use into the tree.

## Runs

| run | instance | distinct states | question |
| --- | --- | --- | --- |
| `PhilosophersOrdered` | 5 philosophers (module `Philosophers`) | 4 263 | mutex discipline, no circular wait, eating goes on, implements `Dining` |
| `PhilosophersWaiter` | 4, door for 3 | 39 227 | eating goes on unless all are in, sleepers are woken, implements `Dining` |
| `TaskExercise` | loops: 1 + 1, 3 slots, 2 entries, 2 values; startup: 2 producers, 1 consumer, 2 slots | 343 286 | the table implements `TaskQueue` (also that every task is executed), counters exact, no slot shared; slots accounted for, one initialiser, no orphaned set, removal ends the users |
| `TaskStartupAttach` | 1 + 1 | violation | whoever enters the loop has attached the segment |
| `ArrayExercise` | loops: 2 readers, 2 writers, 2 cells; names: 2 readers, 2 writers, 1 interrupt | 1 007 707 | exclusion, exact count, complete scans, work goes on; exclusion across generations |
| `SignalExercises` | 4 signals or rounds; a queue of 1 (`zad3a`) or 4 (`zad3c`) | 1 047 | no signal lost but by merging, bounds of the results, equal counts after each round, end unless a wakeup is lost |
| `Registries` | datagrams: 2 clients, 3 places, 2 entries, 4 user actions; streams: 3 clients, 2 entries, 4 user actions | 198 723 | the correctness of both registries as in the inventory |
| `Finder` | 2 threads, 3 blocks, all files of 3 kinds of blocks | 357 123 | all blocks read, no use after free, every run ends, signals survived |
| `ChatServer` | 3 clients, table of 2, queues of 2, 3 user actions | 459 867 | everybody hears the log, the server goes on, a quit is noticed |
| `SaveServer` | 3 clients, file of 3, records of 1 or 2 (module `QueueServers`) | 200 286 | saved is written, clients end |
| `Allocator` | buffers of 3 and 6 blocks of two bytes, both strategies | 71 995 | the blocks partition the buffer until an overrun |
| `AllocatorBlocks` | a buffer of 4 blocks of two bytes | violation | blocks are apart |

Why the bounds are enough to see the interesting cases:

* *Philosophers*. Five is the code's own number; parity is broken once around the
  table only with an odd number, so 5 has the seam that an even number lacks (the
  proof covers every number above one). The door is checked with 4 and 3 for the code's
  5 and 4: the same distance, which keeps over-admission and barging possible. Only one
  thread sleeps at a time there; queues of several sleepers are left to the theorems, which
  hold for any `SIZE` and `LIMIT`.
* *TaskExercise*. Three slots make the indices wrap while tasks wait, fill and empty the
  table; two entries make half-written tasks visible. A modulus of 2 makes the
  counters overflow again and again (a single process never gets two ahead of its
  own count). More processes are covered by the theorems (`SemaphoresCorrect`).
  Two producers give the creator and the late-comer, the failed
  `semget`, and two sets on one segment (a set removed, a new one made); the
  consumer is the one that comes too early, fails with `sem_id` 0, attaches late, or is
  interrupted. A `SIGINT` may come at any point of `main`, and one more, or the first, at any point of the
  `atexit` function where it makes a difference.
* *ArrayExercise*. Two readers are the first and the last; two writers compete with
  each other and with the readers as a group. For the names two readers, two
  writers and one interrupt, at any point, are enough to reach both exceptions of the
  property, a late reset and a count kept under two semaphores of either kind: of
  two writers one may create the semaphore a reader never gets to see.
* *SignalExercises*. With four signals some merge and some do not, on either way; from
  three on there is nothing new, since one is pending, one in flight and one unsent.
* *Registries*. Two clients are the one that asks and the one asked; both may be on
  one host (equal names, equal socket files) or not. Two are enough for an answer to go to
  another client as well: `c` asks, a vain start of `d` in the same directory removes the socket file of
  `c`, and a second one binds the path and registers, which takes the four user actions.
  Three clients of a stream server with room for two give the one too many. Four user actions are two registrations
  and a question each, or a question, a leave and a second question.
* *Finder*. Two threads and three blocks give an uneven split; every placement of the
  pattern is a file of the run.
* *ChatServer*. Three clients on a table of two reach the write past its end (in the
  run `SaveServer` the chat has none and stands still); queues of two
  fill up with a client's own messages.
* *SaveServer*. Three records of one or two fill a file of three exactly, or not; the pid of
  the third client is too high for a priority.
* *Allocator*. Six blocks hold three reserved ones with gaps between them, and a tree
  with a node that has two children. Two bytes are the smallest block for which addresses and
  quantities differ, and sizes are rounded. `Undamaged` is the run's constraint: states that follow an
  overrun are not searched, of which `BufferPartitioned` says nothing until the next `mem_init`, whose
  outcome does not depend on them.

`CHECK_DEADLOCK` is off where the programs end (`TaskStartup`, `Signal*`,
`Registries`, `Finder`, `ChatServer`, `SaveServer`, `Allocator*`, the processes of
`ReadersWritersNames`) or may stand still, which a liveness property describes
instead (`EatingGoesOnUnlessFull`, `LoopsGoOn`).

Some properties are weaker than one would wish, and say by their exceptions what
the code does not promise:

* `EatingGoesOnUnlessFull`: the door of `zad3b` does not keep the last philosopher
  out. A thread that has left may re-enter between the signal and the return of the
  woken thread, which then enters too without a second test; all with their left forks
  are a circle. The property says that this is the only way to a standstill.
* `AllEndUnlessWakeupLost`, `ClientEnds`: `while(!flag) pause();` can lose its wakeup
  between test and call. Nothing else (and no merged signal) stops the exchange; for
  `zad2c` there is also the message of which the server is not notified.
* `ExclusionAcrossGenerations`: a writer and a reader do meet when the count was
  zeroed under a reader, or when readers of one count have opened two different
  semaphores of either kind (two readers' semaphores do not protect the count, and
  with two writers' semaphores the first reader takes one and the last posts the other).
* `NoOrphanedSet`: a set outlives its creator when a `SIGINT` cuts the atexit function short.
  Of a set that was initialised it takes two, since its creator comes there by the first (or because
  the set is gone already); a creator whose `shmat` failed needs only one, and
  leaves a set that was never initialised. Nothing else leaves one behind. `SlotsAccounted` counts the slots
  that a late `SETVAL` wipes as `missed`, it does not forbid it, and `OneInitialises` is about the users of one
  set: two sets on one segment are left to themselves. `CompletedTasksCounted` and `SlotsConserved` do not
  see the updates that two producers lose.
* `EveryMemberListed`, `AnswersMatch`, `AnswerComes`: once a datagram of a client was lost
  or misread, nothing holds for that client any more; there are no sequence numbers. An answer that
  is delivered to another client, which has bound the path since, or has the same host and port,
  excepts both: the one takes it for its own, the other may wait for ever.
* `AnswerFromAsked`: one unanswered question, or two at once, put the mailbox out of
  step for good. `ConnectionAccepted`: a client that goes without a name stops
  the server.
* `AllBlocksScanned`, `FreedAfterThreads`: in "detach" a late thread takes the number of
  threads left for its stride, and a single thread that finds the pattern stops early
  although it has nobody to cancel; in "synchr" `main` frees what other threads still use
  once the pattern was found. `EndsUnlessStuck`: a thread cancelled in the library
  leaves its locks behind, and `zad2a` spins when it has found the pattern.
* `ServerGoesOn`: `Stuck` is a `msgsnd` to a queue nobody but the server would empty.
* `SavedIsWritten`: the one message in between is called saved too early.
* `BufferPartitioned`: nothing holds after an `overrun`, and no completeness after the error was printed.

For many of the hazards in `PROJECT.json` the exception is the hazard itself: what the code
does there is in the model and behind the exception, and what the property checks is that
nothing else goes wrong.

## Fairness

Fairness is weak, for each thread or process as a whole: the scheduler runs what
stays runnable. No fairness is assumed of a mutex, semaphore or condition
variable (who is next is open: POSIX and System V leave it so for these
programs), none of a spurious wakeup, and none of a `SIGINT`. Hence no property
promises anything to a *particular* philosopher, reader or writer, except that a
sleeping thread is woken: writers may starve, and so may one thread among
several. For the signals the kernel delivers what is pending and not blocked.
`Fork`/`ForkFails` and `Exec`/`ExecFails` are choices of the environment; the
weakly fair process may take either.

In the registries, the chat and the savers the servers and the receiving threads of
the clients are scheduled, while users owe nothing: no fairness of a
request, a typed message, a leave or an interrupt. The network of `lab10/zad1` may
lose datagrams (`Lose`), and no fairness makes it stop. In `Finder` every thread and `main`
are scheduled and a cancelled thread reaches the end of its cancellation; whether it is
caught in a library call is a choice nobody owes.

## Proofs

`tlapm` checks every theorem for all values of the constants that satisfy the
assumptions of their modules, which the runs evaluate for their instances:
`SizeAssumption` (more than one philosopher), `LimitAssumption` (the limit at the door is
below their number), `BufferAssumption` and `ReadersWritersAssumption` (tables of at
least one cell, finitely many processes of two disjoint kinds, an empty cell that is no
value), the two `ComingAssumption`s (the same of the processes that come and go),
`SignalsAssumption` (one signal and a queue for one at least), `FinderAssumption`
(one thread at least; a file may be empty), `ChatAssumption` and `SaveAssumption` (numbers
are natural), `AllocatorAssumption` (blocks and buffers are not empty),
`RegistriesAssumption` (room for one client; some directory is on the server's host).
None of them excludes a configuration the programs can be compiled or started with,
except that a table or a queue of length 0 makes no sense.

Each proof module starts with the invariant, in named parts, then has one lemma for
each action or group of actions that keeps it, and ends with the theorems.

**`PhilosophersProofs`**. *Ordered forks*, for any `SIZE > 1`. The inductive invariant is
`TypeOK /\ ForkOwnership /\ TableIsTruthful /\ EntriesErased /\ EatersAreShown`.
`ForkOwnership` ties each mutex to the `pc` of its owner and carries the rest;
`EntriesErased` is needed because truthfulness alone says nothing about the state
between the erasing of an entry and its unlock.
`OrderedTypeCorrect`, `OrderedMutexDiscipline` and `TableCorrect` follow. `DeadlockFree`: if
all are blocked, somebody is at its second fork (`ChainStarts`) and whoever holds
that fork is at its own second one (`NextInChain`); an odd philosopher cannot
have a successor in that chain (`OddEndsChain`), and an even one only at the seam
of an odd table (`EvenInChain`), so the chain breaks after two steps.
`OrderedImplements`: a step to `eat` maps to `StartEating`, because an eater and a
thread about to eat own both their forks and neighbours share one.
*Counter at the door*, for any `SIZE` and any `LIMIT` below it. The forks need
the same ownership (`ForksOwned`); the door adds who owns its mutex (`DoorOwned`), that
sleepers are in their wait, `CounterIsExact`, and `SomebodyWillSignal`: while anybody
sleeps, somebody is inside or on the way to a signal. None of it uses
the limit, because a woken thread does not test it again; the limit only says who may
go in at the first test. `Implements` (neighbours never eat together) therefore holds
whatever the door lets in. What the door is for is `OnlyFullTableStops`: when nobody
can move, all are inside and hold their left forks. The proof finds a thread at its
right fork and goes round the ring (`AroundTheTable`, from the least element of a
set of numbers, `LeastNatural`, in place of induction). `CounterWouldSuffice`: the
counter's purpose is sound, below `SIZE` nothing stops; the program's slip is the
`if` that lets the counter reach `SIZE`.

**`TaskExerciseProofs`**. *Loops.* For any number of processes and slots `TypeOK /\
SlotsConserved` is inductive: a step out of or back to `down` moves one slot
between a semaphore and the set of busy processes (`BusyJoins`, `BusyLeaves`,
cardinalities of finite sets), any other leaves both (`BusyStays`).
`TypeCorrect` and `SemaphoresCorrect` follow: unprotected updates of the indices
never corrupt the semaphores or leave the table. For one producer and one
consumer `PairInv` adds how far the indices are apart (the tasks ahead, modulo
the length of the table), that a loaded register is fresh, and that a counter is
its function's number of completions, less the one under way; `PairSharesNoSlot`
and `PairCounts` follow for every length of the table. `PairIsQueue` is the
safety part of the refinement of `TaskQueue`: the queue is the tasks that wait from
the slot the consumer is at (`MappingOfPair`); what the consumer has loaded is what is in
that slot (`LoadedInvariant`); the store of the producer's index appends to the queue
(`QueueGrows`), the printing of a task's statistics takes its head (`QueueShrinks`), and
every other step of the two is a stutter (`ProducerImplements`, `ConsumerImplements`).
*Coming and going.* `StartupInv` has the accounts of every set (`SlotsAccounted`), that a
set has one initialiser and no values before (`InitialiserInv`), that producers at
the table are attached, and that the set the key names has a producer that will yet
remove it, or that was cut short doing so (`SetHasRemover`). The type invariant has to count: a new
identifier is used up only by a producer that has not come that far before, so
there are never more sets than producers. `StartupSlots`, `StartupInitialiser` and
`StartupRemover` state them of `ExerciseSpec`, which implements both halves.

**`ReadersWritersProofs`**. *Loops*, for any number of readers, writers and cells: the
inductive invariant (`IInv` in `ReadersWriters`) is exactness of the count and of
both semaphores, and `WriterAlone`: the readers as a group (`ReadersOwn`, from
the first one's wait to the last one's post) or one writer own `sem_writer`.
`Exclusion` is not inductive: it says nothing of a reader that is counted but not
yet reading. `TypeCorrect`, `CountCorrect`, `WriterSemaphoreCorrect` and
`MutualExclusion` follow. `Implements` adds `ArrayInv` (nobody but a writing writer has
touched the array since the last commit; a reader has copied the cells below its index):
the post of a writer is the abstract modification, the end of a scan the abstract
scan, everything else stutters.
*Names*, for any number of processes, interrupts and generations
(`GenerationsExclude`): `NamesInv` and `StepsFit` say which objects a process has opened
at each place, and that an object was made by the process it is called after;
`LockInv`, that a readers' semaphore is held by one. The rest (`CountInv`, `DoorInv`)
holds as long as the readers of one count agree on both semaphores (`Agreed`) and no
count was reset late, and both are preserved backwards: a step can break `Agreed` but
not restore it, since names are only ever opened. `CountInv` has an inequality, because
interrupted readers stay counted; `Usable` and `GroupOwns` say when the count of
the dead still keeps the writers out, and `DoorInv`, that a writers' semaphore has one
owner, a writer or the group of one count.

**`SignalProofs`**, for any number of signals and any queue. `Masked`: whoever has no
handlers has its signals blocked, or nobody who would send one; so no signal kills
(`HandlersInTime`). `SignalsAccounted` needs no more than `QueueLength` (a queue holds 1
at least) and the effects of `kill` and of a delivery (`KillAdds`, `DeliveryTakes`).
`ParentLast`, `ChildLast` and `LastIsLast` say that the last signal of either side is sent
after, and delivered after, all the others, which gives `CountsReported` at the end.
For `zad3b`, `RoundInv`: a round is in one of four states, each with the counts of both
sides and the one signal under way; `NoAnswerLost` follows.

**`FinderProofs`**, for any number of threads and any file, in all five builds. `QuantityInv`
and `MainInv` give `FreedInTime` (joined or counted before the data is freed),
`SignalInv` gives `SignalsDoAsReported`. `NothingSkipped` is an argument about lanes: thread `t`
reads `t`, `t + QUANTITY`, `t + 2 QUANTITY` and so on; every block lies in one lane
(`EveryBlockInALane`, division with remainder), a thread has read what is
before it in its lane (`InLane`), and `DescriptorInv` (the mutex between `lseek` and `read`)
makes the block read the one meant.

**`QueueServersProofs`**. *Chat*, for any set of clients and any sizes of the array and the
queues: `ChatHeard`. What a client has been sent is the selection of those entries of the
log that it is due (`DueIn`): from its own joining on, but not its own messages, and up to
the entry the loop of `send_everyone` has come to (`SentTo`). `HeardTheLog` says so of what it has
printed followed by what is in its queue; `SelectionAppended` and `SelectionKept` are what the
proof needs of a selection from a sequence, `DueNext` and `DueKept` how the due entries
change when the log or the loop goes on. It holds only together with `Announced` (everybody
of the array has joined in the log, once), `OnceRegistered`, and `InLoop` (the message being
sent is the log's last). *Savers*, for any number of clients and lengths, and any limit:
`WriteInv` (the server has a message in hand only while it writes it, and has made sure that
there is room) makes `SavedIsWritten` inductive; the queue ordered by priority has a first
element (`HighestPriority`).

**`AllocatorProofs`**, for blocks and buffers of any size, any sequence of calls and both
strategies. `BlocksFit` is the invariant `IInv`: until an overrun, `Fit` and `Covered`. `Fit` says
that the tree and the list have no block in common and none twice, that no two blocks overlap,
that the list is sorted without equal addresses, that addresses are multiples of `BLOCK_SIZE`, and
that everything is inside the buffer; `Covered`, unless the error was printed, that every byte is in
some block. `BufferInOrder` (`BufferPartitioned`, and that an overrun takes blocks of more than one
byte) follows. Of the tree's shape only this is needed: whichever node `bst_delete_node` moves,
exactly the deleted one is gone (`DeletedNode`), and what is found is in the tree and large enough
(`FoundNode`). `SplitBlock` is about the two pieces a block is split into. `PrefixIsFull`: the blocks
the first loop of the defragmentation skips fill the bytes before `begin`, and all the others begin
behind the first gap; `BehindGap` places the last fragment, which begins at the end of the block behind
that gap or, with larger blocks, in it. So `RebuiltFits` holds whenever the tree is rebuilt without an
overrun, something is lost only in the round that ends with the error, and blocks of one byte are never
overrun (`BytesNotOverrun`). After an overrun the invariant is suspended until `mem_init` makes a new buffer: the
run `AllocatorBlocks` shows that it is false there. `ListStaysOrdered` (the types, and that the reserved
blocks stay in the order of their addresses) holds throughout.

**`RegistriesProofs`**, for any number of clients, entries, requests and datagrams under way.
What is in a queue is said by `Has` (one of a kind is in it), `Once` and `Before`; what a
step does to them is a lemma about `Tail`, `Append` or `RemoveAt`, and `Less` sums up the
steps that can only help. *Streams.* `ListIsOfThreads` is nearly inductive (threads are
linked and unlinked one at a time, each by itself). `MailboxDelivers` follows a token: as
long as nothing has `crossed`, `MailboxInv` has it on the way to the client asked, or on the
way back, or in the hands of that client's thread, or in `shared_info`, and never twice.
*Datagrams.* `Matches(c)`: an undisturbed client that waits has its one request under way,
or asked about, or answered, of the kind it waits for, and one that does not wait has
none; so `AnswersFit`. `Belongs(c)`: who knows that it was added is listed and
has no farewell under way, and a client's farewells are before its registration (`Before`):
one that logs out and registers again is removed before it is added. Who gets a datagram is decided when it
is sent: by `SendOutcome` one socket gets it at most, and a client that is not `Misled` no datagram but its own. `AddedIsListed` and `DeletedLeavesOthers` are what the
two loops over the array do to the entries before the first empty one; `MembersListed`
follows.

What the proofs found that the runs had not: `AllBlocksScanned` is false for a single
thread that finds the pattern (the runs have two threads), `ExclusionAcrossGenerations` is
false when readers of one count have opened two writers' semaphores (two coming
writers are needed, which the run has now), and an underspecified `CASE` in the
signals; properties, runs and definitions were corrected.

Every safety property of the runs that expect to pass is proved, for every value of
the constants. Only model-checked is every
liveness property: leads-to and recurrence under fairness, and `ENABLED`, are out of the
prover's reach. These are `SomebodyEatsAgain`, `EatingGoesOnUnlessFull`, `SleeperIsWoken`,
`RemovalEndsUsers`, `LoopsGoOn`, `AllEndUnlessWakeupLost`, `AnswerComes`, `ConnectionAccepted`,
`EndsUnlessStuck`, `ServerGoesOn`, `QuitNoticed`, `ClientEnds`, and of `ImplementsQueue` the part
that goes beyond `PairIsQueue`, the queue's fairness: every task is executed in the end.
The two properties that are violated are of course not proved.

No module uses a `RECURSIVE` operator.

## Abstractions and their reasons

* Error branches that cannot be taken are left out: the mutexes are normal ones
  that only their owners unlock (which `ForkOwnership` shows), and `kill` between
  a parent and a child that nobody has waited for does not fail. System calls fail
  where another process of the exercise can make them fail (a name, queue, segment or
  socket that is gone, a full queue), not for want of memory.
* The numbers in a task are members of a small set; maximum, minimum and average
  stand for the task they are of. Sleeping (`usleep`) is a step another process may
  precede arbitrarily long.
* `lab05`: the child builds a name from `argv[2]`, which its parent's `execl` does
  not pass (it reads past the end of its arguments); only what it prints could
  depend on it, and the models leave it out.
* `lab10`: the contents of lists and statistics are left out; 2000 trials are a
  choice between an answer and giving up at any time; sockets have room for all
  that is sent. In `zad2` a client whose stream is out of step only stays or
  leaves. `lab10/zad2/client.c` does not compile with its `header.h` (lines 351 and 355
  name fields it does not have); it is modelled as if its thread filled in `info`.
* `lab07`: keys made by `ftok` are different, although they have eight bits of a pid.
* `lab02/zad1`: `malloc` does not fail. What becomes of a call that follows a pointer never
  initialised (bst.c:162) or `NULL` is not modelled; the behaviour ends there.
* `ReadersWriters` starts after the processes have opened the same objects;
  `ReadersWritersNames` leaves the array's contents out.

## Disagreements found

* `TaskStartupAttach`: consumer.c:65 tests `task_tab` after `shmat`, not its
  result; a consumer whose `shmat` fails goes on into its loop.

* `AllocatorBlocks`: mem_management.c:217 moves `begin` on by a number of blocks where
  lines 193 and 222 multiply by `BLOCK_SIZE`. In a buffer of four blocks of more than
  one byte, allocate two blocks and then one, release the two, ask for two again:
  the tree "of empty blocks" (mem_management.c:185) then has one that starts in the
  middle of a reserved one. The run `Allocator` shows, for blocks of two bytes, that nothing else
  goes wrong: up to such an overrun the blocks are a partition of the buffer. With blocks of one
  byte there is none.

Seen while modelling, without a run of their own: the walk of `find_min` (bst.c:119)
only turns left, so a block that fits may not be found, which costs a rebuilding or
a refusal; asking for more than there is when nothing is reserved dereferences
`NULL` (mem_management.c:188), and deleting a first root reads its parent, which was never
written (bst.c:162; both are the model's "crashed"); a vain start of a datagram client
removes the socket file of another (client.c:410), after which a third may get its answers
or the server ends; a set of semaphores is left behind when a `SIGINT` meets the atexit function of its
creator (producer.c:172); and the word producer.c:116
calls "producer's completed tasks" is increased without a lock (producer.c:163), so
it is exact for one producer (`CompletedTasksCounted`) and not for two.

## What is not modelled

`PROJECT.json` lists each component with its status. Within the modelled ones:
the printing of tables and statistics beyond the state it shows, argument
parsing, and the runners beyond the choice of processes and interrupts. In
`lab08/zad2` a child of `runner.c` whose `execl` fails, and the `SIGBUS` of a reader that uses
`SHARED_MEM` before its creator's `ftruncate` (reader.c:148); that of the count is modelled. In `lab10/zad2` the data race on the list when
a client is refused, the first `send` to a connection the other side has closed (which
succeeds), and what a client does with a stream that is out of step. In `lab07`
two clients with one key.

## Plan

1. `Archiver` (`lab04/zad2`): the appender, `cp` as a copy in steps, and the
   truncation; a line is in the file or an archive unless it was appended since `cp`
   came to the end, or `cp` failed.
2. `FifoServer` (`lab06/zad2`): four writes for a message; a message is saved as it was
   sent unless two clients were writing at once.
3. `PosixChat` (`lab07/zad1b`): which conversations end when two queues notify at once.

New proofs are for new modules; those there are cover the safety properties. Runs stay one
for each question; programs of one kind share a run.
