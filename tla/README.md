# NTRT in TLA+

NTRT (Network Traffic Rate Tracker) captures packets from network interfaces,
sums *features* of them (packets, bytes, losses) over the last
`accumulation_time`, and appends a row of sums to a csv file every
`sampling_rate`. This directory holds TLA+ modules of the parts of it that run
concurrently or keep state, TLC configurations that check them on small
instances, and proofs that TLAPS checks for every instance.

The program is C, with components that are generated by macros
(`src/src/cmp/cmp_predefs.h`) and connected by function pointers. Paths below
are relative to `src/src/` of the repository.

## 1. The system

### 1.1 Threads and data flow

```
 sniffer 0 --+                        +-- features_requester --+
 sniffer 1 --+--> evaluator --> accumulator                    relayer --> puffer --> filewriter --> files
   ...       |   (in the         (mutex)                        |  ^                      |
 sniffer n --+    sniffer's         |                           |  +---- mxrecord pool <--+
             |    thread)           v                           |
             |      ^---------- record pool                     |
             +--> groupcounter (mutex) -- record_requester -----+
 main: signal handler, state machine (HALT / RUN), starts and stops everything
 command interpreter: reads a file, sets mapped variables (dmap table, rwlock),
                      which the relayer reads for each row
```

A sniffer thread calls `pcap_next`. A packet goes through the evaluator, which
demands a `record_t` from the pool, lets every configured feature evaluate the
packet, stamps the record and hands it to the accumulator. A timeout of
`pcap_next` is an *impulse*: a NULL record that only expires old ones. The
relayer thread wakes up every `sampling_rate`, demands an `mxrecord_t`, has it
filled with the sums of each listener and puts it into a bounded puffer. The
filewriter takes it out, writes a row and an aggregation file and gives it back.

### 1.2 Inventory

| Component | State it keeps | Operations | Hard behaviour | What makes it correct |
|---|---|---|---|---|
| datapuffer (`lib/lib_puffers.c`) | ring of pointers, two indices, a count | write, read, peek, clear, isfull, isempty, dtor | no test inside write and read; the dtor frees what is not NULL | it is a bounded queue; only live slots hold pointers |
| accumulator (`cmp/cmp_accumulator.c`) | per listener a window of records, `result`, `total`; one mutex | receive a record or an impulse, request the sums, start, stop | sniffers, impulses and relayer interleave; clock; wrapping sums; stop without the mutex | `result` is the sum of the window; nothing expired is reported; nothing leaves early |
| evaluator and record pool (`cmp/cmp_evaluator.c`, RECPUFFER) | evaluator lists, pool of records under a spin lock | evaluate a sniff, supply, recycle | a record moves between threads; pool empty or full | every record has one owner |
| recorder (`cmp/cmp_recorder.c`) | mxrecord puffer, recycle pool, files, `append_output` | relayer round, filewriter round, start, stop | bounded puffer with one condition, waits under an `if`; flags read by one thread, applied by the other; one mxrecord for all listeners | every sample becomes one row of its own file, in order |
| threads (`lib/lib_threading.c`, CMP_THREAD, CMP_THREADS) | `thread_t.state` per thread, the sniffers' table | make, start, stop, dtor; entry point; barrier | unsynchronised state field, bounded wait, cancellation without join, locks of cancelled threads | no stop is lost, `stop_thread` returns, a thread that was told ends unless it needs a lock that another one keeps |
| features (`lib/lib_features.c`) | per evaluator a container: port, payload type, last sequence number and timestamp | evaluate a packet | 16 bit sequence numbers that wrap, losses, duplicates | losses are counted exactly; a column counts the packets its name asks for |
| packet parsing (`etc/etc_sniffex.c`) | per packet a `sniff_t` with remembered verdicts | is it IP, TCP, UDP; its payload | each test depends on what earlier ones left there | what is remembered is true of the packet |
| sniffer (`cmp/cmp_sniffer.c`) | pcap handlers, table of threads | init, main loop, start, stop | device failure calls `fsm_kill` from the thread, inside a lock | a failure ends the program in order |
| groupcounter (`cmp/cmp_groupcounter.c`, `lib/lib_groupcounters.c`) | per listener lists of flows with their last activity | add a sniff, request the counts, start, stop | flows expire only when read; two threads under a mutex | the count is the number of ports active within the accumulation time |
| command executor (`cmp/cmp_cmdexecutor.c`) | position in the command file, mapped variables | interpret a command, sleep | sets variables the relayer reads; may end by itself | a row shows the values of one moment |
| state machine and main (`fsm/`, `ntrt.c`) | `current` | SETUP, START, STOP, SHUTDOWN, `fsm_kill` | fired from main, from a signal handler and from sniffers, without a lock | STOP once for each START, nothing destroyed while started |
| dmap (`dmap/`) | tables of rows, each with a rwlock | add, get, remove by index and by pointer, iterate, deinit | removal inside an iteration; tables locked inside one another | what is removed is what was asked, and it is freed once; nobody waits in a circle |
| configuration (`sys/sys_confs.c`, `etc/etc_iniparser.c`, `etc/etc_dict.c`) | sysdat, pcap listeners with evaluator lists, a dictionary | load the ini file, look up, set, unset, dump | a feature name decides which container field is set; continued lines, errors that later lines hide | an evaluator reads the field its parser wrote; the dictionary says what the file says |
| command line (`etc/etc_argtable2.c`) | what the options were given, a bounded table of errors | `arg_parse` | permuted words, values of every form, overflow | what is given is what the words say, and no error is lost but those the table has no room for |
| containers (`lib/lib_queue.c`, `lib_heap.c`, `lib_vector.c`, `lib_bintree.c`, `lib_funcs.c`) | nodes, arrays, a recycle puffer | add, remove, look up, replace, reset | last item, duplicates, growing and shrinking | a queue, a priority queue, a list, a sorted bag |
| multi-reader puffer, sliding window and plugins (`lib/lib_puffers.c`, `lib/lib_swplugins.c`) | a ring with holes; a ring of slots with trees and sums over it | write, read by index; add, refresh | indices over the end of the ring; two trees kept in balance | reads in order; statistics of the window |
| the rest: constructors, logging, I/O, clock (`lib/lib_tors.c`, `inc/`, ...) | - | allocation, output, system calls | - | - |

Interactions: calls through function pointers that `cmp_actions` connects at
SETUP; shared state under the accumulator's mutex, the groupcounter's mutex,
the pools' spin locks, the puffer's `signal_t` and the tables' rwlocks; the
`state` field of every thread, which main writes and the thread reads without
a lock. Only the ring buffer and `slist_t` are used by the components; the other
containers, the multi-reader puffer, the sliding window and the barrier are linked into the
program and called by none of its components.

### 1.3 Hard behaviours

The list with lines is `hazards` in `PROJECT.json`. In short: many writers of
sums that are only adjusted and never recomputed; records that change owner
between threads; a bounded puffer with a shared condition; flags copied by one
thread and applied by another; a stop that polls, gives up and cancels, and leaves the locks of
the dead behind; tables that are locked inside one another; 16 bit
numbers that wrap; and a state machine that is entered from three contexts.

## 2. Modules

| Module | Models | Role |
|---|---|---|
| `Fifo` | what every puffer promises | abstract specification |
| `DataPuffer` | the ring of `lib_puffers.c` | implements `Fifo` |
| `Accumulator` | sniffers, evaluator with its pool, accumulator, the relayer's requests | the measuring core |
| `Recorder` | relayer, signalled puffer, filewriter, recycle pool, files | the way from a sample to a row |
| `RtpLoss` | stateful features over a stream | pure algorithm with state |
| `ActivePorts` | what a flow counter promises | abstract specification |
| `FlowCounter` | sniffers and relayer on the lists of flows, under the groupcounter's mutex | implements `ActivePorts` |
| `MappedVars` | what mapped variables promise | abstract specification |
| `Tables` | a table of dmap under its rwlock, from the configuration to `dmap_deinit`, with the interpreter, the relayer and the filewriter | implements `MappedVars` |
| `Locks` | all locks that are held while something else is waited for, from SETUP to SHUTDOWN, with cancelled threads | composition: who waits for whom |
| `Features` | configuration, evaluator lists, evaluators and header tests | from a name to a column |
| `ThreadLife` | start and stop of all threads | life cycle, inside the calls |
| `Machine` | HALT and RUN, `fire` from main, the SIGINT handler and a failing sniffer | life cycle, call by call |
| `IniFile`, `Dictionary` | the loader of ini files, and the map behind it | readers of the configuration |
| `CommandLine` | `arg_parse` with the options of `ntrt.c` | reader of the command line |
| `Program` | `CommandLine` with variables of its own, next to those of the state machine | composition: what is proved of `main` before it sets the machine up |
| `Queue`, `Heap`, `Vector`, `Bintree` with `BintreeOps` | the containers of `lib/` | data structures |
| `Trees` | `Bintree` with memory and variables of its own, next to those of the other modules | composition: what is proved of trees |
| `MultiPuffer`, `SlidingWindow` | the other two rings of `lib_puffers.c`; the second with its plugins, whose trees are `BintreeOps` | data structures |
| `Barrier` | `barrier_t` of `lib_threading.c` | synchronisation |
| `Library` | the ring next to the evaluators of lost packets, the barrier, the vector, the queue, the heap and the ini file, each with variables of its own | composition: what is proved of `lib/` and of the configuration's reader |
| `LibraryProofs`, `AccumulatorProofs`, `RecorderProofs`, `FeaturesProofs`, `FlowCounterProofs`, `ThreadLifeProofs`, `TablesProofs`, `MachineProofs` | - | theorems |
| `MC...` | - | instances for TLC |

Operators named "Mutant of X" are plausible bugs of the action X. No
specification uses them: each one, put in the place of X, makes the property
it was written for fail, which shows that the property says something about X.

Two MC modules check several models in one run: `MCLibrary` the data structures, the readers and the stateful features, `MCTables`
the rows of `Tables` and the locks of `Locks`. A variable `part` says which of them a behaviour is
about; the variables of the others keep their initial values. The models do not
interact in these runs.

### 2.1 DataPuffer and Fifo

State: the array `items`, `start`, `end`, `count`, and `read`, the value that the
last read returned. `Write`, `Read` and `Clear` are `datapuffer_write`, `_read`,
`_clear`. The C functions test nothing; every caller asks `datapuffer_isfull` or
`datapuffer_isempty` first, so these tests are the guards. `Fifo` is the queue as a
sequence; `Contents` is the refinement mapping. The other modules use the
sequence directly, which `RefinesFifo` justifies.

### 2.2 Accumulator

A step is what a thread does between two points where another thread could see
a difference. The mutex is a variable; inside the critical section every change
is a step (`Push`, `Subtract`, `Recycle`, `AddItems`, `Write`, `ObsolateOne`, `ObsolateDone`, `Copy`).
That is on purpose: were the critical section one step, mutual exclusion would
hold by construction and dropping the lock would go unnoticed (`LockIgnored`
is that mutant).

* `Sniff` is `_evaluator_process` up to the send: demand, evaluate, stamp. The
  pool call is the only shared access in it and runs under a spin lock.
* `Impulse` is a timeout. It goes over all accumulators under one lock.
* `Request`, `Copy`: the relayer's loop asks for one listener after the other, the
  mutex is free in between.
* `now` is `gettimeofday` in units coarse enough for TLC; it does not step back.
* All items of a record are summed index by index with the same code, so one
  item stands for them all. Words wrap at `WordSize`.
* `mark` in a record and `asked` are history variables: the total just after the
  record was added, and when the holder got the mutex.

A window that is full evicts records that are not expired. `ReportIsFresh` and
`LeavesOldOrCrowdedOut` say so exactly, where `README.md:18-20` of the repository
promises the sum over the last second without that exception.

### 2.3 Recorder

The relayer's program counter goes demand, request, receive (waiting, woken or
startled), sleep; the filewriter's take (waiting, woken or startled), update, aggregate, recycle.
`Receive`/`PutIn` and `Supply`/`TakeOut` are the two halves of `CMP_PUFFER_RECV_PROC_WAIT`
and `CMP_PUFFER_SUPPLY_PROC_WAIT`: up to `signal_wait`, and from it on. `signal_set` wakes
the one waiter that may exist; `SpuriousWakeup` is a return of `pthread_cond_wait` that nobody asked
for. The waits stand under an `if`, so whoever wakes up does not look again: with the
puffer still full or empty the program is in undefined behaviour, `lost`, and the
model ends there. `SignalsAreTrue`, a part of `OwnersAndSignals`, says that a signal never leads there. A row is the number of its sample, the n-th one
of its listener; output files are sequences of rows, aggregation files hold one
row. `append_output` and the sticky `save_aggregations` and `aggregation_path` are kept, as
they decide where rows go. Columns of group counters and mapped variables
(sticky in the same way) are not part of it; how a row gets its mapped variables
is in `Tables`. That both threads never wait for each other is TLC's deadlock check.

### 2.4 RtpLoss

A stream in order, as `README.md:33` demands: each packet comes after `gap` lost
ones, or is a duplicate. `Evaluate` is both stateful evaluators from the test of
the number on; the SRC_ and DST_ variants differ in which packets they look at.
`u_short_diff` and `NotLater` are `_u_short_diff` and `_cmp_u_short(...) <= 0` as the C
integer conversions make them: the `-1` of `_cmp_u_short` is returned as a `u_short`, so
`<= 0` means equal or half the number space apart. `missing` and `wraps` are
history variables, kept modulo the word so that the state space is finite.

### 2.5 FlowCounter and ActivePorts

A listener's list of flows is a sequence; walking it is a step for each item
(`Pass`, `Keep`), as are `AppendFlow` and the count after it (`CountFlow`), `Drop` and
`Discount`, because the clock goes on under the mutex and because exclusion would
otherwise hold by construction. `Enter`, `Keep`, `Drop`, `Discount`, `Return` are the branches of
the recursive `_flow_obsolator`, which the recursion makes from front to back;
that it links the list again on its way back is not visible under the mutex.
`Refresh` and `AppendFlow` are the two ends of `_flows_add_or_refresh`. Flows are freed only
in a request, never when a packet comes. The four kinds of counters differ in
the test that `Ignore` stands for. `Unlock` resets the locals of a thread, which are
dead by then. `seen` and `asked` are history variables: they are the abstract
state of `ActivePorts`, whose answer may be any count between the ports active at the
answer and those active at the request. Start and stop are not part of it.

### 2.6 ThreadLife

Main starts every thread and later stops them in any order (the code has one
order; no step of the model depends on it). `StopTest`, `StopMark`, `StopWait`, `StopCancel`
are the lines of `stop_thread`, separate because the thread writes the same field
in between. `Dispose` frees the component, and for a sniffer first the `thread_t`
(whose destructor stops a thread that runs by now). A thread is its entry
point around rounds of work, one blocking call that is also where a
cancellation is delivered, work, and the loop's test. A freed `thread_t` reads as
anything and keeps nothing. `gaveup` is a history variable.

Work takes locks. Which lock is held by whom is in `Locks`; here `keeping` is only the set of the threads
that have some lock where they are blocked (`Block`) or where they died (`Cancel`: a cancelled thread
gives nothing back, and one that was cancelled in `pthread_cond_wait` dies with the mutex). `pthread_mutex_lock` and
`pthread_rwlock_*` are no cancellation points, so a thread that needs such a lock neither hears STOP nor dies.
`Unhindered(t)` is a step of `t` while nobody else keeps a lock, which is more than it needs; `ToldThreadEnds` promises nothing to a thread
besides which somebody keeps one again and again. `StopStep` is `stop_thread` with what follows it in a
component's stop, where no lock is taken: `StopReturns` speaks of these steps and not of the lock that a sniffer's stop
waits for before them (`Pick`).

### 2.7 Machine

Each context (main, the handler, a sniffer) has an agenda of events. `Begin` is the
`switch` of `_fsm_fire`, `Call` one component call of the transition, `Finish` the
assignment to `current` after it. An event without a transition reads the state once
more (`Read`) and writes it back. `Calls` has the calls in the order of the code; the
sniffers are started and stopped in the order of the listeners' table. The handler
runs on top of main, so that main waits for it; a sniffer fires from its thread's
initialisation. A component is absent, idle, started or freed; `Before` and `After`
say what a call needs and leaves. A call that finds something else sets `misused`,
and what it does from there on is undefined in C; the module goes on as if it had
been done, and no property speaks of what follows. `abandoned` is set, or not, by each stop of a component with a
thread of its own (`Threaded`): a thread that does not answer is left behind, with the locks it has, and from then on no call
needs to return, of the same STOP or of another context. Errors in the ini file, which
end the process in SETUP, are left out; when the file is refused is in `IniFile`.

### 2.8 Features

A name of the configuration is a feature and the numbers behind it. `Load` reads one
section: `Known` and `GetFeature` are the chain of `sscanf` calls, of which `Fields` says
where each pattern stores its numbers; `Found` leaves out the names without a
feature, as the `continue` of `_listener_from_conf` does. What a pattern that does not
match has stored already is overwritten or thrown away with the name. `Start` is
`_evaluator_start`, with `slist_cpy` as C runs it: its `head` is read before it is
assigned, so it is whatever the stack holds. NULL and an earlier copy's head let
the program go on; any other value crashes it and is left out. `Capture`,
`Evaluate`, `Send` are `_evaluator_process`, one evaluator a step, and the addition that the
accumulator makes. `TestIp`, `TestTcp`, `TestUdp`, `TestRtp` change the `sniff_t` as the C functions do:
each looks at a verdict first and remembers its own. A packet is its header
fields; `ihl` and `off` say that the IP and the TCP header are 20 bytes or longer.

* The type of the Ethernet frame is not looked at by the code, so the nibble
  where an IP header would have its length decides what an IP packet is.
* `IP_PACKETS_BY_SRC_X_X_X_X` has four numbers, which `sscanf` stores with `%d`, an `int` each,
  into four neighbouring bytes. The low byte of each ends up in its place; what the last
  store writes behind the array is not modelled. The four numbers are one here.
* The features about losses count the packets they look at; what they make of
  sequence numbers is `RtpLoss`.
* `own`, `prolonged` and `seen` are history variables: which listeners got a list of their
  own, which lists another listener's evaluators were appended to, and the
  packets whose records were sent.

### 2.9 Tables and MappedVars

The table is the one of the mapped variables, whose items one thread changes and
others use between START and STOP; the code of a table (`_dmap_*`) is the same for all of them.
An item and its row have one address, the number of the item; `rows` is the array.

* Setup: `AddMappedVar` is one entry of a section, `_add_mapped_var` with its search and the
  full table; no other thread runs, so it is one step.
* Run: the interpreter's `WriteLock`, `Find`, `Assign`, `WriteUnlock` and the relayer's `ReadLock`,
  `Evaluate` (one variable), `ReadUnlock` are steps of their own, and the lock is two
  variables, so that a row could mix two moments if the lock were left out or
  taken as a reader's (`WriteLockShared`). `PrintLock` is the filewriter, which takes the lock
  for a copy that needs none, and so only delays the interpreter.
* Tear-down: `RemoveItem` is `_dmap_rem_item` for the row that SHUTDOWN's iteration is at. The
  loop of the code goes on *while* the row holds the item, so it stops at the first row that
  holds another one; that row is destroyed and stays in the table. `RemoveRow` is
  `_dmap_rem` for each row in `dmap_deinit`. A destroyed row is freed memory: reading it gives any
  item (`Readings`), and destroying it again ends the model in `broken`.
* `MappedVars` knows variables by identifier. Which item has an identifier is unique, so
  the refinement mapping reads the abstract state off the items; `row` is a history
  variable, what the relayer wrote last for each listener.
* `Capacity`: the table of mapped variables has the size `NTRT_MAX_PCAPLS_NUM`, the number of
  listeners. What exceeds it is left out and shown as 0, as an unknown one.
* STOP takes place when the threads are between two rounds; a thread that is
  cancelled while it holds the lock is in `Locks`.

### 2.10 Locks

Main works through SETUP and START and may be told to stop (`CallKill`, the SIGINT handler or
main itself); every thread works through a script, the sequence of the calls of its round that touch a
lock, the puffer or another thread. `todo` is what is left of a script; each action takes the
head of one. The scripts (`Load`, `StartScript`, `StopScript`, `RelayerRound`, ...) are the code read line by line, and what
they lead into (STOP and SHUTDOWN fired from inside a sniffer's initialisation, with the listeners' table
locked) is put in front of what is left.

* `Blockers`: readers share a lock; a thread that asks for a table which it has itself for writing gets
  `EDEADLK` from `pthread_rwlock_*`, whose result the code ignores, and goes on. A waiting
  writer does not keep readers out, the default of the C library.
* `FindSniffer` is `_conlistener_stop` (`cmp/cmp_predefs.h:748`): of a sniffer that is not in the table it returns without
  the unlock.
* `stop_thread` waits for an answer (`Await`) or gives up and cancels (`GiveUp`). A cancelled thread
  dies where a cancellation is delivered: in the puffer's wait, in `pcap_next`, or in
  output inside a section (`DieInSection`); its locks stay with it. A thread that answers or does not
  reach such a place ends by its loop's test.
* A section in which nothing is waited for or printed is one step. The locks left out are leaves:
  nobody waits for anything while holding them.
* `NoCircularWait` is about any circle of waiting actors, `StopIsServed` about whoever carries out a STOP:
  whatever it waits for, directly or through others, somebody alive can give. The exception it names
  is reached: a relayer that STOP left behind, because it was still on its way into its loop or gave
  no answer, may die with the listeners' table, which the rest of STOP needs. The leaked lock of the sniffers' table
  needs two STOPs (`LeakNeedsTwoStops`), and by then nobody asks for it again.
* Spurious wakeups are in `Recorder`, a signal inside a call of main is in neither.

### 2.11 The library: containers, rings, readers, barrier

Each module has one action for each function that changes the structure, with the pointers or indices of
the code, and a history variable for what the calls mean: a sequence, a bag, a map. The
properties say that the structure stays what it is meant to be, *up to* the calls that break
it, which they name. What is so named is what the code does:

* `Queue`: popping the last item at the tail leaves `head` dangling, and the next use of it reads freed
  memory; the test for an empty queue is the wrong way round, so the destructor does not end when
  the queue is empty and frees nothing of what is in it when it is not.
* `Heap`: none; the array doubles, halves and keeps the order. `_heapify` has no case for a single item (it would start at the
  one before the array), so a heap starts with two or more.
* `Vector`: shifting and removing read one item behind a full array, a removal in the middle moves one item
  only, an insertion behind the end writes nothing and counts one item more, and the reset asks for a number of
  bytes where it means items. `astray` and `overrun` mark what these lead to.
* `Bintree` on `BintreeOps` (a tree is a record of its fields and of those of its nodes): the number of
  references is wrong after a node with duplicates was replaced, a node with more than one reference was inserted, or a
  reset; `top` and `bottom` dangle after a reset. Sortedness, duplicates and the nodes' owners hold, but for two uses
  of freed memory, after which `broken` is set and nothing is said: a pop at an end that a reset left dangling, and a reset of a tree that its recycle
  puffer cannot hold. `_ruin_full` trashes the nodes in post order (`PostOrder`), and trashing the one at `top` or `bottom` makes `_refresh_top` or
  `_refresh_bottom` go down the links of nodes that are freed by then if the puffer was full (`ResetReadsFreed`). With the puffer of 32
  empty that takes 34 nodes, in ascending order for instance.
* `MultiPuffer`: a writer asks for the capacity and writes as many items as it is promised. One that asks before every
  write never passes `start`; one that uses up its promise may (`passed`), as the capacity is one or two slots too
  large, and `start` is left behind when the ring runs empty. Readers see everything in order until then.
* `SlidingWindow`: adding removes what is too many or too old one item a step, then adds. Sum, minimum and
  maximum are exact; the percentile is only while no value is in the window twice. Of the destructors, which
  free the wrong pointer or leave a tree behind, nothing is modelled.
* `IniFile` on `Dictionary`: a line is a sequence of words and signs. An error is forgotten when a later line has an
  entry, so a file is refused exactly when its last line with content makes no sense; a last line without a
  newline is refused, or ignored if it is one character. A line goes on in the next one as long as all that was joined so far ends
  in a backslash, also when the line that was read last is empty. The dump of a dictionary loses the keys whose
  section has no entry of its own, without any section writes every key with a colon in front, and joins the line behind a
  value that ends in a backslash (which a comment in the file allows). Values may be quoted, and what stands between
  the quotes may have `#` and `;` in it (`ValueOf`); the dump writes no quotes, so such a value comes back cut at the sign. A value
  that `iniparser_set` gives a section is not written, and a key that it sets to NULL comes back empty, or as what `printf` makes of NULL when
  there is no section. `DumpIsLoadable` says what is kept in spite of all this: every key that was dumped, and every value that has no such
  sign and no quote in front (`Plain`), unless one of the entries is not written as a line that sets it (`Unfit`). A blank line makes the parser
  read the byte before its array, which is taken for no backslash. Blanks, among them those that pad a dumped key to 30 columns, and the
  longest line (`ASCIILINESZ`) are not modelled.
* `CommandLine`: `getopt_long` hands out options one by one, with abbreviations and joined letters, and keeps the other words for
  last; it is the C library's and marked external. Numbers keep the width of an `int`. What a text means as a number is defined by the
  places of its digits, and what is read of it digit by digit, as `strtol` does. `given` and `found` are history variables.
* `Barrier`: the code under the mutex, from a lock or a wakeup to the next wait or unlock, is one step; wakeups may be
  spurious, threads come back for the next opening before the others have left, and the destructor waits for them.

## 3. What is checked

| Run | Instance | Shows |
|---|---|---|
| `library` | eleven parts, each by itself: ring buffer, queue, heap, vector, multi-reader puffer, tree, sliding window, ini file, command line, barrier, lost packets (3 bit numbers, sums of 10 values, gaps up to 2) | the ring buffer is the queue of `Fifo`; the others are the structure they are meant to be up to the calls named in 2.11 (the multi-reader puffer until a writer passes its start); loading and dumping an ini file; the command line is taken as it was given; the barrier lets out whom it gathered; losses are exact but for wraps |
| `library_null` | the ini file part of `library` | **fails**: setting an entry to NULL does not delete it |
| `accumulator` | 2 sniffers and the relayer, windows of 2, pool of 1, 4 records of 2 values, words of 2 values | exact sums in both forms, one owner, fresh reports, who may leave a window, work under the mutex comes to an end |
| `recorder` | 1 listener, puffer of 2, pool of 1, 5 rounds | rows complete and in order, no deadlock, signals that are true, every sample is written unless a spurious wakeup came at the wrong time |
| `recorder_two` | 2 listeners | **fails**: one mxrecord for all listeners |
| `features` | 2 sections, 93 configurations, 7 packets, 2 of them captured, words of 3 values | columns count what they name and those without a name stay 0, remembered verdicts are true |
| `features_rtp` | the same, `slist_cpy` finds NULL | **fails**: RTP_PACKETS_X counts payload type 0 |
| `flow_counter` | 2 listeners and the relayer, 2 ports, 3 times, timeout 1 | one flow per port, answers as `ActivePorts` promises |
| `thread_life` | sniffer, relayer, interpreter, a wait limit of 2 | `stop_thread` returns, a stop is not lost and reaches its thread unless somebody else keeps a lock; who may be freed under a thread |
| `machine` | 1 sniffer that may fail, 2 signals, with and without `-t` | components are used in order unless fires overlap or come untimely; the state is true; sniffers run only while what they call is started; a timed run ends unless a component was misused or a thread left behind |
| `tables` | *rows*: 2 sections in 8 configurations, 3 identifiers, 2 values, a table of 2. *locks*: 2 listeners without, or 1 listener with, variables, group counters and commands; puffer of 1 | rows show the variables of one moment; every row is freed once if there is at most one, and some row twice otherwise; no circle of waiting threads; a STOP waits only for the living; the leaked lock needs two STOPs |
| `machine_kill` | 1 sniffer, 1 signal | **fails**: after a SIGINT the program never ends without `-t` |

Type invariants: those of `DataPuffer`, `Accumulator`, `RtpLoss`, `FlowCounter`, `ThreadLife`, `Tables` and `Machine` are theorems and not
checked again by a run; `Recorder` and `Features` have theirs, theorems too, in `OwnersAndSignals` and `TypesAndColumns`. The models of the library have none: their
properties compare all of the state with what it stands for.

### 3.1 Bounds

* `accumulator`: four records fill one window with a hand and the victim of the pool,
  or both windows at once; where more would be live a sniffer has to wait for a
  free address, which removes interleavings but adds none. `WordSize` 2 makes every
  second addition of 1 wrap, and 0 and 1 are all its values. `MaxTime` stops the clock;
  sniffers may go on for ever at the last time.
* `recorder`: mxrecords as many as can be allocated at once. A puffer of two has the levels empty, between
  and full that the code tests. Five rounds fill the puffer,
  block both threads and run the pool full and empty.
* `thread_life`: `WaitLimit` 2 instead of 10: the loop is left by an answer at once, by one after
  a round, and by the limit; the proofs are for every limit.
* `flow_counter`: three times and a timeout of one let a flow expire, come back and
  expire again, and let it expire while a request walks the list; two ports make
  lists in which the first, the last or every item goes.
* `features`: every feature is named with its numbers, without, and with one too
  few, before and after a feature of another protocol or an unknown name, so that each
  test is asked first and again. The packets differ from a datagram that
  every UDP and RTP name asks for in one or two of the fields that decide.
* `machine`: two signals overlap with each other's consequences and with every step
  of main; a third would find the machine in a state that two can reach. More
  sniffers add contexts like the first one; with two and one signal the same
  properties hold (4.4 million states).
* `tables`, rows: a table of two is empty, filled by one section, by both, or too small for three
  identifiers; sections name the same variables, others, one twice, or none, and show
  all or fewer. Two values are enough for a row to mix an old and a new one.
  With two rows each of them is once the first and once the other one that `RemoveItem`
  finds; the theorems are for any number.
* `tables`, locks: two listeners let one sniffer fail, or be stopped, before, while and after the other one starts, and
  let two of them fire a STOP; one listener with everything adds the locks of the variables and the
  interpreter. Both at once is out of TLC's reach. A puffer of one is full and empty as often as possible.
* `library`: a ring of four slots lets indices wrap at every fill level, for both rings. Queue and tree have
  four nodes, so that a node has two sides with something on either, and an inner one can
  be removed or replaced; the nodes the tree has not used yet are symmetric. The tree's recycle puffer has room for one node, so that
  resets of two or three nodes are harmless or read a freed one, by the shape of the tree and by what the puffer holds. The heap holds up to six values and starts at two, so that it doubles twice and
  halves; the vector starts at two and grows up to four. The sliding window has three items of values up to three, so that each is the
  smallest, the greatest or between, and a time limit of one. Files have up to four lines of
  twelve kinds, among them a continued line, a quoted value with a comment sign, two quotes and a section with something behind it; entries of
  four kinds (two sections, one of them new, a key in upper case, a key without a section) are set to a value with a comment sign or to NULL, or unset. Each
  exception that `DumpIsLoadable` names is needed in this instance. A dictionary of two slots doubles before four keys are
  in. Command lines have three words of sixteen kinds, an `int` of 8 bits so that numbers of two digits with a suffix pass
  both ends of it, and a table of two errors. Three threads at a gate for two leave one behind who comes
  in for the next opening; the gate opens three times. 3 bit sequence numbers
  with gaps of two wrap every few packets, sums of ten values wrap both ways.

### 3.2 Fairness

* Accumulator: none. That a holder of the mutex gives it back is stated without
  fairness: `CriticalSectionShrinks` says that each of its steps, and no step of
  another thread, makes a number smaller that is never negative, and such a
  thread never blocks.
* Recorder: weak fairness of both threads. Each is a loop that blocks only in
  `signal_wait`, where its action is disabled. Spurious wakeups are not fair.
* Tables and Locks: none, all of their properties are safety. `StopIsServed` stands for "the STOP
  can go on" without a claim that the scheduler lets it.
* ThreadLife: weak fairness of `StopStep`, main inside a component's stop from `stop_thread` on, which waits only in
  `usleep(50 ms)`; that main comes to the next stop is not assumed. And of `Unhindered(t)` for each thread: it is scheduled, and goes on as
  long as nobody else keeps a lock. `Wake` is not fair: the blocking call of a thread may never return. A thread that
  outlives its component is assumed to find its memory as it was.
* Machine: weak fairness of every context that is inside `fire`, and of main's loop and
  return, where a component call is fair only while no thread was left behind (`Sure`): then whoever holds a lock is alive and gives
  it back, and `stop_thread` returns (`StopReturns` of `ThreadLife`). After that it may hang, as `StopIsServed` of `Locks` shows for a
  relayer that died with the listeners' table. Signals and failures are not fair.
* Library: none.

### 3.3 Findings

* `recorder_two`: the relayer demands one mxrecord per round and queues it once
  per listener (`cmp/cmp_recorder.c:225-260`, with a TODO at 258). With two listeners
  the second sample overwrites the first one in the puffer.
* `features_rtp`: the X of RTP_PACKETS_X and RTP_BYTES_X is stored as a port
  (`sys/sys_confs.c:98,102`) and looked for as a payload type (`lib/lib_features.c:144,165`), so both
  count payload type 0.
* `machine_kill`: `fsm_kill` says that the program is terminated (`fsm/fsm.c:41`) and
  returns into the endless loop of `program_main` (`ntrt.c:110`).

* `library_null`: `dictionary_set` keeps a key whose value is set to NULL (`etc/etc_dict.c:241`), where its comment says that this deletes
  the key and that there is no key without a value (`etc/etc_dict.c:214-217`). A section is such a key.

More disagreements with what one would expect are stated exactly by
properties that hold:

* `_u_short_diff` (`lib/lib_features.c:188`) is one too small over the end of the sequence numbers, so
  every wrap takes one from the reported losses, and one from zero is 2^32 - 1
  (`LossIsExactButForWraps`).
* `_dmap_rem_item` (`dmap/dmap.c:284-287`) destroys another row than the one asked for and leaves it in
  the table; with two rows or more a row is destroyed twice (`OneRowIsFreedOnce`).
* The puffer's waits are under an `if` (`cmp/cmp_predefs.h:149`), so that a spurious wakeup is undefined
  behaviour (`EverySampleIsWritten` names it as the only way there).
* A relayer that STOP leaves behind can die with the listeners' table (`StopIsServed`). The same STOP then waits for ever, and with
  it a run with `-t` (`TimedRunEnds` names it); a thread that needs a lock of a dead one does not end when told (`ToldThreadEnds`).
* `iniparser_set` adds an entry that is not there and returns 0, where its comment says -1 (`etc/etc_iniparser.c:520-521`); `DictionaryIsMap` holds
  of what it does.
* `iniparser_dump_ini` promises "a loadable ini file" (`etc/etc_iniparser.c:197`) and writes values without the quotes that they were
  read with (`etc/etc_iniparser.c:260-263`), among other losses (`DumpIsLoadable`).
* `bintree_reset` reads nodes that it has freed when the tree is larger than its recycle puffer (`lib/lib_bintree.c:489-518`, `TreeIsSortedBag`).
* What 2.11 lists for the library.

## 4. What is proved

All theorems hold for every value of the constants that the `ASSUME` of the
module allows (positive sizes, a word wider than the sequence numbers, gaps of
less than half the number space, NULL distinct from items).

* **DataPuffer.** `RingTypeCorrect`, `NoStaleSlots`, `RefinesFifo`. The invariant adds to types and
  stale slots (a slot has a pointer exactly when it is in the window)
  that the indices follow the window (`EndFollowsWindow`): what a write leaves occupied depends on `end`
  being where the window ends. The proof replaces the quantifier in `Occupied`
  by the linear condition `Covers`; the step simulation is one case per action.
* **Accumulator, ownership.** `TypeCorrect`, `MutualExclusion`, `RecordsHaveOneOwner`,
  `NothingLeavesEarly`, `CriticalSectionEnds`. `OneOwner` counts places and is not inductive; `IInv` says instead
  that hand, victims, pool and windows are disjoint and together are the heap
  (`Owned`), that no sequence repeats a record (`NoRepeats`), that only the mutex
  holder is inside (`Control`), and that a window about to grow has room (`Room`).
  `CriticalSectionEnds` is the variant of the expiry loop and of the walk over all
  windows: only the window at hand changes, and it gets shorter.
* **Accumulator, sums.** `WindowsStayOrdered`, `ResultIsExact`, `ResultIsTheSum`, `ReportsAreFresh`. `JInv` adds to `IInv` that
  stamps in a window precede the one in the sniffer's hand (`Stamps`), and a ledger
  (`Sums`): each record of the window starts at the total where the one before it
  ended, the last ends at the total, and `result` is the total minus where the
  oldest one starts, also while a record has left the window and is still
  owed. Modular arithmetic is in one lemma, `WordArithmetic`.
  That the closed form is the sum, item by item, is an induction over the length of the window. The library's
  induction theorems cannot be instantiated here, so the proof takes the least length for which the
  statement fails (`LeastOfNat`, from the well-foundedness of the naturals); in the same way the recursive function that
  `SumOf` chooses is shown to exist (`PartialSumsExist`, `SumOfUnfolds`), and then the sum telescopes (`SumTelescopes`).
  `ReportsAreFresh` needs one invariant more, `Reported`: what the relayer has found fresh stays fresh and in place
  until it gives the mutex back.
* **RtpLoss.** `LossTypeCorrect`, `LossIsExact`, `FramesNeedGaps` (the count of lost frames grows only at a gap, and by one):
  once initialised the container
  remembers the stream's last number (`InStep`); the lemmas `DiffOfGap` and
  `SumsStayExact` carry the arithmetic of one packet.
* **Barrier.** `BarrierIsSafe`, for any set of threads and any size of the gate. While the gate gathers, `current` is the number
  of the threads inside, and while it is open the flag plus those who have not left; which of the two it is decides who may be asleep
  and which opening each thread inside waits for (`GateInv`). That the last one out sees exactly the flag is the arithmetic of cardinalities.
* **Vector and queue.** `ListsAreKept`, for any sizes and addresses and any order of calls. `VectorInv`: until a call goes astray the
  memory is as large as the vector believes and never empty, so that doubling it makes room (`RoomKeepsItems`), and its first words
  are the list; each operation is compared with the operator on sequences that it stands for, item by item. `QueueInv` says that there is
  a sequence of addresses, each once, that are all nodes and are linked in that order both ways (`Links`), and that only the head of an empty queue may
  be wrong. The function `along`, which the property follows from the head, exists because the rest of that sequence is one
  (`AlongExists`), and is the only one, by a least counterexample from the tail (`AlongIsRest`).
* **Heap.** `HeapIsCorrect`, for any values and any base size above one. Inside a call the array is out of order: an item is on its
  way, and its place is a hole. While it rises (`Rising`), what is below the hole may be above it; while it sinks (`Sinking`), what is
  below may be there and the item too. With the item in the hole the array holds the same items before and after each step, which
  swaps two of them (`SwapKeepsCount`, a bijection). The three loops are recursive functions of an index and an
  array: `LoopExists` says once that there is such a function when the index comes closer to an end, and `LoopReaches` is the rule of
  an invariant for it. That the root is a greatest item is a least counterexample (`RootIsGreatest`), and that a pop takes what the bag
  of pushed items says follows from it. The invariant between the calls, `PrioInv`, is the property and the types.
* **Ini file.** `IniFileIsRead` and `DictionaryIsCorrect`, for any lines over any words, any case conversion of the words (`Lower`), any
  number of keys and any size the dictionary starts with. The first says that the loader, which keeps a line in pieces, one section and
  one count of errors, has at every line what the whole file up to there means; the second that the slots are a map, through
  doubling, the search for an empty slot behind the last one and the freeing of slots. `IniInv` is: the dictionary has
  no key twice and counts its slots (`DictInv`); while the file is read, the pending piece, the section, the errors and the map are
  those of the lines (`ReadsWell`); and afterwards the map is what was set. What the lines mean is defined over the joined
  lines, of which one more line changes the last one (`JoinedMore`); what that changes of sections, entries and errors is
  `SectionAtMore`, `MeaningMore` and `ErrorMore`, each about the greatest of a set of lines (`LastAdded`). That there is one way to join the lines,
  which a recursive function along the file says, is again a least counterexample (`JoinExists`, `JoinIsUnique`). Of the dictionary it is
  shown where a search ends (`PlaceIs`), that doubling keeps the map and makes room (`DoubleIs`), that the search for an empty
  slot finds one (`EmptySlotIs`), and what setting and freeing do to the map (`SetIs`, `UnsetIs`).
* **Command line.** `CommandLineRead` (in `MachineProofs`), for command lines of any length, any words and digits, any width of an `int` whose
  `INT_MIN` the factors of the suffixes divide, and any room for errors (`ArgsAssumption`). A text that is a number is read as that number: reading digit by digit is the same as adding the
  digits at their places (`SumIsValue`), all digits are read when the base has them all (`KnownIs`), and the two comparisons that `scanfn_int` makes
  with quotients say that the product fits (`OutsideIs`), which is where the division of `INT_MIN` is needed: with a factor that does not divide it the
  quotient is rounded. `ScanIs` is what all of that makes of a text. `CommandLineInv` says where
  `getopt_long` is (`Position`), that the table holds what was given and loses nothing without an error (`Honest`), that `arg_end` keeps the
  first errors (`Kept`), and that a file takes a word at least, so that there are never more of them than
  the table of files has places (`FilesFit`); without the last one the table could be full and a file refused. `AcceptHonest` is an
  option with its value, through all three scan functions. TLC was asked first whether `CommandLineInv` is an invariant.
* **Trees.** `TreeSorted` (in `MachineProofs`), for any number of nodes, any values and keys, any size of the recycle
  puffer and any sequence of calls up to the first use of freed memory (the two of 2.11, which set `broken`): keys are in order, a node has the references its key has in the bag, `top` and `bottom` are the ends, the counters agree
  unless one of the three known losses has happened, and every node is at one place. `TreeAssumption` says that memory is finite, and that keys are in an
  order. The links are functions on all of memory, and a tree is known by a third one, D, which gives the nodes below
  each node: `Shape` says that a node is in none of its sides and the sides share nothing, `Sorted` that keys fit. D is not
  part of the program; `Tidy` says that there is one, `Sound` adds the counters, and `TreeInv` is `Sound` of the variables. Each call changes D
  in one of few ways: a new leaf (`Grown`), a node replaced by its only child (`Shrunk`, `Cut`), two neighbours in the order
  trading what they hold (`Traded`). That these keep `Shape` and `Sorted` is `GrownShape`, `ShrunkShape`, `ClearedShape` and the
  lemmas on `Sorted` beside them. The recursive functions that follow links exist because what is below a child is smaller
  (`ChainExists`), and with it a search ends where its key is or belongs (`PathLeads`, `Landed`), going right ends at the greatest
  (`RightestIs`), and what is reachable is `D[root]` (`ReachableIs`); that two nodes of a tree are above each other or part somewhere (`Meet`)
  gives that keys differ (`KeysDiffer`) and that a node has one parent (`OneParent`), which `Relink` relies on.
* **Multi-reader puffer.** `MultiPufferReadsInOrder`, for any length and items, until a writer passes `start`. `MultiInv` says
  where the items are: at increasing offsets from a `start` that may itself be a hole, up to `end`, and nothing else in between or
  outside (`Lies`); and that the read index aims at the item behind the `plus` oldest, with only holes and older items before it
  (`Aims`), which is what makes the search from there stop at the right one. `start = end` may mean a full ring or an
  empty one, and a write keeps `Lies` only in the second case: a write in the first one is what `passed` stands for. `WriteLies`, `StartLies` (moving `start` over the holes) and `ReadLies` (a new hole) are the steps; `SkipIs` follows the loop of
  `mdatapuffer_setreadindex` with the same lemma on loops (`LoopExists`, `LoopReaches`) as the queue and the ini file. Liveness, such as that a
  reader comes to every item, is not claimed.
* **Recorder, any number of listeners.** `TypeCorrect`, `OneSignalServesBoth`. `Rounds` says that all listeners were sampled equally often but for
  those the relayer is past in this round, which bounds every counter by the number of rounds; `Pointers` says when each thread has an
  mxrecord. A thread that waits for the puffer to change its level is woken at that level by the only step that leaves it.
* **Recorder, one listener.** `OneOwnerOfOneListener`, `FileOfOneListener`, `AggregationOfOneListener`, for any sizes of puffer and pool and any number of
  rounds. One listener is the hypothesis because `recorder_two` shows all of it false for two. The invariant
  `OneListener` says that pool, puffer, both pointers and the heap share no mxrecord (`Owned`), and that the mxrecord at the filewriter and those in
  the puffer, in their order, hold the samples that follow the last row of the file, and the relayer's the one after (`InOrder`). All of it
  holds up to a spurious wakeup that loses both threads.
* **Features.** `VerdictsAreTrue`, `ColumnsAreWhatTheyName`, for any sections, names, packets and lists: each of the three
  tests leaves a `sniff_t` whose verdicts agree with its packet, and misses no transport (`Agrees`), whichever were asked before, so that an
  evaluator counts what the name asks for (`ValueIsWorth`, with `ContainerHasNumbers` for the fields that sscanf fills). The invariant
  says that a listener's list starts with its own evaluators, with nothing behind them unless another copy was appended
  (`Copied`), and that a record is what its packet is worth as far as it is filled (`Measured`). `Found` and `Sum` are recursive
  functions along a sequence: that they exist, and what a step adds, is one pair of lemmas on least counterexamples (`IteratesExist`, `IteratesAgree`).
* **FlowCounter.** `TypeCorrect`, `FlowsAreUnique`, `CounterIsExact`, `RefinesActivePorts`, for any sets of
  listeners and ports and any timeout. The invariant ties the list to the
  history: a flow's `last_activity` is when its port was seen last, and a port that was
  seen and has no flow had timed out. During a walk it is split at the cursor:
  what the relayer passed was fresh since the request, what the sniffer passed is
  of other ports. That the counter at the answer is the cardinality of the ports
  in the list is a bijection from indices to ports.
* **ThreadLife.** `TypeCorrect`, `FreedOnlyAfterGivingUp`, `StopsAreNotLost`, for any set of threads
  and any wait limit. The invariant says what each side may conclude from the
  field without a lock: before it has entered a thread's state is STARTED
  (`Born`), main tells only a thread that has entered (`Busy`), and it leaves its
  wait early only when STOPPED is there, which means the thread is gone (`Heard`).
* **Tables.** `TypeCorrect`, `RefinesMappedVars`, `RowsAreFreedOnce`, for any number of sections, any
  configurations and values and any size of the table. Until the tear-down the rows are an initial segment of the table, in the order
  of the items (`RowsInOrder`), every item is a variable that some section names, each once (`ItemsAreNamed`), and
  what was gone through is an item unless the table is full (`NamedAreAdded`), which makes START open a table that knows
  what `MappedVars` says. `LockIsHeld` ties the lock to who is inside, and
  `CopiedIsCurrent` says that what the relayer has copied is still true while it holds the lock,
  from which the step that writes the row is `Show`. `TearDown` says how far the iterations are
  and what is destroyed: with one row SHUTDOWN destroys nothing and
  `dmap_deinit` all; with more, the first step of SHUTDOWN destroys the second row, which stays in the table, and
  `dmap_deinit` comes to it again, so that `ended` cannot be reached. That the least free slot exists is the
  well-foundedness of strict inclusion of finite sets.
* **Locks.** `LocksTypeCorrect`, `NobodyWaitsInACircle`, `StopsAreServed`, `LeaksNeedTwoStops` (in `TablesProofs`, since the tables' locks
  are what they are about), for any set of set-ups: any number of listeners, each with its own sniffer, with or without variables and
  commands, and any size of the puffer. Assumed are that much (`LocksAssumption`) and nothing of the order in
  which anybody runs. `NoCircularWait` alone is not inductive: that nobody waits in a circle now says nothing of what the
  scripts still hold. `LocksInv` is `Loading`, `Working` or `Over`; while the program works it says
  - which calls each actor may have left (`Scripted`): the relayer's and the filewriter's own ones; of a sniffer those of its
    initialisation with a `fsm_kill` in it, or of its round; of main the rest of START or a `fsm_kill`; of who carries out a
    STOP the rest of it up to SHUTDOWN, then only unlocks. Every lock call is followed by its unlock (`Balanced`);
  - who may hold what (`Held`, `Exclusive`, `Returned`): the relayer writes the listeners' table or main and sniffers read it,
    and whoever does is alive with the unlock ahead of him, or is the dead relayer; the lock of the sniffers' table is only with
    someone who carries out a STOP, and with one of them; the others only with the dead;
  - who sleeps at the puffer, and that it is full or empty then (`Sleepers`); that the dead and those who have ended do nothing (`OnlyTheLivingAct`);
  - what START has started yet (`StartsFresh`, `Started`), and that a STOP deals with the relayer before anybody else
    (`StopsInOrder`): until the relayer has ended or is left behind nobody is cancelled or dead and the filewriter runs;
  - that the only STOP there was yet finds each sniffer once and in its table (`FindsAll`), which is why it leaks no lock.

  `EdgesAre` reads off this who may wait for whom: readers of the listeners' table for the relayer, the relayer for
  its readers, relayer and filewriter for each other at the puffer, who carries out a STOP for the one with the sniffers'
  table, and others for the dead. A circle through the relayer needs a reader who waits for something else than the relayer,
  or a puffer that is full and empty; one without him needs two holders of one lock. What the scripts of many
  listeners are made of follows the definition of `FlattenSeq` step by step (`FlattenJoins`), with an induction over a set in place of the
  library's (`UpTo`). TLC was asked first whether `LocksInv` is an invariant of the two set-ups of `MCTables`.
* **Machine.** `TypeCorrect`, `MisuseIsCaused`, `StateTellsTheTruth`, `SniffersAreServed`, for any finite set of sniffers and any
  number of signals. As soon as two fires have overlapped, or an event came untimely, nothing is promised; as long as neither
  has happened (`Calm`) the invariant `Orderly` holds: at most one context is in `fire` (`Alone`), only main sets up and only
  once (`Pending`), between transitions all components are in the same stage (`Rests`), and the k-th call of a
  transition finds the components of the earlier calls with what those calls give and the others with what theirs need
  (`Reached`). For that the calls of a transition must name each component once, in any order of the
  table of sniffers (`CallsOfTransition`).

Only model-checked: liveness (`EverySampleIsWritten`, `StopReturns`,
`ToldThreadEnds`, `TimedRunEnds`), which needs ENABLED; `EveryRowInItsFile` with more
than one listener, which is false; and of the library the sliding window (`StatisticsOfWindow`,
`PercentileSplits`) and the dump of an ini file (`DumpIsLoadable`), which are built on
recursive operators or on operators that take operators (`SelectSeq`, `FoldLeft`); the provers cannot use these.

## 5. Not modelled

* The clock does not step back; `gettimeofday` may.
* `RtpLoss` has no reordering, which the repository's README excludes: a late packet would pass the guard as a gap of
  almost the whole number space.
* Start and stop of the accumulator and of the group counters, which touch the
  windows and the flows without the mutex, are calls of `Machine` and not part of `Accumulator` and
  `FlowCounter`. `ServersComeFirst` says when they overlap with a running sniffer; what a sniffer does with a window that was freed
  under it is undefined.
* `Machine` takes a signal between two component calls. Inside a call main may hold
  a lock that the handler then waits for; `Locks` lets main fire STOP itself, where the
  handler would run.
* The thread table of dmap, whose `thread_t` is freed at STOP while its row stays.
* The search for a slot in the sniffers' table (`cmp/cmp_predefs.h:719`) goes on behind the table when there are more listeners than
  slots; `Locks` has a slot for each. What it would overwrite is not defined by the source.
* `thread_sleep` takes a `uint16_t`: longer waits are cut off. Time between two rounds is not modelled.
* `ThreadLife` knows that a thread keeps a lock and not which one; that is in `Locks`, which has no time and no end of a told thread
  to promise. `ToldThreadEnds` therefore excuses also threads that do not need the lock in question. Neither module has what a thread
  does with freed memory of its component.
* Bytes: parsing of headers beyond the fields the features compare, the wording of rows and messages, the layout of the command file,
  the printing of help and errors. Plugins' destructors and the printing of trees.
* Code that no component calls and that keeps no state worth a model: `sniff_rtp_packet`, address helpers, the iterators of `lib_funcs.c`.

## 6. Plan

What would come next, the most important first:

1. A signal inside a call: the handler's STOP while main holds a table, composed of `Machine` and `Locks`.
2. The windows of `Accumulator` between START and STOP, with sniffers that still send.
3. An abstract specification of the measurement (a set of stamped values and
   the sum of those in the window) that `Accumulator` implements; `ResultIsTheSum` and `ReportsAreFresh` are its lemmas.
4. The thread table of dmap with the two owners of a `thread_t`, composed with `Tables` and `ThreadLife`.
