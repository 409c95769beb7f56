# A verification of WinDivert

WinDivert lets a Windows application capture, drop, modify and inject network
packets. It consists of a kernel driver (`src/sys/windivert.c`), which hooks the
Windows Filtering Platform (WFP), a DLL with the programming interface
(`src/dll/windivert.c`, `src/dll/windivert_helper.c`), and the definitions the
two share (`src/include/`). This directory holds TLA+ models of the parts that
carry the system's logic, the TLC runs that check them on small instances, and
proofs that TLAPS checks for every instance.

## 1. Inventory

### The driver (`src/sys/windivert.c`)

| Part | State | Operations | Interacts with |
|---|---|---|---|
| Packet path of a handle | `context_t`: state, work queue, packet queue with length, size and limits, read queue, work item, filter | `windivert_classify_callout` (2353), `windivert_worker` (2580), `windivert_queue_packet` (2706), `windivert_read` (1450), `windivert_read_service` (1559), `windivert_reinject_packet` (2854) and its completions (3005), SET_PARAM (2104), `windivert_cleanup` (1303), `windivert_close` (1402), `windivert_destroy` (1425) | called by the network stack at dispatch level, by system worker threads, by reader threads and by the thread that closes the handle; all share `context->lock` |
| Callouts of a handle | `on`, `layer`, `installed[]`, WFP session | START_FILTER (2006), SET_LAYER (2041), `windivert_install_callouts` (1031), `windivert_install_callout` (1097), `windivert_uninstall_callouts` (1204) | WFP transactions; raced by the cleanup |
| Filter | the compiled program | `windivert_filter_compile` (3841), `windivert_filter_analyze` (3709), `windivert_filter_test` (3771), `windivert_filter` (3239) | compiled at START_FILTER, analysed by the callout installation, run by the classify callback |
| Priorities | `priority_counter`, context priorities, the packet context | `WINDIVERT_CONTEXT_PRIORITY` (351), the classify wrappers (2231-2348), the priority test of the classify callback (2413-2424) | decides which handle of several sees a packet next |
| Injection by the application | the packet's copy, its MDL and NET_BUFFER_LIST | `windivert_write` (1614), `windivert_inject_complete` (1783) | the WFP injection interface, the write request |
| ioctl dispatcher | - | `windivert_caller_context` (1816), `windivert_ioctl` (1938) | all of the above |
| Load and unload | global handles and pools | `DriverEntry` (578), `windivert_driver_unload` (834), `windivert_install_sublayer` (889) | WDF, WFP, NDIS |

### The DLL

| Part | State | Operations |
|---|---|---|
| Handle interface and driver service (`dll/windivert.c`) | the driver's service, one event per thread | `WinDivertDriverInstall` (236), `WinDivertOpen` (381), receive, send, parameters |
| Filter compiler (`dll/windivert_helper.c` 787-2006) | expression pool | tokenizer, parser, `WinDivertEvalTest`, `WinDivertFlattenExpr`, `WinDivertEmitTest`, `WinDivertEmitFilter`, `WinDivertCompileFilter` |
| Filter evaluator (2105-2443) | - | `WinDivertHelperEvalFilter` |
| Packets (200-754) | - | parsing, checksums, addresses |

### What is hard about it

- **Interleaving.** A list of packets passes from the classify callback to a
  worker to the packet queue to a reader, with the lock dropped between any two
  of these, while readers arrive, are cancelled, limits change, and the handle
  is closed. No test of the repository runs two threads on one handle.
- **Closing.** `windivert_cleanup` must take back everything other threads
  still hold, without waiting for a thread that waits for it, and without
  deleting an object that is still used. The classify callback evaluates the
  filter without the lock; a reference on the file object is all that keeps it.
- **Partial failure.** Allocation, injection and every call of WFP can fail in
  the middle of a list or of an installation.
- **Limits.** Work queue and packet queue discard their oldest entries when
  full, and the limits change while packets are queued.
- **Untrusted programs.** The driver runs a jump program that comes from user
  mode, without bounds checks at run time.
- **Two implementations.** The DLL evaluates the same programs with a decoder
  of its own, and decides tests by ranges that the driver writes down again.
- **Several handles.** Each packet goes through the callouts of all handles and
  is re-injected in between; a number that travels with it is all that keeps a
  handle from taking it twice.
- **Several processes.** Any process may find the driver missing and install
  it, while others do the same, the driver unloads, or a process is killed.

PROJECT.json lists these hazards at their lines, with the properties that
cover each; one (the number of calls of a recursion) has none.

### What makes each part correct

- Packet path: each diverted packet has exactly one fate; no wakeup is lost;
  each read request is completed once; the packets of a list are read in order;
  queue counters agree with the queues; nothing is used after it was deleted; a closed handle has
  given everything back; closing ends.
- Callouts: no callout outlives its context; no transaction stays open; a
  failed start leaves nothing; a successful one has exactly the callouts its
  filter calls for.
- Filter: a checked program stays in bounds and ends by itself; the analysis
  never overlooks traffic the program accepts; the DLL agrees with the driver.
- Priorities: handles get a packet in the order of their levels, none twice and
  none left out; no packet loops for ever.
- Requests: each is answered once and truly, and its memory freed once.
- Filter compiler: it takes the filters of the language and no others; the
  program it emits is one that the driver takes and that computes the filter.
- Driver and service: an opened handle is what was asked for; nothing is used
  before it is created or after it is destroyed; nothing is left behind; opening
  ends.

## 2. Modules

### DivertContext: the packet path

One action is one critical section of `context->lock`, with the private code
that follows it up to the next acquisition. The variables carry the names of
the fields of `context_t`; the locals of each thread are functions over the
threads (`pc`, `work`, `rest` for the buffers not yet visited, `pkt`, `req`).
A reader thread is named by its request: it submits it and then runs the read
service itself, possibly for other requests.

| Actions | Code |
|---|---|
| `ClassifyEnter`, `ClassifyFilter`, `ClassifyNoMemory`, `ClassifyQueue` | the classify callback: reference the file object, evaluate the filter without the lock, block the list and queue it as work, discarding the oldest when the queue is full |
| `WorkerStart` ... `WorkerFinish` | the worker: take a list, move an inbound one back to its IP header, sniff, step through the buffers, release the list |
| `QueueRefuse`, `QueueDrop`, `QueueFast`, `QueueCopy` | first critical section of `windivert_queue_packet`: closed, drop mode, fast path to a waiting reader, or copy |
| `InsertRefuse`, `InsertDrop`, `InsertEvict`, `Insert` | its second one: check again, evict while full, insert, service the readers |
| `Read`, `ServiceExpire`, `ServicePair`, `ServiceReturn`, `Serve` | reads and the read service |
| `InjectComplete` | completion of an injected copy |
| `SetParam`, `Cancel` | what else the application may do |
| `CleanupBegin` ... `CleanupUninstall`, `Close`, `Destroy` | closing the handle |

`Put` is `windivert_reinject_packet`; it succeeds or is refused (`May` has
`inject`), and either way accounts for the list's reference. `sent`, `read`,
`lost`, `malformed` and `completions` are history variables.

The set `May` names what the environment may do to the driver in an instance:
allocation, retreat, injection, forwarding and service failures, elapsed
timeouts, cancellation, SET_PARAM. Time is not modelled: where `May` allows
timeouts, each test of a packet's age comes out either way.

External behaviour assumed (marked external in the map): a WDF manual queue
hands out each request at most once and completes purged ones; a work item's
callback does not run concurrently for one enqueueing, and enqueueing an
enqueued item has no effect; `WdfWorkItemFlush` returns when the item is neither
enqueued nor running; the framework calls EvtFileClose when the file's requests
are complete and destroys the context when the references are gone.

### Handle and DivertHandle: what the packet path promises

Handle is what an application and the network may rely on, without queues and
threads: a list is taken off the stack while the handle is open, or missed; a
taken packet is given to one read, put back once, or lost; a read is answered
once; a handle is closed when it has neither packets nor reads left. DivertHandle
maps DivertContext to it: the packets a handle has are those of the lists that
wait as work, those a worker has still to visit, the queue, and those a thread is
giving to a read. `ImplementsHandle` is Handle's specification under the mapping.

### Callouts: starting a handle

One action is one critical section or one call of WFP. Two calls share the step
before them: adding the filter after its callout, within one transaction of which
nothing is seen before it commits, and unregistering a callout after the lock is
released or a call has failed, which no other thread can tell from unregistering
it at once, because the framework keeps the context until the START_FILTER is
complete. Each WFP call may fail if `May` has its name. `txn` is the transaction of the handle's session; a
second begin on the same session fails; a failed commit ends the transaction;
calls on a closed engine handle fail. `ok` is the `status` of each request,
nondeterministic at its declaration because the code does not initialise it.

### Requests: the requests of a handle

Extends Callouts with the SEND and SET_FLAGS requests of the same handle.
`CallerContext` is `windivert_caller_context`; `WritePrepare`, `WriteCheck`,
`WriteInject` and `WriteExit` are `windivert_write` cut at the lock and at the
injection; `InjectComplete` is the completion routine, which the platform may
call as soon as the packet is injected, before `WriteExit`. `mem` follows the
three pieces of memory of a SEND, `completed` counts its completions. The
direction, the length and what the IP header claims make up an offer of the
application. `System` is the composition: every step is a step of Callouts or
leaves its variables alone (`SystemImplementsCallouts`), and the handle is
closed only when the SENDs are complete as well.

### Priorities and Route: several handles

Route is what the driver guarantees: a packet is held by handles of
non-increasing priority and by none of them twice. The documentation promises more
(`doc/windivert.html` 508, "A packet is only diverted once per priority level"),
which holds only where no two handles share a level; the documentation advises
against that, the driver does not prevent it, and then all of them get the packet.
`SharedPriority` in Route is this exception. Priorities is the driver:
`ContextPriority` with its wrapping serial number, SET_PRIORITY in the two steps
between which the lock is taken, the platform asking callouts by weight
(`Remaining`, `NextAsked`, external), the classify callback that passes a packet
on (`Continue`) or absorbs it with its list (`Absorb`), the worker, the cleanup,
reads with `windivert_finalize_packet`'s hop, sends, and another driver that
copies packets. The refinement mapping takes the handles that took a packet for
Route's holders. In the code a smaller number is a higher priority; the model
counts levels from 0. What a handle's queues do is DivertContext's business;
here they are the places "work" and "queue", from which a packet may be lost.

### FilterProgram and FilterVM: the filter

FilterProgram has the encoding and the pure parts: validation of an
instruction, field values, tests, the analysis, the checksums that the classify
callback takes for present, `windivert_finalize_packet`, and the DLL's
evaluator. FilterVM is the driver's use of it. `CompileOne` consumes one
instruction the application sent (`Instructions`: a field, test and argument of
`Offers` with any two jumps from 0 to REJECT) and accepts or refuses it. The
instruction is in a buffer that the application can write to during the ioctl
(METHOD_IN_DIRECT), and the driver reads it three times: to check it (3868-3993),
to copy it (3994-4001) and to select its protocol (4003-4080). So `CompileOne` has
three arguments; the second and third are the first or one of `Rewrites`, and
`rewritten` says that something was copied otherwise than it was checked. Nothing
checks the copy again, so the properties of the evaluation and of the analysis
speak of programs that were not rewritten, and say so. `Parse` and `Execute` are
the evaluation, one turn of the loop per step; outside the program, where only a
rewritten one gets, the evaluation reads whatever is there and ends either way. A packet is
what the parsers find in it: direction, IP version, transport header, the values
of its fields, whether its IP header is sound, whether its transport header also
passes the DLL's stricter checks (`strict`), whether another driver injected it
(`hop`), and which checksums are present. The order of bytes and the position of
bits are conversions the two decoders have in common and are left out, except
for DF and MF, where they differ.

Assumed: the framework refuses an empty buffer, so a program has an instruction.

### FilterCompiler, FilterPipeline and FilterLanguage: from string to verdict

FilterCompiler is the DLL's compiler: tokenizer (on lexemes: which characters
make up a word or a number is left out), parser with its pool and depth,
`WinDivertEvalTest`, `WinDivertFlattenExpr`, `WinDivertEmitFilter`. As in the
code, an expression is a place in the memory pool and its arguments are other
places, so the pool's size and the missing expression (NULL, place 0) are there.
The recursion of the code is that of functions: the parser's on the depth that
is left, its loop's on the rounds, the flattening's on the place. An operator
that makes recursive calls, such as `ParseArg`, gets what they do as a parameter.

FilterPipeline composes it with FilterVM: a string is compiled, the program sent
to the driver, compiled there and run on a packet. `Value` is what a parsed
expression means for a packet, place by place. FilterLanguage has a second
reference, `Values`: the filter language as the documentation defines it, which
knows neither tokens, pool, labels nor programs. It splits a string at its
outermost operators, and is a recursive operator for TLC only.

### DriverService: opening handles

`OpenDevice` ... `StartFilter` are WinDivertOpen and WinDivertDriverInstall, one
action per call of the system. `DriverEntry` creates one resource per step (the
injection handles of IPv4 and IPv6, the two pools, the engine handle, the six
sub-layers, which appear together when their transaction commits), and any of
these calls may fail; `DriverUnload` destroys one per step. Its transaction deletes
the six sub-layers in one step (`RemoveSubLayers`), and may leave any of the sets
in `Stay`: all of them when it does not begin or commit (858-863, 877-882), some
when a deletion fails (its result is not looked at). `sub` is what is registered
with the platform, which outlives the driver (the session is not a dynamic one);
`leftover` says that an unload left some. A filter can start when the sub-layers of
its callouts (`Uses`) are registered, whether or not DriverEntry is done; `early`
are the handles for which that happened. `Openable` is what
`WdfControlFinishInitializing` (703) makes true: the device can be opened while
DriverEntry goes on. The service manager is external: it loads one driver at a
time, stops a driver when its last handle is closed, and removes a service that
is marked for deletion when it is stopped and nobody has a handle to it. A
handle is represented by the configuration that it has in the driver. Processes
may be killed at every point (`Kill`); `orphan` says that one was while the
service was registered for good. `flights` counts packets in the network stack,
which outlive their handles.

### MC modules and proof modules

`MCDivertContext`, `MCRequests`, `MCPriorities`, `MCFilterVM`,
`MCFilterPipeline` and `MCDriverService` give the constants values for TLC;
nothing of the models is replaced. The proof modules extend the models with
theorems: `DivertContextProofs` (types, counters, requests), on it
`DivertLifeProofs` (cleanup, deletion, lists) and on that
`DivertFatesProofs` (what becomes of each packet, the order of reads, and that the
packet path implements Handle); `RequestsProofs` (callouts and requests),
`PrioritiesProofs`, `DriverServiceProofs`, `FilterVMProofs` and on it
`FilterCompilerProofs`.

## 3. Runs

### The packet path

- **context_races**: two workers, two readers, three lists of which one is
  inbound and one does not match, a work queue of one, timeouts, refused reads,
  cancellation, changing limits, a close at any time. Checks `NoLostWakeup`,
  `RequestCompletedOnce`, `NoUseAfterDelete` (work items, read queue
  and filter), `NothingLeftBehind`, `CountersAgree` (with timeouts and packets of
  different lengths), the types, and the refinement
  `ImplementsHandle` (of a sniffing handle, and where injections fail, it is
  proved only). Two of each kind of
  thread are what every race in the code takes; three lists are what the work
  queue needs to overflow while a worker is busy.
- **context_modes**: a list of three buffers (match, no match, match) and an
  inbound one, on a diverting, a sniffing and a dropping handle (`mode`, chosen
  in `Init`: the flags cannot change once the handle is started), with all
  failures, the size limit changing and a work queue of one, so that the second list
  can push the first out. Checks `EvictionHasVictim`, the lists' bookkeeping
  (`ListsBalanced`, `IntactWhileOpen`), `OneFate`, `SniffOnce` and `ReadInOrder`:
  no packet is given to a reader while an earlier one of its list waits in the
  queue. The third buffer is larger than the smallest queue and fits in the
  largest together with the first. Timeouts are not among the failures here (with
  them the run doubles); what `OneFate` and `ListsBalanced` say of packets that
  expire is proved only.
- **context_live**: `CloseTerminates`, `ListsReturned`, `ReadersServed` under
  fairness.
- **close_loses**: see Findings.

Fairness (`Fairness` in DivertContext): a classify callback, worker, reader,
cleanup or completion that has begun goes on. None of them waits for anything
but the context's lock, a queued spin lock that is granted in order, and the
flush. The network owes no packet, the application no read and no close.

### Requests of a handle

- **requests**: two START_FILTERs (inbound; inbound IPv6), SET_LAYER,
  SET_FLAGS, a SEND and a close, with any WFP call and any allocation failing.
  Of the callouts: `NoCalloutOutlivesHandle`, `TransactionsEnd`,
  `FailureUndone`, `StartedAsConfigured`. Of the SEND: `AnsweredOnce`,
  `MemoryFreedOnce`. Of all: `CloseTerminates`, under
  fairness of the requests that were accepted, the cleanup, and the platform,
  which calls every completion routine. Two STARTs suffice since `on` admits
  one; SENDs do not touch each other (the theorem is for any number). The offers
  are the smallest packet of either version, one whose IPv6 header counts
  itself, and one with a bad address: one for each way through
  `windivert_write`.
- **callouts_empty**: see Findings.

### Several handles

- **priority**: two handles with four setups of modes and filters, two levels,
  a serial number that wraps after two (so that later handles come before
  earlier ones and two handles get the same priority), one packet with a TTL of
  two, and another driver. `ImplementsRoute` is Route's specification under the
  refinement mapping (which is weaker than the documentation for handles that
  share a level); `NoneSkipped`; `LoopsEnd` under fairness of the driver
  only: the application need not read and the other driver need not copy. The
  system may stop (all handles closed and the packet gone), so deadlock is not
  checked.

### Filter

- **filter_programs**: all programs of up to three instructions, with all
  jumps, about directions, IP versions and TCP, four valid instructions and two
  that are not; programs of `MaxLen` = 4 instructions exist, and are refused, as
  128 are. Three instructions allow a jump over one and two paths that join again.
  The four packets give every pair of tests every pair of answers. Any instruction
  may be replaced between its check and its copy by one that jumps back and out of
  the program. `EvaluationSafe`: unless the program was so rewritten, no
  instruction outside it is read and the step counter never ends an evaluation;
  `AnalysisSound`, for the same programs.
- **filter_language**: about 18000 strings on 20 packets and both layers:
  every arrangement of three tests with "and", "or", parentheses and
  conditionals; all comparisons of fields of each kind at and next to the ends
  of their ranges, IPv6 addresses included; all strings of up to four tokens and
  filters with one token missing or wrong; chains and nestings up to and past
  the limits, which are scaled down together (`CompilerAssumption`).
  `TakesTheLanguage` and `VerdictIsValue` compare with the language, `DriverTakes`
  with the checks of the driver, `VerdictIsParsed` with the value of the parsed
  expression, `EvalAgrees` with the DLL's evaluator.
- **filter_flags**, **checksum_absent**: see Findings.

### Opening handles

- **service**: two processes, one with the default configuration and a filter
  without callouts and one with another configuration and a filter on forwarded
  IPv6 packets, every call failing at will, the unload removing all sub-layers or
  all but the one that DriverEntry adds last (so that the next DriverEntry gets as
  far as it can before it fails on it), one packet of each version in flight.
  `OpenedAsAsked`, `SendersHaveResources` (but for `early` handles),
  `PoolsOutliveFlights`, `LoadUndone` (but for sub-layers the platform did not
  remove), `ServiceTemporary`, `Uninstalled` (both but for a process that was
  killed while it installed the service); `OpenReturns` under fairness: threads and
  the driver go on, packets leave the stack, and the service manager serves
  every StartService in its turn (strong fairness: it queues them while a driver
  loads or unloads, however often others load it in between). Two processes are
  what every race between installers takes; the safety properties are proved for
  any number.

## 4. Findings

Each is a run in which TLC finds a documented statement violated.

1. *Packets lost at close* (`close_loses`). A close that falls while a worker is
   between two buffers of a list loses the rest of the list: it is in neither of
   the queues the cleanup empties. The CHANGELOG says internally queued packets
   are re-injected on close.
2. *Uninitialised status* (`callouts_empty`). A filter that needs no callout, as
   the documented `"false"`, makes START_FILTER return an unassigned status.
3. *DF and MF* (`filter_flags`). In the driver the value of `ip.DF` is 0x40, the
   argument at most 1, so `ip.DF == 1` never matches; the DLL's evaluator says
   it does.
4. *Absent IPv4 checksums* (`checksum_absent`). `windivert_finalize_packet` tests
   the bit of the IPv4 checksum the wrong way round (3125): it clears the field
   when it is present and leaves it when it is absent; the documentation says an
   absent checksum is set to zero.

### Observations

Met while modelling; they have no run of their own. Where a property has an
exception because of one, it says so.

- The cleanup re-injects inbound lists from the work queue without moving them
  back to their IP header (1357-1378, against 2611-2620).
- On a SNIFF handle the original is blocked first too, and lost if the work
  queue is full (2551).
- A handle that shares a level with another gets a packet after it, so that one
  level diverts a packet more than once (the documentation, 508, says once per
  priority level); the exception `SharedPriority` of Route.
- `windivert_filter_compile` checks an instruction in the application's buffer and
  reads the buffer again to copy it (3868-4001); what it checked and what it copied
  are the same only if nobody writes to the buffer in between. The exception
  `rewritten` of `EvaluationSafe`, `AnalysisSound` and `EvalAgrees`.
- When an injection fails, `windivert_reinject_packet` frees a copy of its own
  with the function for clones and a clone with the function for copies (2977-2984,
  the other way round than its completion routines, 3005-3022). The model only has
  that the copy is gone.
- The TTL ends a loop with another driver only if every handle reads the packet:
  one that re-injects it unread (SNIFF, or a packet in the list of one that
  matches) makes it the driver's own for those that follow (2414-2431). Hence
  `AlwaysRead` in `LoopsEnd`.
- The DLL emits up to 128 tests (`WINDIVERT_FILTER_MAXLEN`), the driver refuses
  128 (3853); and `ip.TOS` may be compared with up to 65535 in the DLL and 255 in
  the driver, so that WinDivertHelperCheckFilter accepts filters that
  WinDivertOpen refuses. Exceptions of `DriverTakes` (which speaks of
  instructions, not of the length).
- A test that the range of its field decides, such as `tcp.DstPort <= 65535`, is
  true of a packet without that field, against the documentation (1528). The
  exception `SettledWithoutField` of `VerdictIsValue`.
- A conditional whose condition failed to parse goes on with a missing
  expression (`WinDivertParseArg`, 1371-1425); the model has the code "FAULT"
  for the dereference, and `TakesTheLanguage` shows that only strings that are
  no filters get there.
- If the removal of the sub-layers fails while the driver unloads (858-882), they
  stay, and the next DriverEntry fails on them (its own unload then removes them,
  if it does not fail again). Until then a handle opened during that DriverEntry can
  start a filter before the pools and injection handles exist; a filter without
  callouts can do so in any DriverEntry. It sees its sends and reads fail, or all of
  its calls when DriverEntry has failed. The exceptions `leftover` of `LoadUndone`
  and `early` of `SendersHaveResources` and `OpenedAsAsked`.
- The clean-up of a failed installation stops the service (297) although another
  process may have just started it; handles keep the driver loaded, so nothing
  breaks that was open.
- WinDivertGetParam refuses WINDIVERT_PARAM_QUEUE_SIZE (625), which SetParam and
  the driver accept.

## 5. Proofs

TLAPS checks every step. All theorems hold for every value of the constants that
the named assumptions admit; TLC evaluates these assumptions in the runs. All
safety invariants that a passing run checks are proved, and both refinements,
except for the two invariants named at the end of this section.

### The packet path

For any sets of lists, buffers, workers and readers and any limits
(`ContextAssumption`, `BufferAssumption`; no set needs to be finite).
`DivertContextProofs`:

- `TypeCorrect`. `TypeOK` is not inductive: a worker that takes the next buffer
  must have one, and an operation on the head of a queue must find it non-empty,
  which rests on the counters. The inductive invariant is `TypeInv` = `TypeOK`,
  `HasBuffer` (a worker queueing has a buffer left), `HasList` (a worker past
  the work queue has a list), `PacketCounters` and `WorkCounter` (the length
  counters are the queues' lengths, and the size counter is the last of the
  partial sums of the lengths of the queued packets: a witness sequence of sums
  takes the place of a recursive sum, so that it can be updated without
  induction).
- `EvictionSafe`: eviction has a victim, whatever SET_PARAM did. From `TypeInv`.
- `WakeupNotLost`: `NoLostWakeup` is inductive relative to `TypeInv`: every step
  that makes both queues non-empty leaves its own thread in the read service,
  and a thread leaves the service only from a critical section in which one of
  the queues was empty.
- `CountersCorrect`: `CountersAgree`, whose size is a fold over the queue. The
  partial sums of `TypeInv` end in that fold (`PartialSumsTotal`): the recursive
  function behind it exists, because the partial sums are one, and the shortest
  prefix on which the two differed (`LeastNumber`, from the well-foundedness of
  the natural numbers) would differ by the packet it ends with.
- `RequestsCompletedOnce`: with `HoldsRequest` (who serves has a request) and
  `NotSubmitted`, by classifying each step by what it does to the requests
  (`RequestStep`): submit, take, hand back, complete.

`DivertLifeProofs`:

- `NothingLeft`, from `CleanupInv`: `ClosingBegun` (the state is OPEN exactly
  until cleanup begins), `Drained` (what a loop of the cleanup has emptied stays
  empty), `Deleted` (which objects are left at each point), `Quiesced` (after
  the flush no worker runs). Every insertion checks the state under the lock, so
  none comes after cleanup has begun.
- `NoUseAfterDeleteHolds`, from `CleanupInv` and `RefInv`: the references on the
  file object are as many as there are classify callbacks between their two
  critical sections (`ReferencesCounted`, with the cardinality of that set), and
  `FreedLast`: the filter is freed when there are none and the handle is closed,
  after which none can begin.
- `ListsBalancedHolds` and `IntactHolds`, from `ListsInv`: a list waits in the
  work queue once or is held by one worker (`OneHolder`), was blocked
  (`HeldBlocked`), is held only inside the loop body (`BetweenWorks`) and is at
  its IP header there (`AtHeader`). Steps are classified by what they do to the
  lists (`ListStep`): queue, take, release, drain, inject a copy, complete one.

`DivertFatesProofs`:

- `OneFateHolds` and `SniffOnceHolds`, from `FateInv`. `OneFate` speaks of
  blocked lists only and counts places; its inductive form (`Fates`) is over all
  buffers: the eight sets of `Part` (on the stack, waiting as work, held by a
  worker, queued, being served, read, sent, lost) are pairwise disjoint, they
  cover all buffers, and the counts of the last three are at most one. It needs
  `HeldOnce`: a worker's remaining buffers are its list's, each once; a packet
  is queued once; the threads in `fast` and `serve` are those that hold a packet,
  no two the same. Each step of the driver moves one set of buffers from one
  place to another, or none, or, when the work queue overflows, two
  (`FateStep`); that such a move keeps the places apart and covering is a fact
  about sets (`MoveKeepsApart`, `MoveKeepsCover`), and that every action is such
  a move is where the code comes in (`NextFateStep`).
- In SNIFF mode a packet is on the network and on its way to a reader at once,
  so `Fates` leaves "sent" and "lost" out, and `SniffSent` takes their place: a
  buffer still on the stack, waiting as work, or held by a worker that has not
  sniffed yet, was not sent; what has left these was sent at most once.

- `ReadInOrderHolds`. Its inductive form adds `RestIsLast`: the buffers a worker
  still has are the last ones of its list. So what comes after a packet that is
  queued or given away is in the worker's own hands, and by `Fates` in no other
  place (`LaterStillHeld`). Only `Insert` makes the queue longer
  (`OnlyInsertAdds`), at its end, and a packet is given to a reader only from the
  head or when the queue is empty (`GivesInTurn`).
- `HandleImplemented`: `Spec => ImplementsHandle`. Steps are classified twice:
  by what they do to the packets (`FateStep`, from above) and by what they do to
  the rest of Handle's state. A `Quiet` step blocks no list and leaves the reads
  and the life of the handle alone, so where its buffers move tells whether it is
  a `Return`, a `Lose` or no step of Handle; a `Loud` one blocks a list, submits
  or completes requests, closes or frees, and each is matched with its
  counterpart. That the handle has nothing left when it is CLOSED
  (`EndClose`) is `Drained` and `Quiesced` for all the places a packet can be in.
  In SNIFF mode a worker still holds the whole list when it sniffs
  (`SniffFirst`), and nothing of it has been sent (`SniffSent`), or `Return` would
  put it back twice.
- `HandleKeepsItsPromises`: the consequences an application relies on
  (`Exclusive`: nothing given is also on the network, unless sniffed; `Emptied`:
  a closed handle has no packet and no read), proved of Handle and so of the
  driver.

### The filter

For any length limit, program and packet (`FilterAssumption`: numbers
consist of four words and a packet has the fields of `IsPacket`), `FilterVMProofs` shows with
the invariant `FilterInv` (each instruction compiled so far was checked, the
evaluation runs whole programs only, and the step counter and the position in
the program add up to at least the counter's initial value), which holds unless the
program was rewritten (`InvUnlessRewritten`):

- `FilterTypeOK`: the types, for rewritten programs too.
- `EvaluationIsSafe`.
- `AnalysisTestsSound`: take any function that satisfies the recursion equations
  of `windivert_filter_test` for the value the packet has in one of the five
  fields the analysis asks about. If the program accepts the packet, the function
  is true at the first instruction.
- `AnalysisSoundHolds`: `FilterTest` is the answer of such a function. That one
  exists needs no induction over the program: the set of instructions from which
  ACCEPT can be reached is the intersection of all sets that are closed under the
  continuations, and its characteristic function solves the equations.
- `EvalAgreesHolds`: in the same way the DLL's evaluator is a solution of its
  own recursion equations, and at each step of the driver's evaluation its value
  at the current instruction is the one at the first. Test by test the two agree,
  because `windivert_finalize_packet` changes neither the headers that are there
  nor the outcome of a test of a field outside `Differing`.

### The filter compiler

For any strings of lexemes and any limits that relate as those of the code
(`CompilerAssumption`: the pool has a place less than there are tokens, and the
depth is at least five halves of the tokens), `FilterCompilerProofs` shows:

- `DriverTakesHolds`: a string that is not refused has a program, of a length the
  compiler's stack has room for, and every instruction passes the checks of
  `windivert_filter_compile` (but for `ip.TOS`). For the parser: a call that
  starts in a state that is `Sound` (the pool has fewer places than tokens were
  taken, arguments are at earlier places) ends in one, never goes back
  (`Grows`), and if it returns no expression it has set an error (`Tells`). For
  the flattening: `FlatSound`, every test on the stack is in the range of its
  field and jumps to tests below it. `EmitTest` turns these into jumps forward.
- `PoolSuffices`: `WinDivertAlloc` never fails, because each place is paid for by
  a token; the error NO_MEMORY only comes from the heap.
- `VerdictIsParsedHolds`: the driver's verdict is the value of the parsed
  expression. A run of a stack of tests (`IsRun`) says for each label whether
  the evaluation from there accepts. `Means`: whatever the run, at the label that
  the flattening of an expression returns it has the value of the success target
  if the expression is true of the packet, else that of the failure target. A run
  exists (`RunExists`), the emitted program has the same one upside down
  (`EmitRuns`), the driver compiles instructions to themselves, and its
  evaluation stays where the run has the value of the first instruction
  (`RunsFollow`).
- `PipelineEvalAgrees`: `EvalAgrees` where programs come from strings. FilterVM's
  proof is for programs with any arguments, so its steps are used again.
- `SettledTests`: the comparison that `WinDivertEvalTest` decides has that result
  for every value between the bounds it takes for the field.

The parser, its loop and the flattening are recursive functions on numbers. That
each exists is shown first, then what it computes; both by looking at the least
depth, number of rounds or place that would be an exception. That needs only that
a set of natural numbers has a least element, and no theorem of the library that
takes an operator.

### The requests of a handle

For any START_FILTERs, filters and failures (`CalloutsAssumption`),
`RequestsProofs` shows with `CalloutsInv`:

- `NoCalloutLeft`, `NoTransactionLeft`, `StartFailureUndone` (no callout, and none
  marked as installed; a filter may stay when the transaction that deletes it
  fails, until the handle is closed) and `StartInstallsAll`. The invariant says who may be at work (`Roles`: one
  START_FILTER gets the handle, the others return), how far the close is
  (`Closing`), that a registered callout is marked installed but for the one
  being installed (`Registered`), and which indices are installed while the
  START_FILTER or the close is at each of its points (`Installing`, `Finished`,
  `Swept`).

and for any SENDs (`RequestsAssumption`):

- `SystemImplementsCallouts`: `System => Spec` of Callouts; hence
  `CalloutsOfSystem`, the four properties above for the whole handle.
- `SendsAnswered`, `SendsFreed` and `SendsWellFormed`, from `SendInv`, which
  says for each control point who owns the request and the memory (the thread
  until a successful injection, the platform while the packet flies, nobody
  afterwards).

### Several handles

For any handles, packets, levels and serial numbers (`PrioritiesAssumption`),
`PrioritiesProofs` shows with the invariant `Inv`:

- `TypeCorrect`: among others, a priority is made of a level and a serial number
  and never spills over.
- `RouteImplemented`: Priorities implements Route. `Inv` says that levels and
  serial numbers are packed in the priorities (`RanksPacked`), that handles that
  took a packet have been started and so can no longer change their priority
  (`TakersSettled`), and that the tag of a packet is the priority of the last
  handle that took it, the greatest of those that did (`TagIsLast`). A handle
  that takes a packet has a greater priority than the tag, so it is new and its
  level is not smaller.
- `NoneSkippedHolds`, with `OnwardInv`: a started handle that a packet matches
  and that is still due has taken it, or the packet will come to it: its
  priority is greater than the tag, and it has not been asked in vain.

### Opening handles

For any processes (`ServiceAssumption`), `DriverServiceProofs` shows:

- `TypeCorrect` from `HandleInv`: a handle has what WinDivertOpen has set so far.
- `ServiceTemporaryHolds` and `UninstalledHolds` from `ServiceInv`: whoever has
  a handle to the service will delete it, and a marked service has somebody or
  the driver to wait for.
- `OpenedAsAskedHolds`, `ResourcesHold`, `PoolsOutliveFlightsHolds` and
  `LoadUndoneHolds` from `DriverInv`: what the driver has created at each stage
  of loading and unloading, that a handle that is not `early` has started its filter
  only when all of it was there, that a packet in the stack keeps the injection
  handle of its version and so the pools, which go after it, and that sub-layers are
  registered only with the driver or left over. Nothing is assumed of which calls
  fail.

### Only model-checked

- The liveness properties (`CloseTerminates` of both systems, `ListsReturned`,
  `ReadersServed`, `LoopsEnd`, `OpenReturns`): the prover does not reason about
  fairness.
- `TakesTheLanguage` and `VerdictIsValue`: their reference, the language, is a
  recursive operator on strings, of which this prover shows nothing. What lies
  between the parsed expression and the verdict is proved (`VerdictIsParsed`);
  what rests on TLC is that the parser builds the expression that the string
  has in the language.

## 6. Plan

1. The language as a relation between stretches of tokens and places of the pool,
   to prove what `TakesTheLanguage` checks.
2. Invariants that carry the liveness arguments, as far as they are safety: what
   each thread of DivertContext waits for, and that somebody provides it.

## 7. Not modelled

- Packet parsing, checksums and address parsing of the DLL: arithmetic on bytes
  without state, of which a faithful model would be a transcription.
- GET_PARAM, which changes nothing, and the range checks that WinDivertSetParam
  and WinDivertGetParam make before the driver makes its own.
- The lexing of characters into words and numbers, and error positions in
  characters.
- The event that the DLL keeps per thread, and overlapped receives.
- Elapsed time (each timeout may or may not have passed), the memory of copies
  in DivertContext (a packet is its identity and length), the number of
  recursive calls of `windivert_filter_test`, WFP's own scheduling.
- Tests, examples, build and installation files.
