# CLMPI in TLA+

CLMPI is a stack of PnMPI modules that gives every MPI message a Lamport clock.
A tool above it (ReMPI) reads the clocks of received messages to record and
replay the order of nondeterministic receives. This directory holds TLA+ models
of the stack, TLC configurations that check them, and TLAPS proofs.

    tlc -workers 2 -config MCRules.cfg MCClmpi      # any .cfg of section 3 with its module
    tlapm ClmpiProofs.tla                           # or any other ...Proofs module

## 1. The system

### Layers

Calls go down the stack and completions come up through it; the layers of one
process talk through PnMPI services and through storage that each layer
reserves behind the `MPI_Status`.

| layer | source | state | operations |
|---|---|---|---|
| clock layer | `src/src/clmpi.cpp`, `clmpi.h` | `pb_clocks->local_clock`, `sync_clock`, `registered_buff_clocks` and its length, `irecv_request_map`, `request_to_local_clock`, `local_sent_clock` | one wrapper per MPI send, receive and completion call; the services `register_recv_clocks`, `clock_control`, `sync_clock`, `collective_sync_clock`, `get_num_of_incomplete_sending_msg`, `CLMPI_set_pb_clock` |
| PBMPI | `pbmpi.cpp`, `pbmpi.h` | a value to send, registered receive buffer, the two request maps | the same wrappers for a value the tool chooses; an alternative to the clock layer |
| piggyback layer | `clmpi_piggyback.c` | one `pb_outbuffer`, a copy of it per request, its place in the status, a mutex | sends the piggyback with the payload (`PB_DATATYPE2`: one struct datatype) and takes it apart again |
| status layer | `clmpi_status.c` | size of the storage behind a status, who registered which part | gives the layers below statuses with room behind them, copies results back |
| request layer | `clmpi_request.cpp` | table of slots, freelist, `requestmap` | remembers the parameters of a request from its creation to its completion and copies them behind its status |
| MPI | external | messages, active requests | delivers each message once, hands request handles out again |

The parts are combined by the build (`Makefile.am`), which fixes the variant
(`PB_DATATYPE2`). `src/example/*.c` are clients: `clmpi_test.c` shows the
discipline a tool must follow (register a buffer of the right length before
each completion call).

### Interactions

* **Up the stack on completion.** PMPI fills a status; the request layer
  copies the parameters of the request behind it and gives the slot back; the
  piggyback layer finds the buffer in those parameters, copies the clock behind
  the status; the clock layer reads it there, writes it to the registered
  buffer, merges it and ticks.
* **Between ranks.** Messages carry the sender's clock of *before* its tick.
  The tick comes after the PMPI call, so a message can be answered before its
  sender has ticked.
* **With the tool above.** The tool registers a buffer for the clocks of the
  next completion call, switches the clock on and off, merges a clock of its own,
  makes CLMPI use a clock cell of its own, and synchronises all ranks.

### What is hard here

* ranks interleave inside wrappers: a clock is read, a message leaves, the clock
  ticks later; in a collective, ranks leave with the maximum while others are
  still inside;
* bookkeeping is keyed by `MPI_Request` values, which MPI hands out again;
* completion calls complete some requests of an array, in some order, with
  `MPI_REQUEST_NULL` entries, and each wrapper has its own loop over them;
* the registered buffer lives from a service call to a later MPI call, and each
  wrapper checks, fills and drops it in its own way;
* the freelist of the request table runs through the slots themselves and the
  table is reallocated under live requests;
* switching the clock off and on in between calls hits wrappers that look at
  the switch and others that assign the clock;
* the piggyback layer takes a mutex in two of its operations, across blocking
  calls of MPI, and none in the others, and all threads share one buffer for the
  outgoing clock;
* layers find each other's data behind a status by offsets that three modules
  compute at different moments of `MPI_Init`, and one of them from the wrong
  counter;
* a PMPI call may report an error for requests it has completed, and each layer
  reacts to the error in its own way.

PROJECT.json lists the hazards at their lines. There is no persistence and no
message loss below the clock layer (MPI is reliable), so crashes and
retransmission do not arise.

### What makes each part correct

* **Clock layer**: Lamport's condition for every clock shipped; every send and
  receive ticks; the README's three rules; the registered buffer says about each
  request of the array what happened to it; the request maps hold what they are
  looked up for; a disciplined tool is never aborted; wrappers return.
* **Request layer**: a slot is free once or belongs to one request; a completion
  reports its own request's parameters; nothing is lost when the table grows.
* **Piggyback layer**: a receiver extracts what the sender put in; each piggyback
  buffer lives as long as its request, belongs to it alone, and is given back;
  threads exclude each other where they must, never ship a stale clock, and get
  through.
* **Status layer**: what a layer reads for a status was written for that status;
  nobody writes behind the memory allocated; the application sees its own
  statuses and nothing of what lies behind them.
* **PBMPI**: each received value reaches the tool, at the position of its status;
  the tool's memory is its own again when the call has returned; a call exits only
  when a send is tested without a buffer.

## 2. Modules

| module | models | kind |
|---|---|---|
| `LamportClock` | the clock rules of `src/README.md` and the interface of `clmpi.h` | abstract specification |
| `Clmpi` | `clmpi.cpp` on every rank, with messages in flight | detailed specification; implements `LamportClock` |
| `MCClmpi` | instances of `Clmpi` | for TLC |
| `ClmpiProofs` | theorems about `Clmpi`: types, Lamport's condition | for TLAPS |
| `HandleProofs` | theorems about `Clmpi`: request maps, registered buffer, aborts; extends `ClmpiProofs` | for TLAPS |
| `RulesProofs` | theorems about `Clmpi`: ticks, refinement of `LamportClock`; extends `HandleProofs` | for TLAPS |
| `RequestMap` | what the request layer promises: a map from requests to parameters | abstract specification |
| `RequestTable` | `clmpi_request.cpp` on one rank | detailed specification; implements `RequestMap` |
| `MCRequestTable` | instances of `RequestTable` | for TLC |
| `RequestTableProofs` | theorems about `RequestTable`, with the refinement of `RequestMap` | for TLAPS |
| `PiggybackChannel` | what the piggyback layer promises: a channel that keeps each message with its value | abstract specification |
| `Piggyback` | `clmpi_piggyback.c` (`PB_DATATYPE2`) over the request table | composes `RequestTable` with the memory of the piggybacks; implements `PiggybackChannel` |
| `MCPiggyback` | instances of `Piggyback` | for TLC |
| `PiggybackProofs` | theorems about `Piggyback`, with the refinement of `PiggybackChannel`; extends `RequestTableProofs` | for TLAPS |
| `StatusStorage` | `clmpi_status.c` and what the layers below it do to the storage behind a status | detailed specification, byte by byte |
| `MCStatus` | the sizes of MPICH on x86-64 | for TLC |
| `StatusProofs` | theorems about `StatusStorage` | for TLAPS |
| `Threads` | several threads per process in `clmpi_piggyback.c` | detailed specification |
| `MCThreads` | programs for three threads on two processes | for TLC |
| `ThreadsProofs` | theorems about `Threads` | for TLAPS |
| `Pbmpi` | `pbmpi.cpp` over MPI | detailed specification |
| `MCPbmpi` | a rank that sends to itself | for TLC |
| `PbmpiProofs` | theorems about `Pbmpi` | for TLAPS |

Operators whose comment starts with *Mutant* are wrong versions of the
definition that follows them; each property is known to fail when the wrong
version takes its place. No action uses them.

### Clmpi

Variables are the statics of `clmpi.cpp`, under their names, one copy per rank.
`irecv_request_map` and `request_to_local_clock` keep only their keys: the code
never uses the values (`local_sent_clock` is left out with them: its one reader
is a function that asserts). A buffer that is not registered has length
`NoBuffer`; `buff` is the memory behind it, whose old contents survive.

A rank is inside one wrapper at a time (`pc`). The code between two points where
other ranks can notice the difference is one action:

| code | actions |
|---|---|
| `MPI_Send`, `Bsend`, `Ssend`, `Rsend` | `MPI_Send` (PBSET, PMPI), `SendReturns` (tick) |
| `MPI_Isend` and its variants | `MPI_Isend`: nothing another rank sees lies between the send and the tick |
| `MPI_Irecv` | `MPI_Irecv` |
| `MPI_Recv`, `MPI_Sendrecv` | `MPI_Recv`; `MPI_Sendrecv`, `SendrecvReceives`; then the loop |
| `MPI_Wait*`, `MPI_Test*` | one action each, up to the return of PMPI (`Complete`: initialise the registered buffer, complete some requests), then the loop |
| the loops over statuses | `SyncRecv`, `SyncSend`, `LoopExits` per status, `Returns` |
| `collective_sync_clock` | `CollectiveSync` (enter), `Allreduce`, `CollectiveReturns` |
| services | `RegisterRecvClocks`, `ClockControl`, `SyncClock`, `SetPbClock` |
| `exit(1)` | `pc = "Exited"`: `Unregistered`, `LoopExits` |

MPI below: `net` is a set of messages, each delivered once; any message for a
rank may match any of its receives (tags, sources and communicators are
abstracted, which adds behaviours). A completion call may complete any requests
of its array in any order. A receive request takes its message when it is
reported complete. The piggyback and request layers are taken at their word.

History variables (`past`, `coll_past`, `nticks`, `expect`) record the stamps in
a rank's causal past, how many events happened with the clock on, and what the
registered buffer should say. No guard reads them.

Modelling decisions worth knowing: `SetPbClock` gives CLMPI a cell with a
later value than the clock's (a tool that turned the clock back would break
Lamport's condition by itself); merging with the clock off changes
nothing, as in the code, and is not remembered in `past`, since the rules apply
to a clock that is on. `CLMPI` aborts where the code does; dereferencing a
missing buffer (a crash just before an `exit(1)`) is the same abort.

### RequestTable

`reqs`, `next_free`, `freelist`, `size` and `requestmap` are the code's. Since
`requestmap` is read with `operator[]`, looking up an unknown request enters it
with slot 0 (`Touched`). `state` is the request in MPI, which decides the legal
calls. A wrapper's loop over completed requests takes one request per step
(`LoopStep`). Memory of a slot never used is `Uninitialised`; no property of a
passing run depends on its contents. A completion call may return an error
(`failed`): `FREE_REQUEST` then does nothing (`Keep`), so the slots of the
requests it completed are lost for ever; the history variable `lost` has them.

### Piggyback

The module extends `RequestTable`: every action that creates, completes or frees
a request takes the step of the request layer with it. One rank sends to itself,
which lets sends and receives meet in one table.

`heap` holds what is at each address `malloc` may hand out and at `pb_outbuffer`;
`data` is `reqtable.data`, the pointer kept with each slot; `statuses` are the
statuses of the wrapper that is running, as the request layer filled them in.
MPI is `posted` (operations with the address of their clock; `Transmit` and
`Deliver` read and write behind that address at any time before completion) and
`net`. `abandoned` is history: the memory of requests given up by
`MPI_Request_free`. No guard reads it.

The refinement of `PiggybackChannel` says where a message in flight is: on the
wire, in the memory of the sender's or the receiver's request, or in the status
until `ASYNC_COMPLETE` has passed. Any write to one of these places that
belongs to another message would be a step the channel does not have.

| code | actions |
|---|---|
| `MPI_Isend` and its variants (`DT_REQALLOC`, `PBCOPYDEF`, PMPI, `PBPTR_STORAGE`) | `PB_MPI_Isend`, with the `PBSET` of the clock layer before it |
| `MPI_Irecv` | `PB_MPI_Irecv` |
| `MPI_Send` and its variants, `MPI_Recv`, `MPI_Sendrecv`, `MPI_Sendrecv_replace` | `PB_MPI_Send`, `PB_MPI_Recv`, `PB_MPI_Sendrecv` |
| `MPI_Wait*`, `MPI_Test*` | `PB_Completes` (PMPI), `PB_LoopStep` per request (request layer), `AsyncComplete` per status (`ASYNC_COMPLETE`) |
| `MPI_Request_free`, unsuccessful `MPI_Test` | `PB_MPI_Request_free`, `PB_MPI_TestFails` |

The payload, which MPI moves from and to the application's memory, is left out,
and so is the mutex: one thread calls (see `Threads`). `malloc` hands out any free
address; a call that would find none is not taken. A completion call that fails
has given up its requests, moved or not; `ASYNC_COMPLETE` runs all the same.

### StatusStorage

`mem` is the block that `ALLOCATE_STATUS` takes from the stack; a byte holds the
name of what was last written there (`params`, `type`, `inreq`, `pointer`, `clock`,
`envelope`, the tag) and the position of the status it was written for. One call
goes through all layers, one action per loop round:

| code | actions |
|---|---|
| `MPI_Init` of the piggyback and request layers | `PiggybackReserves`, `RequestReserves`, `PiggybackReservesClock` |
| wrappers of `clmpi_status.c` | `Call` (allocate and tag), `CopyStatus` on the way back |
| request layer | `CopyFirst` (`MPI_Wait`, `MPI_Test`: before MPI), `CopyAfter` (the others) |
| MPI | `PMPI_Complete`, `PMPI_Receive`, `PMPI_Probe`; it writes `MPI_ERROR` only if it has to tell which request of an array failed |
| piggyback and clock layer | `AsyncComplete`, `SyncClock` |

With MPICH's sizes the layout of a row is: 1 byte unused (the counter starts at
1), 64 bytes of parameters, 8 bytes of pointer; the clock is put at offset 8, so it
covers bytes 7 to 14 of the parameters: the unused upper bytes, the end of `buf`,
never `type` (0 to 3) or `inreq` (48 to 51). That is why `ReadsIntact` holds although
the piggyback layer registers with the request layer's service.

### Threads

`prog` is what each thread calls; `pc` is where it is: before `PBSET`, between
`PBSET` and the operation, inside, blocked in MPI, or about to leave. The contents
of `pb_outbuffer` is the number of the `PBSET` that wrote it, so that a clock can be
traced to the send it was set for.

| code | actions |
|---|---|
| `PBSET`, `PNMPIMOD_Piggyback` | `PBSET` (no lock) |
| entry of an operation, `pthread_mutex_lock` in `MPI_Send` and `MPI_Recv` | `Enter` |
| `PMPI_Send` and its variants | `PMPI_Send` (returns at once or waits for its receiver), `PMPI_SendReturns` |
| `PMPI_Recv`, `MPI_Irecv` with its `MPI_Wait` | `PMPI_Recv` |
| `pthread_mutex_unlock` and return | `Leave` |

`MPI_Send` hands MPI the address of `pb_outbuffer`: a message that waits for its
receiver reads it when it is transferred (`Unread`, `ClockOf`). `MPI_Isend` copies it
first.

### Pbmpi

As `Clmpi`, without the clock: a value per message, the registered buffer, the two
maps. Completion wrappers take one action up to the return of PMPI (`Complete`),
one per status (`SyncRecv`, `SyncSend`, `LoopExits`) and `Returns`. A call may fail
after it has completed requests. `expect` is history: what the memory of the buffer
should hold. The tool's only discipline is the one the code needs to be defined:
a buffer, if it registers one, long enough for the marks of sends in the Test
wrappers (`BufferSuffices`).

## 3. Runs

| run | question | instance |
|---|---|---|
| `rules` | clock condition, ticks and refinement of `LamportClock` for blocking calls, collectives and the tool's interface | 3 ranks in a relay r1-r2-r3 plus r1-r3, one message per sender, 1 client clock value larger than any early clock |
| `requests` | types, slots of the buffer, absence of aborts, refinement, with arrays of up to two requests | 2 ranks sending to each other, 2 handles, `Wait`, `Test`, `Waitall`, `Testall` |
| `handles` | request maps when handles are reused | 1 sender, 1 receiver, 2 handles, 2 messages, arrays with null gaps; `Testany` (which treats the maps as `Waitany` and `Waitsome` do) and `Testsome` |
| `progress` | wrappers return, collectives end; clock condition with aborts | 2 ranks, undisciplined tool, `Irecv`, `Test`, `Waitany`, `Waitsome`, `Recv`, `Sendrecv`, collectives |
| `request_table` | slots, freelist, refinement of `RequestMap` | 2 handles, segments of 2 slots, up to 2 slots lost to failed calls, so the table grows to 4 with live requests in it; started persistent requests are cancelled too |
| `piggyback` | memory of piggybacks exclusive, alive and given back; refinement of `PiggybackChannel` | 2 handles, segments of 1 slot, so the table grows under a live request; 3 addresses, 2 messages, 2 clocks, up to 1 request in failed calls |
| `pbmpi` | values reach the tool; the buffer is released; exits only for want of a buffer; incomplete sends counted | 1 rank that sends to itself, 3 handles, arrays of up to 3 with null gaps, 2 messages, failing calls, all eight completion calls |
| `status` | each layer reads what was written for it; memory bound; statuses of the application | arrays of up to 3 statuses, 20-byte statuses, 8-byte clock, null requests, failing array calls |
| `threads` | mutual exclusion, clocks never stale and exact for a lone sender, progress | 5 programs for 2 threads on one process and 1 on another |
| `sendrecv_tick` | violated: `MPI_Sendrecv` ticks once for two events | 2 ranks |
| `null_request` | violated: completing `MPI_REQUEST_NULL` frees the memory of the request in slot 0 | as `piggyback`, 1 message |
| `threads_block` | violated: `MPI_Recv` holds the mutex and keeps its sibling from sending what would lead to the answer | 1 program, 3 threads |

| run | module and configuration |
|---|---|
| `rules`, `requests`, `handles`, `progress`, `sendrecv_tick` | `MCClmpi` with `MCRules`, `MCRequests`, `MCHandles`, `MCProgress`, `MCSendrecvTick` |
| `request_table` | `MCRequestTable` with `MCTable` |
| `piggyback`, `null_request` | `MCPiggyback` with `MCPiggyback`, `MCNullRequest` |
| `pbmpi`, `status` | `MCPbmpi`, `MCStatus` |
| `threads`, `threads_block` | `MCThreads` with `MCThreads`, `MCThreadsBlock` |

**Bounds.** `MaxSend` bounds the messages of a rank, `MaxCount` the arrays,
`MaxClock` stops collectives and client merges (which could raise clocks for
ever) from that value on; `Segment` is the table segment (1024 slots in the code);
`MaxLost` bounds the slots lost to failing calls, `MaxMessage` the messages of
`Piggyback`. Three ranks are what it takes for a message to overtake a causal chain
through a third rank; two requests in an array are what it takes for a position in
the statuses to differ from the index of its request; two handles and two messages
let a handle be reused while its old entry is still in a map; two handles, two
lost slots and segments of two make the table grow and let slots return in any
order. In `piggyback`, two clocks tell the clock of one message from another's, and
the third address is the one an abandoned request keeps; a slot and an address are
used again as receives, blocking calls and failed calls come between. In `pbmpi`
three requests let two receives complete around a send, so that position, index
and order differ. In `status` the third status is the first that is neither first
nor last. In `threads` two siblings meet in every pair of a locked, an unlocked,
a blocking and a nonblocking operation.

**Alphabets.** A passing run leaves out the calls of a known defect, which would
hide everything behind it:

* `rules` has no `MPI_Sendrecv` (no tick; run `sendrecv_tick`);
* `requests` has no any and some calls: `MPI_Waitany` and `MPI_Testany` pass count
  1 to `cmpi_sync_clock_at` whatever their count is, so a buffer of the array's
  length aborts (`clmpi.cpp:676`), and `MPI_Waitsome` and `MPI_Testsome` write a
  clock to the slot of the status, not of the request (`clmpi.cpp:693`, `816`);
  adding them to `Ops` violates `NoAbort` and `SlotsMatchRequests`;
* `requests` and `handles` register a buffer before each completion call
  (`Careful`): the Wait wrappers of `clmpi.cpp` keep a used buffer registered, and
  the next `MPI_Recv` aborts on its length;
* `request_table` cancels persistent requests only, which keep their slot: after
  `MPI_Cancel` of a nonblocking one its completion gives slot 0 back (`Cancels =
  {"active"}` violates `SlotsExclusive`);
* `piggyback` passes neither cancelled, persistent nor null requests (run
  `null_request`);
* `threads` runs no program in which a thread waits, with the mutex, for what a
  sibling has yet to do under it (run `threads_block`).

**Symmetry.** Handles are interchangeable, and in `requests` so are the two
ranks; addresses of `malloc` are interchangeable in `piggyback`.
`progress` and `threads`, the runs with liveness properties, use no symmetry.

**Deadlock.** The instances of `Clmpi` stop when the messages are used up or a
receive has no sender, which real programs may do too, so they do not check
deadlock; neither do `piggyback` and `pbmpi`, which stop when messages and memory are
used up, nor `threads`, whose programs end (`ThreadsFinish` says that they all do).
The request table and the status storage never deadlock and are checked for it.

**Fairness.** `FairSpec` assumes of a rank inside a wrapper only that it goes on
once PMPI has returned (`Continues` is local code), and that `PMPI_Allreduce`
completes when all ranks are in it (the MPI standard promises that). No receive
is assumed to find a message, no completion call to succeed, and the
application is not assumed to call anything. In `Threads`, each thread that can
take a step takes one in the end: the system schedules threads, a mutex that is
free again and again is not promised to anyone in particular (weak fairness only),
and MPI completes what is matched.

## 4. Proofs

Every invariant and every refinement that a passing run checks is also a theorem,
for sets of any size and any bounds. The
assumptions on the constants are the named ASSUMEs of the modules (bounds are
naturals, `NULL` is no handle, `Nobody` neither, `NoMessage` no message, client clocks
are naturals, a status has room for its last field, the piggyback is not empty,
`Free` is no thread); TLC evaluates them in every run. Where a theorem has a
hypothesis of its own, it excludes calls for which the code is known to break the
property; the run or the lines that show it are named below.

| theorem | property | hypothesis |
|---|---|---|
| `TypeCorrect`, `ClockConditionHolds` | `TypeOK`, `ClockCondition` | |
| `IrecvMapCorrect`, `SendsCounted` | `IrecvMapExact`, `SendsNeverMissed` | |
| `NeverAborted` | `NoAbort` | `Careful`, `Ops \cap CountOneOps = {}` |
| `SlotsCorrect` | `SlotsMatchRequests` | `Ops \cap PartialOps = {}` |
| `EventsTick`, `RulesImplemented` | `EveryEventTicks`, `ImplementsRules` | `"Sendrecv" \notin Ops` |
| `TableTypeCorrect`, `SlotsNeverShared`, `ReportsTheRequestAlways`, `TableImplementsMap` | `TypeOK`, `SlotsExclusive`, `ReportsTheRequest`, `ImplementsMap` | `Cancels \subseteq {"started"}` |
| `PiggybackTypeCorrect`, `BuffersNeverShared`, `BuffersGivenBack`, `PiggybackImplementsChannel` | `PBTypeOK`, `BuffersExclusive`, `BuffersAccounted`, `ImplementsChannel` | `~ PassesNull` |
| `StatusTypeCorrect`, `StorageSuffices`, `ApplicationGetsStatuses` | `TypeOK`, `WithinStorage`, `UserSeesStatuses` | `PbSize <= ParamsSize + 1` |
| `LayersReadTheirStatus` | `ReadsIntact` | `PointerSize + PbSize <= 1 + InreqField.at` |
| `ThreadsTypeCorrect`, `Exclusion`, `NeverStale`, `ExactForOneSender` | `TypeOK`, `LockExclusive`, `NotStale`, `ExactWhenAlone` | |
| `PbmpiTypeCorrect`, `ExitsForWantOfBuffer`, `PbmpiSendsCounted`, `ValuesCorrect`, `MemoryReleased` | `TypeOK`, `AbortsForWantOfBuffer`, `SendsNeverMissed`, `ValuesReported`, `BufferReleased` | |

### Clock layer

`ClmpiProofs`. `TypeOK` is inductive by itself; one lemma per helper that assigns
several variables, one for the shared body of the eight completion wrappers
(`CompleteType`). `ClockCondition` is not: it says nothing about a rank that has left
`PMPI_Allreduce` and has not yet assigned the maximum. `ClockInv` adds that such a
rank's clock is at most the maximum and that the maximum is above every stamp the
reduction gathered; the first part is stable because no wrapper can run on that rank
meanwhile. `MergedAbove` is the arithmetic of `clmpi_update_clock`.

`HandleProofs`. The maps are sound only because of what the running wrapper still has
to do: `HandleInv` adds `TodoInv` (the statuses the loop has yet to reach are of
different requests, which MPI has already forgotten) and `SendsKnown` (a completed
send among them has not been dropped from `request_to_local_clock`). A handle that MPI
gives out again can therefore not be one of the loop's. `NeverAborted` adds
`CarefulInv` (the registered length is the count of the running call). Its hypotheses:
the tool registers a buffer before each completion call, and none of the wrappers
that compare its length with 1 whatever their count is (`CountOneOps`; `clmpi.cpp:676`)
is called. `SlotsCorrect` adds `SlotInv`: the position of a status still to be
visited has the value that the status will bring, the others have theirs
already. Without `PartialOps`, whose statuses are not at the positions of their requests
(`clmpi.cpp:693`, `816`).

`RulesProofs`. `EventsTick` needs `ClockInv` and that no rank is in `MPI_Sendrecv`, which
ticks once for two events (run `sendrecv_tick`). `RulesImplemented` maps each action to
one of the README's rules or a stutter; it adds `MessagesDistinct`, since a
message that equals another would vanish with it from the abstract channel.

### Request table

`TableInv` is the inductive invariant of all four theorems: `OwnInv` (a request in use has
a slot of its own, with its parameters, marked persistent when it is), `FreeInv`
(the freelist has the other slots, each once, and ends), `TodoInv` (a request the
wrapper still has to visit is one MPI has forgotten, once) and `NoneCancelled`.
The freelist runs through the slots themselves. What it contains is a fact about a
path of any length; `Linked` gives the path as a sequence, by existence, so that no
proof follows the links, and popping, pushing and growing the table are operations
on that sequence (`LinkedPop`, `LinkedPush`, `LinkedRange`). `SlotsExclusive` itself
follows the links, with the recursive function `FreeSlot`; that it meets the same
slots is shown by a least counterexample (`FollowsOnce`, `FreeSlotList`).

Cancelling a nonblocking request is excluded: `MPI_Cancel` gives its slot back and its
completion gives back slot 0 (section 3). Cancelling a started persistent request is
not excluded.

### Piggyback layer

The same invariant of the table underneath, and `PBInv` over it: `PlainInv` (no
persistent and no null requests), `OpsInv` (MPI works for each request in use on one
operation, at the address kept with that request; its other operations are those of
freed requests), `MemInv` (an address is kept with one request, or is in one status on
its way up, or belongs to freed requests, or is not allocated), `FlightInv` (a
message on its way is in one place: on the wire or at one address) and `NetInv` (MPI
never read freed memory). `BuffersExclusive` alone is not inductive, because it says
nothing of the moment when an address is in neither the table nor MPI but in a status.
TLC checked the parts on the instance of `piggyback` before they were proved.
`MPI_REQUEST_NULL` is excluded: the request layer reports the request and the memory
of slot 0 for it (run `null_request`). The model has no `MPI_Cancel` here, so the
table's hypothesis is not needed.

### Status storage

`StorageSuffices` needs a bound on the piggyback: its place is taken from the request
layer's counter (offset 8) and adds nothing to the status layer's, so a longer
piggyback would be written behind the last row; the room of the parameters is what
saves it. The inductive invariant adds `Layout` (what has been reserved, by how far
the layers have started) and `Calling` (how `count`, `kinds` and the loop position
relate in each phase). `RowFits` is the nonlinear fact: an entry of a row ends
within the memory of all rows.

`ApplicationGetsStatuses` adds `UserInv`: the memory is what `ALLOCATE_STATUS` left until
a layer has looked at its tag, and from the return of MPI on each reported status has
its envelope. `EnvelopesFill`, `CopyRequestFills` and `WriteClockFills` say what each
write reaches, `RowsApart` that rows are disjoint from each other and from the
statuses. `LayersReadTheirStatus` adds `ReadInv`, the rows filled so far by each loop.
It needs a shorter piggyback than the memory bound does: one of more than 41 bytes
would run into `inreq`, which the clock layer reads after the clock was stored.

### Threads

The inductive invariant adds `LockOwner` (a thread between lock and unlock owns the
mutex of its process, so two cannot be there) and `Fresh` (from `PBSET` on, the buffer
of the process and the clock in each unreceived message are at least as new as the
`PBSET` of the send): `NotStale` speaks of received messages only, and a message may
read the buffer as late as it is transferred. `ExactForOneSender` adds `SetFirst` (who
sends has set) and `SoleSender`: where one thread sends, the buffer is its last
`PBSET`, and any message that has not read it yet is of the send that thread is in.

### PBMPI

As in `HandleProofs`, `HandleInv` relates the loop's remaining statuses to the maps, with
failing calls. `ValuesInv` says of each rank, by where it is, that the tool's memory
already has what the statuses visited brought, or is the place of a value that one of
the others will write, where no mark of a send lands; between calls it is as the last
call left it. The wrappers write values at the position of the status and some marks
at the index of the request: the indices increase, so no position is past its
index (`IncreasingAtLeast`), and a mark never meets a value written before it.

### Only model-checked

Liveness (`WrappersReturn`, `ThreadsFinish`): the prover does not handle fairness.
The three findings are counterexamples of TLC (runs that expect a violation).

## 5. Not modelled

* persistent sends (`MPI_*_init`) in the clock layer, the piggyback layer and PBMPI:
  they carry no piggyback, and a receiver takes payload for one, which the models
  do not carry;
* `MPI_Sendrecv_replace` in the clock layer and PBMPI, whose arguments to PMPI are in
  a wrong order: envelopes are abstracted;
* failing PMPI calls in `Clmpi`; failing calls that create requests or datatypes
  (`return err` with the mutex locked), exhausted memory;
* a failed `MPI_Waitall` that leaves requests pending: `ASYNC_COMPLETE` frees their
  memory while MPI works on them;
* `MPI_Waitany` and `MPI_Testany` on arrays of null requests, which index an array
  with `MPI_UNDEFINED`;
* `MPI_Get_count`, `MPI_Get_elements` (arithmetic on one status);
* the local clock of PBMPI, which it counts and never ships;
* collectives other than the clock synchronisation: the wrappers only forward
  (`MPI_Scan` exits);
* overflow of the clocks (`size_t`, 64 bits), which needs 2^64 events;
* unsynchronised ticks of the clock by two threads;
* the variants of the piggyback layer that are not built; build files and examples.

## 6. Plan

In this order:

1. `Stack`: `Clmpi` over `Piggyback` and `StatusStorage` on two ranks, checking that
   the clock layer's assumption (the status holds the request and its clock) holds
   when the layers run together.
2. Failing PMPI calls in `Clmpi`, and datatype calls that fail in `Threads`.
3. `Counts`: `MPI_Get_count`, `MPI_Get_elements` with fixed-width arithmetic against
   the standard's definition.

Theorems to prove next: weaker hypotheses where the calls excluded above are
harmless, in particular `NeverAborted` and `SlotsCorrect` for `MPI_Waitany` and
`MPI_Waitsome` with arrays of one request; the action properties of the detailed modules
that no refinement states yet, once TLC agrees with them; and, with each module of the
list above, the theorems of its invariants.
