# TLA+ models of jsrt

jsrt is a JavaScript runtime in C: QuickJS runs the script, libuv the event
loop, and the code of `src/` ties the two together and supplies the Web and
Node.js APIs.  The modules here model the parts of that C code whose
correctness depends on the order in which things happen, check them with TLC
on small instances, and prove some of the results with TLAPS for all values of
the constants.  Paths are relative to the root of the repository; the map from
each definition to the lines it models is in `PROJECT.json`.

The runtime has one thread that runs script, so what makes it hard is not data
races.  It is that C functions call script in their middle (a listener, a
write callback, a load hook), that the script may call the same functions
again before they are done, and that the collector and libuv decide when
finalizers, callbacks and close callbacks run.  Nearly every hazard listed in
`PROJECT.json` is of this kind: state read before a call into script and used
after it, or two owners of one handle.

    cd tla
    tlc -workers 2 -config MCRunLoop.cfg RunLoop.tla    # a run
    tlapm TimerHandles_proofs.tla                       # a proof

## 1. The system

| component | state it keeps | operations | who calls it | modelled |
|---|---|---|---|---|
| timers, `std/timer.c` | a `JSRT_Timer` with its `uv_timer_t`, the Timer object's opaque pointer | set, clear, callback with its drain of jobs, finalizer, close callback | script, loop, collector | `TimerHandles` |
| immediates, `node/node_timers.c` | `NodeImmediate` with its `uv_check_t`, table of ids | set, clear, check callback | script, loop | `Immediates` |
| run loop, `runtime.c`, `jsrt.c` | job queue, list of unhandled exceptions, libuv's loop | eval, await, run, ticket, report | the command | `RunLoop` |
| event emitter, `node/events/` | `_events`: one JS array of listeners for each event | on, once, prepend*, remove*, emit | script, most node modules | `EventEmitter` |
| readable streams, `node/stream/readable.c` | buffer, flags, array of destinations | push, read, pause, resume, pipe, unpipe | script, other streams | `ReadableStream` |
| writable streams, `node/stream/writable.c` | length, flags, cork count, queued callbacks | write, cork, uncork, end, destroy | script, pipes | `WritableStream` |
| CommonJS loader, `module/` | loading stack, module cache | require, reloadModule | script, load hooks | `CommonJS` |
| HTTP module cache, `http/` | hash buckets and LRU list through one set of nodes | get, put, remove, evict | HTTP loader | `HttpCache` |
| duplex, transform, pipeline | two stream states and a flag each | transform, flush, pipeline | script | planned |
| abort signals, `std/abort.c`, `std/event.c` | aborted, reason, dependents, event_fired; a list of listener nodes | abort, any, timeout, dispatchEvent, add and remove listeners | script, timers, fetch | `AbortSignals` |
| sockets and servers, `node/net/` | flags of the connection, pending writes, callbacks of the server, libuv's handles and requests | connect, write, end, pause, resume, destroy, listen, close and libuv's callbacks | script, loop | `NetSockets` |
| child processes and IPC, `node/child_process/`, `node/process/process_ipc.c` | process handle, pipes, timer, read buffer and write queue of the channel | spawn, exec, fork, kill, send, disconnect; exit, data, timeout, message | script, loop, SIGCHLD | `ChildProcess` |
| files, `node/fs/` | a work structure for each call under way, FileHandles | readFile, writeFile, appendFile, copyFile, truncate, open; read, write, close of a handle | script, thread pool, collector | `FileRequests` (in part) |
| compile cache, `node/module/compile_cache.c` | files of bytecode | lookup, store, clear | module loader | planned |
| WHATWG streams and fetch, dgram, zlib pool | requests and queues | | script, loop | later |
| ES module loader, resolution, format detection | none of its own | | module loader | not modelled: QuickJS links the modules; the rest are functions of paths |
| crypto, URL, buffer, path, WebAssembly, ... | none, or a library's | | script | not modelled: glue to libraries, conversions, pure functions |

How they interact: `RunLoop` is the frame in which everything runs.  It calls
timers (and drains the job queue at the end of each timer callback, but at the
end of no other callback), immediates and I/O callbacks; these run script; the
script registers more of each.  Streams and servers emit events through
their own `stream_emit` or through the emitter, synchronously.  The CommonJS
loader runs module code inside `require`, and node:module's hooks run script
before a module's content is there.  A request on a file is done by another
thread, but its callback runs in the loop like all others; child processes and
the network are the only actors that are not the one thread or libuv's pool.

What makes each part correct is stated in section 3, part by part.

## 2. Modules

| module | what it is | refines | proofs |
|---|---|---|---|
| `TimerService` | abstract: a timer is unset, waiting, running, ending or over | | |
| `TimerHandles` | the C structures of timers | `TimerService` | `TimerHandles_proofs` |
| `Immediates` | the C structures of immediates, libuv's check lists | `TimerService` | `TimerHandles_proofs` |
| `RunLoop` | eval, await, uv_run, tickets and reports, over two instances of `TimerService` | | `TimerHandles_proofs` |
| `EmitterService` | abstract: emit calls the listeners present at its beginning, once each, in order | | |
| `EventEmitter` (`MCEventEmitter`) | listener arrays, in-place and copying changes, nested emissions | `EmitterService` | `WritableStream_proofs` |
| `Sublists` | the entries of a list that are in a set, in its order; written without recursion, so that `EmitterService`, `EventEmitter` and `ChildProcess` can be proved about | | |
| `ReadableStream` | push, read, pause, resume, pipe, unpipe and the calls into script inside them | | `ReadableStream_proofs` |
| `WritableStream` | write, cork, uncork, end, destroy likewise | | `WritableStream_proofs` |
| `CommonJS` (`MCCommonJS`) | loading stack, module cache, reload | | `CommonJS_proofs` |
| `LruService` | abstract: an LRU cache with expiry | | |
| `HttpCache` (`MCHttpCache`) | nodes, buckets, LRU list, clock | `LruService` | `CommonJS_proofs` |
| `AbortSignals` (`MCAbortSignals`) | the graph of signals, abort's four steps, the walk of listener lists | | `AbortSignals_proofs` |
| `ChildProcess` (`MCChildProcess`) | children, their pipes, and both ends of the channel of fork() | | `ChildProcess_proofs` |
| `NetSockets` (`MCNetSockets`) | a socket, a server, the connection between them, both ends | | `NetSockets_proofs` |
| `FileRequests` (`MCFileRequests`) | calls on files, FileHandles, the thread pool, descriptors and files | | `FileRequests_proofs` |

Composition: `RunLoop` uses `TimerService` where the program uses timers and
immediates; `TimerHandles` and `Immediates` show that the C code is a
`TimerService`.  So the loop is checked with the small abstract machines and
the structures are checked alone.

Conventions.  A step of a model is the C code between two points at which
script, libuv or the collector may do something else; a C function that calls
script is therefore several actions, and a `stack` (or `callback`, `frames`)
holds what it still knows of the state it read before.  History variables are
marked `(history)`; no guard reads them, except where a behaviour ends because the
program has become undefined.  An operator whose comment begins with "Mutant of"
is a plausible wrong version of the definition that follows it: putting it in
the place of that definition makes the property named in `PROJECT.json` fail,
which shows that the property depends on that piece of code.

Where the code reaches undefined behaviour the model stops: after a second
`uv_close` of an immediate (stage "undefined"), a second free of a write
callback (`Defined`), a reference of a pipe given back twice (`refs >= 0`), a
freed node read by the HTTP cache (`fault`), a freed listener node, a closing
handle given to libuv or the freed channel looked into (`broken`), and a signal
to the program's own process group (`dead`).  Properties of these modules are
about the behaviours up to that point.

### TimerHandles

`mem`, `handle`, `opaque`, `object` are the structure, its `uv_timer_t`, the
pointer in the Timer object, and the object as the script sees it; `callback`
and `stage` are the C stack.  `SetTimer`, `ClearTimer`, `Finalize`, `Fire` ..
`CallbackEnds`, `CloseCallback` are jsrt_start_timer, jsrt_stop_timer, the
finalizer, the callback in the pieces between which script runs, and the
close callback.  Three places close the handle; each must find out whether
another one did.

### Immediates

The table of ids and libuv's list of check handles, with the second list that
`uv__run_check` walks.  `StopAndClose` is what both the callback and
clearImmediate do.  libuv is external: `Poll` enters the kernel, `PollReturns`
comes back, if ever, and the check phase follows (`BeginCheck` .. `EndCheck`, which
also ends the closing of handles); `Leave` is the end of JSRT_RuntimeRun.

### RunLoop

`pc` walks from JSRT_RuntimeEval's loop of at most ten jobs through
JSRT_RuntimeAwaitEvalResult to JSRT_RuntimeRun: uv_run (timers, poll, check,
closing), one ticket, the report of exceptions, and back or out.  In mode
NOWAIT, which is chosen when a job is pending, uv_run makes one turn; in mode
DEFAULT it returns only when nothing is alive.  The poll blocks unless an
event, a due timer or a closing handle lets it return.

### EventEmitter

Arrays have identities, because on() appends in place to the array an emission
may be walking, while removal and prepending install a new one.  `OnceRemoved`
and the refinement are what a walk over a shared array may break.

### ReadableStream, WritableStream

Both keep the stack of C functions that are waiting for script to return, each
frame with the locals the function goes on with (`chunk`, index `i`,
destination).  A chunk is its number; the content is not looked at by the code.

### CommonJS

A frame per load under way; `loading` is the C array that is meant to mirror
the frames.  Values are named by the run of the module that made them, so that
"the same exports" means something.

### HttpCache

The nodes with their one `next` field are modelled pointer by pointer, since
that field is what the two structures share.  `Unchain`, `MoveToFront`,
`EvictLru` and `Insert` follow the assignments of the code.  `BucketOf` is the
hash; two urls collide in the runs.

### AbortSignals

`Mark` is the part of DoAbort before any listener runs: the signal and all that
depend on it, directly or not, get the reason.  The rest of DoAbort is an agenda
of frames on `stack` (`fire`, `deps`, `nested`, `tree`), each with the index of
the loop it stands for; `Settled` drops the loops that are through.  A dispatch
is a frame `walk` with the node it is at, since dispatchEvent reads the next node
from the one whose listener has returned.  A listener of the script may make any
call (`ScriptStep`), and those that AbortSignal.any() adds abort the combined
signal (`CallInternal`).  Which signals are given to any() is a set: the order of the inputs is
that of the code's loop only as far as the dependents' arrays show it.

### ChildProcess

`os`, `heir`, `own`, `late` and `order` are the operating system's side: a child
runs, ends, is waited for; descendants keep its descriptors and write on.
`Reap` is libuv's handler of SIGCHLD, which waits for all children that have
ended (`batch`) before it calls the first exit callback; `OnProcessExit` .. the
frames `callback`, `exit`, `close`, with their `*Returns`, are on_process_exit.  The channel has an
end in each process; the child's is `process_ipc.c`.  `Enqueue`, `Flush` and
`Written` are the write queue of the parent.  What an end sends is a sequence
of units, and a unit is its place in it: the n-th message has four, two of the
header and two of the body, so that `OnIpcRead`, which takes any part of what is
on the wire, may cut headers and bodies.  `Process` is the loop over the read
buffer.  A body is heard only if it is exactly the body of one message, and that
message is JSON (`Parses`): the listeners run while it stays in the buffer
(`Deliver`), and `Continue` removes it.  A body that does not parse is removed
without a word (`Drop`).  `sent`, `tried` and `got` are histories: for each
message whether it is JSON, how many bodies process_ipc_message was given, and
what was heard.

### NetSockets

Both ends are in one program, as in the repository's tests; the network is
`wire`, `fin` and `reset` for each direction.  `sock` holds the flags of
JSNetConnection, `uv` what libuv knows: handle, requests under way, whether it
reads.  Events are frames named by the event and the C function that emits it,
which goes on in `Returns` (`ReadyReturns`, `EndReturns`, `CloseReturns`, ...).

### FileRequests

A call is a chain of requests; `at` names the callback it waits for, `work` is
its structure.  `ThreadStep` is one thread of libuv's pool making a system call:
one of the oldest `Threads` requests is the next to be done, and callbacks come
in the order in which requests were done.  `table` is the kernel's table of
descriptors, with the call that opened each, which the code does not know: it
has the number only.  `CloseNow` is uv_fs_close without a callback, made by the
loop's own thread.  fs.truncate is two steps, because threads run between
them.  The callbacks of fs and of fs.promises are actions of their own where
they differ and one action where they do the same.

## 3. What is checked

Each run is one configuration, and all of them pass; TLC explores every reachable
state.

| run | shows | bounds | states |
|---|---|---|---|
| `timers` | one uv_close, no use after free, everything freed in the end, `TimerService` implemented | 2 timers, 2 jobs | 7 020 |
| `immediates` | none forgotten unless a poll blocks for ever, `TimerService` implemented | 3 immediates | 1 906 |
| `loop` | JSRT_RuntimeRun returns true only when nothing is left; exceptions are reported and the program ends unless the poll blocks for ever | 1 timer, 1 immediate, 2 jobs, 1 request, a server, the two bounded loops cut to 1 | 89 231 |
| `emitter` | once wrappers leave their lists, also when the listener throws or re-enters; `EmitterService` implemented | 2 events, 1 listener, 2 wrappers, 4 arrays of 2, depth 2 | 195 582 |
| `readable` | chunks conserved, flowing drains; without pipes also 'end' reached, last, and data in order | 3 chunks, 1 destination piped up to twice, depth 3 | 1 706 376 |
| `writable` | no callback waits for ever, 'finish' only after every callback | 3 callbacks, 3 chunks, cork 2, depth 3 | 32 216 |
| `commonjs` | loading stack exact, no repeated run, one exports object | 3 modules, stack of 2, 2 runs each | 58 960 |
| `http_cache` | `LruService` implemented: capacity kept, entries leave in LRU order or expired | 4 urls of which 2 collide, 3 entries, 4 times | 66 336 |
| `abort` | script never sees half of an abort; every aborted signal has its event when abort() is back, a dependent after its source | 3 signals, 3 listener nodes, 1 dispatch by script at a time | 411 447 |
| `child_process` | a child that ends alone has its whole output read; messages that are JSON arrive whole, once and in order, and only the others are dropped; what the parent sends arrives while both ends are open; 'disconnect' once; channel not used after it was freed; exec() answers | exec beside spawn, or one fork; 1 stream, 2 bytes, maxBuffer 1, 1 victim; 2 messages from either end or both, each JSON or not | 287 347 |
| `net` | no chunk lost or out of order while both ends are open; 'end' after all of them; after 'close' no 'connect', 'data', 'end' or 'error'; connect(), listen() and close() answered; 'end' arrives | 4 scenarios of up to 2 writes, 2 connects and 3 other calls | 101 273 |
| `files` | a system call acts on the caller's file; descriptors given back before the answer; what is reported is so; every call answered | 7 plans of up to 4 calls, 2 files, 2 threads, 2 descriptors, 1 fault | 53 517 |

**Why the bounds are enough.**  *timers*: timers share only the callback on the
stack and the job queue; two timers and two jobs give every pair of the actions
on them, and the safety part is proved for any number.  *immediates*: one
running, one on the walked list, one on the loop's list.  *loop*: the code
distinguishes no job and some job, a due and a waiting timer; two jobs let one
throw and leave another; `EvalBound` and `AwaitBound` (10 and 3 in the code) are
1, so that jobs are left when the bounded loops end, which is what the bounds
are for.  *emitter*: an emission, a nested one, and arrays enough for each
to hold its own beside `_events`.  *readable*: two chunks in the buffer while a
third is in flight, and three C functions nested, are the least in which two
drain loops compete and a third call changes what they see.  *writable*: a
direct, a queued and an end callback.  *commonjs*: a circle of two beside a
third module, and a circle too deep for the stack.  Two runs of a module let
one follow another; the proof covers every size, the full cache included.
*http_cache*: the shortest list in which a colliding pair is not adjacent and
an eviction happens; four moments let an entry expire, be replaced and expire
again.  *abort*: three signals give a chain, a signal with two dependents and
one with two sources; three nodes hold those of any() and one of the script.
*child_process*: two children are what it takes for one to be reaped with
another's callbacks to come; two bytes and a maxBuffer of one give output below,
at and above the limit; a header or a body of two units can be cut within and
at either end; two messages are the least with one being written while another is
queued, and with one that is dropped before or behind one that is heard.  *net*: each scenario is a set of calls that meet in one
function of the code (writes around connect and end; both directions and both
ends; destroy against everything; a server that closes), all scripts' orders of
them included.  *files*: two threads let two requests overtake each other, and
more change nothing that two calls could see; with two descriptors numbers are
used again at once and run out; a file of three bytes is two chunks, the last
one short; a read-only and an appended file, an empty one, and one cut by another
call while it is read.

**Symmetry and views.**  Symmetry is used only in runs without liveness
properties.  `MCEventEmitter` leaves the content of unreachable arrays out of
the fingerprint, `MCCommonJS` a history variable no property of its run
reads.

**Deadlock.**  Every configuration says CHECK_DEADLOCK FALSE: a program ends,
and the models end at their bounds.

**Fairness.**  `TimerHandles`: script functions return (weak fairness of the C
steps that follow them), and the loop goes on firing and closing (strong
fairness for each timer, since script entered from elsewhere disables them now
and then; libuv's heap of timers passes over none for ever).  `Immediates`: script
returns, and the loop goes through its phases (strong for `Poll` and `BeginCheck`,
which script entered from elsewhere disables now and then).  Of the poll nothing
is assumed, unless a handle is closing, when its timeout is 0: check handles do
not make it return, so `NoneForgotten` excepts behaviours that stay in one poll
for ever.  `RunLoop`: the thread runs whenever it can
(`WF(Advance)`), requests complete and time passes (strong, because they
happen only at some places of the loop).  Nothing is assumed of the script: it
may set, clear and open as it likes, except where a property says so
(`Unblocked`, `IntervalsCleared`), and nothing of the server: it may never have
an event, or have one in every poll.  `ChildProcess`: C functions go on
when listeners return and exit callbacks follow the handler that waited; a child
to which SIGKILL was sent dies; the timer, the handler of SIGCHLD, the reads of
pipes and the channel are handled whenever the loop can (strong where script on
the stack disables them now and then).  A child that is not killed may run for
ever.  `NetSockets`: functions go on, the loop handles what has happened
(`LoopStep`), the network delivers (`NetworkStep`): libuv polls again and again,
and TCP delivers or resets.  `FileRequests`: the pool and the loop go on.  Of
scripts nothing is assumed in any of them.

## 4. What is proved

All proofs are for any values of the constants that satisfy the named
assumptions; `tlapm` checks them with Z3, Zenon and LS4.

`TimerHandles_proofs`, from `NoTimerAssumption` and `MaxJobsAssumption`:
`TypeCorrect`, `OpaqueIsExact`, `HandlesClosedOnce`, `StructuresOutliveUse`,
`CollectorSparesTimers` (only script and firing disarm a timer; no run checks
it) and `Refinement` (`Spec => ImplementsTimerService`).
The properties are not inductive: that a handle is closed once follows only if
one knows that whoever finds the opaque pointer set finds a handle that is not
closing.  `IInv` therefore says for each timer what the state of its handle
implies about memory, pointer and number of closes (`Consistent`), and which
stages have a callback on the stack (`ControlOK`).  `NextIInv` goes through the
actions; the action property and the refinement follow from `IInv` step by step
(`StepDisarms`, `NextRefines`, with `OnePhase` for steps that move one timer's
phase and `Stutters` for those that move none).

The second part of the module is about `Immediates`, which it instantiates as `I`:
`ImmediateTypes`, `ListsAreExact`, `TableIsLive` and `ImmediatesRefine`
(`ImplementsTimerService`), from what `NoImmAssumption` says, for any number of
immediates.  `ImmInv` says what
the state of each handle implies of its structure (`ImmConsistent`), that libuv's
list and the one the check phase walks hold the active handles once between
them (`Lists`), and that the walked list is empty outside a check phase
(`WalkOK`) - otherwise `BeginCheck` would overwrite handles still to be called.
`PutFirst`, `PutLast`, `TakeFirst` and `TakeOut` say what the four operations on
lists do to their elements; `RunImmediate` depends on the invariant to know that
a handle on the walked list is active and so was not cleared.

The third part is about `RunLoop`, which it instantiates as `L`:
`LoopTypes` and `NothingLost` (`NoWorkLost`), from what `RunLoopAssumption` says,
for any number of timers, immediates, jobs and requests and any bounds of the
two job loops.  Report decides on what libuv counts as alive, and that is not
everything: a timer cleared by its own callback no longer counts although the
callback is on the stack.  `LoopInv` therefore says at which places of the C code
script can be running (`ScriptsInPlace`) and that a timer or immediate under
way is the one on the stack (`OneCallback`); where Report decides, none can be.
`Counted` bounds the queues by what was ever put in them.

`CommonJS_proofs`, from `CommonJSAssumption` and `NotCachedAssumption`:
`TypeCorrect`, `LoadingStackIsExact`, `ModulesDoNotNest`, `ExportsAreShared`,
`CachedModulesRest`.  To the stack and the nesting `IInv` adds that no module
under way has exports in the cache (`LoadsUncached`) - otherwise a module whose
exports are cached could be run - and that exports given out are those in the
cache as long as it has room (`GivenAreCached`, which needs `RoomLeft`: a
module without an entry leaves a place free).

The second part of the module is about `HttpCache`, which it instantiates as `H`:
`HttpCacheServes` (`ImplementsLruService`), from what `HttpCacheAssumption` and
`FreeAssumption` say, for any urls, hashes, addresses, limit and clock.  A node has one
`next` for its bucket and for the LRU list, so neither chain can be trusted by
itself.  The invariant has the LRU list as a sequence of nodes: `ListOf(c, s)` says
that s holds every node of c once and that head, tail, prev and next are those of
s.  Each operation is then one on s: `MoveIs` (to the front), `RemoveIs` (a place is
left out), `EvictIs` (the last place), `InsertIs` (before all), whichever bucket
led to the node.  What saves them is that a search along a bucket follows the LRU
list from the node where it gets there, so that it ends (`SearchEnds`) and that
`Unchain` writes at most what the removal from the LRU list writes too
(`UnchainIs`); in `evict_lru`, which cuts the list before it looks in the bucket,
nothing links to the node any more (`Strung` has the list with its last node cut
off).  `Walk` is a recursive function; that it is the walk along s follows from
the least place at which the two could differ (`WalkIs`, `FirstNumber`).

`ReadableStream_proofs`, from `ReadableAssumption`: `TypeCorrect`, `EndsOnce`,
`NothingStuck`, `EndIsReached`, `EndComesLast` and `DataComesInOrder`, for any
number of chunks and destinations and any depth of nested calls.  The
properties speak of the moments at which every call is back.  `IInv` says what
holds in between: chunks may be left in flowing mode, or 'end' be due, only
while a call is on the stack that will enter the drain loop again
(`DrainsFlowing`, `DrainsEnd`); 'end' was emitted exactly when the flag says so
(`EndCounted`); without pipe() every chunk is in the buffer, emitted or read
(`Kept`), those emitted before those in the buffer.  The lemmas `CallOutEffect`,
`DoneEffect`, `EndEffect` and `LoopEffect` say once what the four helpers of the
model do, and each method has a lemma that uses them.  `ChunksConserved` covers
streams that are piped, where the order of the earlier theorems is lost.  Its
invariant `AllPlaced` counts places rather than chunks: array, emitted, read and
frames of writes under way hold each chunk once between them and all of them
together.  The helpers are called with a chunk in hand that has left the array
and is not anywhere yet, so `Placed` has that as a parameter (`DonePlaces`,
`LoopPlaces` and the other lemmas hand it on).

`WritableStream_proofs`, from no assumption: `NoCallbackWaits` (`NoneWaits`) and
`FinishIsLast` (`FinishedAll`), for any number of callbacks and any depth of calls.  Neither is
inductive: both say what the queue is when the loop of process_write_callbacks
is over, and script runs in the middle of it.  `IInv` therefore says, as long as
no callback was called twice, that one such loop at most is on the stack
(`OneLoop`), that the callbacks it has passed have been called and are still in
the queue (`Passed`), that every callback accepted was called or is in the queue
(`AllKept`), that a stream not corked has callbacks in its queue only while a
loop is on the stack, and none once it has finished.  That a second loop would
call the first callback again - what stops the model - is what makes the loop
single; `LoopStep` says it of the loop's start, next round and end at once.

The second part of the module is about `EventEmitter`, which it instantiates as
`E`: `OnceIsRemoved` (`OnceRemoved`) and `EmitterServes` (`ImplementsEmitterService`), from what
`EmitterAssumption` says, for any number of events, listeners and wrappers and any
depth of emissions.  Both depend on arrays not being mixed up: on() appends in
place to the array that an emission may be walking; removeListener(), the removal
of a once wrapper and prepending put a new array in its place,
removeAllListeners() drops it; and emit() walks the array it has found, up to the
length it had then.  `EmitterInv` says that no two events share an array
(`OneOwner`), that a wrapper of once() is an entry of one event only
(`OneHolder`), that what an emission has read lies within what it holds
(`HasTaken`), and that a wrapper which has run is in no array of its event
(`OnceRemoved`).  Lemmas on `Sublist` say what it keeps and in which order; what an
emission has left to call maps to the abstract emission's list step by step.

`AbortSignals_proofs`, from `SignalsAssumption`: `AllDependentsAborted`,
`FirstReasonKept`, `AbortsFire` and `SourcesFirst`, for any number of signals and
listeners and any nesting of aborts and dispatches.  `IInv` adds to
the property that signals not made yet have no dependents and are no dependents
(`Unmade`), that only signals of any() depend on others (`OnlyAny`), and that a timer of
AbortSignal.timeout() runs only while its signal is not aborted
(`TimersPending`); that `Mark` reaches everything follows from the smallest closed
set it is defined by.  The other two theorems speak of what happens in the four
steps of DoAbort while listeners abort, combine and dispatch, so their invariants
speak of the whole stack.  `AllDue`: every event that is missing is due (`Due`)
from a call under way - the event itself from a `fire`, those of the direct
dependents from step 3, all below them (`Tree`) from step 4.  A loop that goes on
to the next dependent hands what is due from it to the calls it makes and to its
own rest (`RoundDue`); a signal that any() adds meanwhile only adds to it
(`DueGrows`).  `Ordered`: every call comes late enough (`InOrder`) when those above
it on the stack have given the events they are due to give (`Gives`): step 4 for
a dependent waits for that dependent's event, which step 3 above it gives.  A
listener of any() that finds its signal not aborted passes on an undefined reason
(`CallInternalFirst`), which is why the property excepts those.

`ChildProcess_proofs`, from `ChildrenAssumption`: `DisconnectsOnce`,
`ChannelOutlivesUse` and `MessagesInOrder`, for any number of children, streams
and messages, however reads and writes cut them.  Three
paths part the parent's end: disconnect(), the end of the stream and the exit
callback.  `IInv` says that before fork() there is no channel (`Unforked`), that
a reference to the channel means one that is not freed (`RefLive`), that who
waits for listeners of 'exit' to return has exited (`ExitFrames`), and when the
child's end has parted (`KidParted`).  For the messages `OrderInv` says
where each unit of the stream is: the buffer begins with the unit that follows
those removed from it, which the number of bodies tried and the state of the parser
tell (`Removed`); what is on the wire begins where the buffer ends, what is being
written where the wire ends, and the queue has the messages that follow
(`Received`, `SentOn`).  So the parser always finds a header where it looks for one
and a body where it looks for that.  Listeners run exactly while their end's buffer
begins with the body they were given (`Held`, `Serving`), so that two reads never work on one
buffer, and `Continue` removes that body and no other.  `ExactHeard` and
`ExactDropped` say that what was heard stays exact when a message that is JSON is
heard, and when others are counted as tried.  `AloneLosesNothing` (`AloneWhole`): a child
that never had a sibling and is not killed has lost no output when its exit
callback, 'exit' and 'close' are called.  The exit callback may discard what the
pipes still hold, so what counts is that libuv waits for a child only in the turn
in which SIGCHLD is served, and that last.  `AloneInv` says that such a child has
been read to the end once it has been waited for (`ReadToEnd`), that exit
callbacks and their listeners are for children waited for (`WaitedFor`), and that
output is thrown away only by the kill of a child (`ThrownAway`).  What libuv reaps
in one go are the entries of its lists that are in a set; that the number of
entries `Sublist` gives is right needs the least of a set of numbers (`Least`).

`NetSockets_proofs`, from `ScenariosAssumption`: `TypeCorrect`, `AllConserved`,
`EndsWhole` and `NothingAfterClose`, for any scenario.  What was accepted is, end to end, the chunks
given to listeners, on the wire, in libuv's queue and pending (`Carried`): each
action moves chunks from one end of a part to the other end of the next.
`Whole` says what 'end' and a FIN on the wire imply of the parts before them;
`Settled` which combinations of flags and handle states there are; `PeerMade`
that the other socket is there when data is for it.  That nothing follows 'close'
needs to know how far each socket's ending is (`EndingAt`, by the `Stage` of the
call that closes it), and that such a call is the outermost one (`Outermost`).

`FileRequests_proofs`, from `FilesAssumption`: `DescriptorsAreOwn`
(`OwnDescriptors`) and `NothingLeaks` (`NoneLeaked`), for any calls, files,
descriptors, threads and faults.  Descriptors are numbers that the kernel gives
out again, so both need to know who is to close which: `Keeps` says it for each
callback that a call may wait for, and for FileHandles.  `IInv` says that every
open descriptor has one keeper, with the same opener, or was given up by a
`readFile()` whose read() failed (`GaveUp`, `Kept`); that a queued request names the descriptor that its call
or handle opened (`RequestOK`); which callbacks and requests an operation goes
through (`StepOK`); that the two descriptors of `copyFile()` differ (`Apart`).
That a system call cannot disturb the rest is one lemma, `CallSteps`: a call opens
descriptors that are free and closes those it keeps.  Only close() of a FileHandle
(`HandleCloseInv`) hands a descriptor from one keeper to another.  A thread never
finds a descriptor closed that it is to close, so `close()` is not refused
(`SysRefusedInv`); the exceptions of the property are just the requests that
nobody keeps a descriptor for (`StrayIs`).

The same module has `TypeCorrect` and `AnswersAreTrue` (`AnsweredTruly`): what a
call reports is what it did to the files, unless another call changed them
meanwhile or a system call was short; what was appended is there even if others
append.  `TInv` adds to the types
that the descriptors of a call under way are on that call's files (`FilesOK`) and,
for each callback the call may wait for, how far it has come (`Truth`, with
`ReadTrue`, `WriteTrue`, `AppendTrue`, `CopyTrue`): how much of the file the
buffer holds, how much of the data the file does, what the copy has.  The step of
another call either marks this one as disturbed or does not show in what `Truth`
reads of it (`Unseen`, `OthersDisturbed`); what `appendFile()` writes is only ever
put behind what is there (`WriteExtends`).

Only model-checked: liveness under fairness, which is out of the provers' reach;
every safety property that a run checks is stated by a theorem.
Induction over data is out of reach too, because the library's induction
theorems take an operator as a parameter; the least element of a set of numbers
is not (`IsWellFoundedOn` of the order on Nat).  Where a proof needs the least
place in a sequence, the least free descriptor, or the first step at which two
recursive functions differ, that gives it.

## 5. What the code does that one might not expect

The models have the following behaviours because the code has them.  They limit
what the properties say.

Loop, timers, immediates:

- A job queued by an I/O callback or an immediate is run only when uv_run
  returns or a timer fires: `Ends` and `ErrorsReported` are stated under
  `Unblocked`.
- An active check handle keeps the loop alive and does not keep the poll from
  blocking: a script that sets an immediate, no timer, and gets no event waits
  for ever, although `node/node_timers.c:8` says "setImmediate schedules a callback
  to be invoked in the next iteration of the event loop".  `NoneForgotten`
  therefore excepts behaviours that end in a poll that does not return.
- An immediate's memory is freed while its handle is on libuv's list of closing
  handles (`node/node_timers.c:77`); clearImmediate frees nothing and leaves
  the id in the table (line 139), and called twice, or from the callback,
  closes a closing handle.

Emitter and streams:

- A once wrapper is removed after its listener has run, so a listener that
  emits its own event is called again.
- pipe() does not look for the end of the stream, and a destination whose write
  pushes has its chunk emitted before the one in flight: `EndReached`,
  `EndLast` and `DataInOrder` are stated for streams that are not piped.
  resume() emits chunks without writing them to the destinations.
- unpipe() called by an 'unpipe' listener releases the same reference again.
- A write callback that corks and uncorks starts the loop over the queue again,
  which calls and frees callbacks twice; `needDrain` is set and never reset,
  and 'drain' is never emitted; end(chunk, callback) whose callback calls end()
  emits 'finish' twice.

Modules and cache:

- The object given to a circular require is a new `{exports: {}}` that nothing
  fills later (`module/loaders/commonjs_loader.c:217` says "will be
  completed"); that of a module that fails afterwards stays in the cache.
- Removing an expired entry of the HTTP cache writes the next entry of the LRU
  list into its bucket, whatever bucket that one belongs to; evicting that one
  leaves the bucket with the address of freed memory.  A hit on one of two
  entries with the same hash may take the other one out of its chain: it is then
  there and not found.

Abort signals:

- A listener that removes itself, or a once listener whose event is dispatched
  again while it runs, frees the node from which the walk goes on (`broken`).
- dispatchEvent(new Event('abort')) on a signal that is not aborted runs the
  listeners of any(): the dependents are aborted, with the reason undefined.
  `SourceFirst` excepts such signals.
- AbortSignal.timeout(0) never aborts; a signal of AbortSignal.abort() never
  has an event.

Child processes:

- kill() and the timer of exec(), for a child that could not be started, signal
  process 0: the program's own process group (`dead`).
- Two children that end close together are waited for at once; the second one's
  'close' comes before the loop has read its output, which is then never read,
  and exec() gives the truncated output without an error
  (`node/child_process/child_process_callbacks.c:155` says "after all pipes are
  closed").  `AloneWhole` therefore speaks of a child without sibling.  A sibling
  in the batch may also be signalled after it was waited for.
- After maxBuffer was exceeded a smaller chunk that comes later is still kept.
- If the stream ends before the process does, the parent's end of the channel is
  never closed.  disconnect() drops queued messages and never calls their
  callbacks; after a failed write the queue rests until the next send().
- send() and process.send() of undefined or of a function return true: the text they
  put on the wire is `undefined`, which JS_ParseJSON refuses at the other end, where
  it is dropped (`node/child_process/child_process_ipc.c:202`,
  `node/process/process_ipc.c:97`) without an event at either end.  `InOrder` and
  `Delivered` speak of messages that are JSON.
- The loop over received messages goes on after a listener of 'message' has
  disconnected.
- If a descendant holds the child's end, the exit callback closes the channel
  without 'disconnect'.

Sockets:

- connect() of a socket that is connecting or connected closes the handle, calls
  nothing and throws; one by name from a listener of 'close', or after it, is
  never answered (`Answered` excepts these).
- A failed lookup leaves `end_after_connect` set; a failed connection emits
  'error' and no 'close'.
- destroy() in or after the path of the end of the stream emits 'close' again.
  'ready' is emitted after destroy() in a listener of 'connect', and 'drain'
  for writes that were lost or cancelled, even after 'close'.
- At the end of the stream the handle is closed though writes are queued, which
  `Conserved` allows for by speaking of the time while both ends are open.
- pause() followed by end() makes resume() do nothing.
- listen()'s callback may come after the server's 'close'.
- A timeout set with setTimeout is not restarted by activity
  (`docs/plan/node-net-plan.md:524`), and its timer keeps the loop alive after
  destroy(); both are outside the model.

Files:

- fs.truncate() queues ftruncate() and closes the descriptor at once
  (`node/fs/fs_async_core.c:2402`, "Close fd after truncate"): the thread may
  come too late and get EBADF, or truncate the file that has got the number
  meanwhile.  `OwnDescriptors` excepts it.
- Requests of a FileHandle do not hold it: close(), or the collector, gives the
  descriptor back while a read or write waits in the pool, which may then act on
  another file.  `OwnDescriptors` excepts handles that are closed or dropped.
- readFile() of the callback API does not close the descriptor when its read()
  fails (`NoneLeaked` excepts it, and no other failure of readFile(): the error
  that is reported names the system call).
- A write that wrote less than asked counts as done; FileHandle.readFile() gives
  the whole buffer however much was read (`AnsweredTruly` speaks of calls whose
  files nobody else changed and whose writes were whole).
- FileHandle.writeFile() does not truncate the file ("Truncate file first, then
  write", `node/fs/fs_promises.c:1243`).
- fs.promises.truncate() gives libuv the descriptor -1 and always fails; it is
  outside the model.

## 6. Not modelled

Inside the modelled parts: teardown (JSRT_RuntimeFree runs the loop with the
context half gone), running out of memory, the values of jobs and exceptions;
setMaxListeners, captureRejections and errorMonitor of the emitter; encodings,
destroy of a Readable, the constructors' options of streams; path resolution
and the wrapping of module code before CommonJS loading; the download behind
the HTTP cache (it succeeds or fails); the collector of signals, events other
than 'abort' and the stages of an Event object; spawnSync and execSync, which run
a loop of their own, stdin, inherited descriptors and the options of children;
setTimeout, keep-alive, addresses, ref and unref, and the finalizers of sockets;
calls on files that take one request (stat, rename, mkdir, ...), descriptors as
numbers (fs.open, fs.read, fs.close), vectors, file streams and the synchronous
calls.  Files exist: a missing one is a failing open().  Time is order only: which
timer is due first is not decided by `RunLoop`.

The other components are listed with their reasons in `PROJECT.json`: crypto,
zlib, WebAssembly and wasi are glue to libraries and their largest files convert
arguments; URL, buffer, path and querystring are functions of their arguments;
QuickJS links ES modules.

## 7. Plan

Done, in this order: timers, immediates, the loop over both; the emitter; the
two streams; the loader; the HTTP cache; abort signals; child processes with
their channel; sockets; files.  Proofs: timers, loader, loop, both streams,
immediates, abort signals, child processes, sockets, files, the
emitter, the HTTP cache.

Left, most important first:

1. `Transform` composing readable and writable state (its write gives the user's
   callback to _transform and never calls it itself), and a pipe between a
   `ReadableStream` and a `WritableStream`.
2. Teardown: finalizers, uv_walk and the last turns of the loop.
3. WHATWG streams and fetch, whose queues resemble those of node:stream.
4. `CompileCache`: two processes, and a crash between remove and rename
   (`node/module/compile_cache.c:135`).
5. node:http over `NetSockets`; descriptors as numbers and file streams over
   `FileRequests`.
