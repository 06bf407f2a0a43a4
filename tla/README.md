# Verification of snippets.cc

`snippets.cc` is a collection of small, self-contained C++ programs and
headers: data structures that several threads share (`null/`), network programs
on Boost.Asio (`asio/`), error codes on Boost.System (`system/`) and a few
debugging demonstrations (`debug/`). This directory holds TLA+ modules of the
parts whose correctness depends on an order of events, the configurations with
which TLC checks them, and proofs for TLAPS.

The repository has no documentation and hardly any tests. What a component
should do is taken from its interface and its code; where the code has a
weakness that no text of the repository contradicts, it is described under
*What the models showed*.

## Inventory

| component | source | state | operations | hard because of |
|---|---|---|---|---|
| SpscRingBuffer | `null/spsc_ring_buffer.h` | two atomic indices, slots | push, pop, size, is_full, is_empty | two threads without a lock, memory orders, wrapping indices, assignments that throw |
| BlockingQueue | `null/concurrent_blocking_queue.h` | deque, closed flag, mutex, two condition variables | push, try_push, pop, try_pop, close, size, empty, is_closed | lost wakeups, timeouts that race notifications, close, exceptions |
| SharedPtr | `null/shared_ptr.h`, `null/weak_ptr.h` | handles, control blocks with two atomic counts | construct, copy, move, reset, destroy, lock | the last drop races lock, relaxed loads, who deletes what and when |
| LruCache | `null/lru_cache.h`, `null/concurrent_lru_cache.h` | list, hash map, mutex | get, put | two containers updated one after the other, exceptions in between, pointers that leave the mutex |
| EchoSession | `asio/echo/server.cc` | socket, timer, deadline | start, two handlers for the socket, one for the timer, stop | handlers that cannot be cancelled, start outside the strand, rearming after stop |
| ProxySession | `asio/proxy/server.cc` | two sockets, two timers, two deadlines | connect, two pumps, two watchdogs, stop | one direction stops the other while its handlers are queued |
| EchoCoroutineServer | `asio/echo/co_server.cc` | as EchoSession, plus coroutines and their strand | an echo coroutine, and coroutines that wait on the timer | the order in which the strand resumes them; a deadline that one sets and another reads |
| EchoClient | `asio/echo/client.cc`, `co_client.cc` | four atomic counters, stop flag | sessions on ten threads, as handlers or as coroutines; monitor, shutdown | counters that are updated one after the other and polled |
| UniquePtr | `null/unique_ptr.h` | pointer, deleter | construct, move, convert, reset, release, swap, destroy | handles inside the objects they own, destructors that use handles again, which deleter goes with which pointer |
| BasicTimers | `asio/basic/01` to `05` | counters, timers | handlers that rearm themselves | two timers on a strand; references to parameters |
| DaytimeServers | `asio/socket/03`, `06`, `07` | connections, a shared endpoint | accept, write; receive, send | lifetimes of objects with outstanding operations, an address that is overwritten, accepts that fail |
| DaytimeClients | `asio/socket/01`, `02`, `04`, `05` | none | blocking calls | nothing: straight-line I/O |
| StackfulCoroutines | `asio/coro/stackfull.cc` | none | print, yield | nothing of its own: order is Boost's |
| ErrorCategories | `system/` | none | codes to conditions | pure mappings |
| DebugSnippets | `debug/` | none | print | nothing |

The components are programs and headers of their own: none of them includes
another one, except that `weak_ptr.h` and `shared_ptr.h` share the control
block and that the echo clients talk to the echo servers. Within a component,
threads interact through shared memory (`null/`), and handlers through the
objects that they share and the io_context that queues them (`asio/`).

What makes each component correct:

* *SpscRingBuffer*: no two accesses to a slot race; first in, first out, within
  the capacity, whatever throws; what `size` tells a thread stays true for it.
* *BlockingQueue*: first in, first out, within the capacity, nothing after
  close; nobody sleeps while what it waits for is there; close reaches all.
* *SharedPtr*: the object and the block are deleted exactly once, after every
  access and not too late; an empty lock was taken from an expired pointer.
* *UniquePtr*: an object has one owner until it is deleted, whatever destructors
  do; it is deleted with the deleter that it came with.
* *LruCache*: list and map agree; the least recent key goes first; the pointer
  from `get` is good for a known number of calls.
* *EchoSession*, *EchoCoroutineServer*, *ProxySession*: an open session is always
  being watched; it is closed only when it has been idle; a silent peer cannot
  hold it; a stopped session is released.
* *EchoClient*: the counters are exact whatever the threads are doing; the
  program ends when it is told to.
* The servers as programs (the accept loops of the three above, and
  *DaytimeServers*): who has connected is served, unless the loop has ended for
  a reason; a connection lives as long as it is used; a signal ends the server;
  a datagram is answered to its own sender.

`PROJECT.json` lists the hazards line by line, with the properties that cover
them.

## Modules

    ClosableFifo          abstract: a bounded FIFO container that can be closed
      SpscRingBuffer      implements it          SpscRingBufferProofs
      BlockingQueue       implements it          BlockingQueueProofs
    SharedPtr             reference counting     SharedPtrProofs
    UniquePtr             single ownership       UniquePtrProofs
    LruPolicy             abstract: a least-recently-used cache
      LruCache            implements it          LruCacheProofs
    EchoSession           one session of the echo server, both modes
    CoSession             the same made of coroutines
    ProxySession          one session of the proxy
                          (all three)            SessionProofs
    Servers               accept loops, threads and signals of five servers
      UdpServer           the datagram server    ServersProofs
    EchoClient            the load generators    EchoClientProofs
    MC*                   instances for TLC, with the symmetries if any

Definitions marked `bug:` are plausible mistakes in the definition that follows
them. No behaviour uses them; `PROJECT.json` pairs each with the property that
fails when it replaces the definition, as evidence that the property depends on
that line of the code.

### SpscRingBuffer

The atomic operations of `push` and `pop` are actions of their own, so that the
two threads interleave between the load of the other index, the access to the
slot and the store of the own index. `headStores` and `tailStores` keep every
value stored; each thread reads its own index exactly and the other one through
a *view* that moves forward by itself and may lag without bound, which is all
that coherence grants. A release store carries the number of slot accesses that
came before it, an acquire load learns it (`popsKnown`, `pushesKnown`), and
`lastWrite`, `lastRead` tell which access came last at a slot: a race is an
access to a slot whose last access by the other thread is not known. `size`,
`is_full` and `is_empty` are called by either thread; `room` and `stock` record
what their caller may now count on. A throwing assignment (`PushThrow`,
`PopThrow`) leaves the function with the slot torn.

### BlockingQueue

What a thread does while it holds the mutex is one action; waiting releases it.
`pc` is a place in a call: `"push"` means that the thread is awake and wants the
mutex, `"notFull"` that it sleeps at `not_full_cv_`. `notify_one` moves any one
sleeper, `notify_all` all of them; `close` notifies in two steps after it has
released the mutex. The timeout of `try_push` and `try_pop` may pass at any
time (`TimeoutPasses`), also together with a notification; spurious wakeups
happen. `push` and `pop` are the calls with `timed` FALSE.

### SharedPtr

A handle is a `shared_ptr` or a `weak_ptr` variable, owned by one thread at a
time; the threads share the control blocks. Each atomic operation on a count is
one action: `DecUse` and what follows it (`Dispose`, `DecWeak`, `Destroy`),
`LockLoad`, `LockRetry`, `LockSucceeds`. What is between two of them, such as
the temporary of a copy-and-swap, is local to the thread and belongs to the
action before. The memory model keeps for each thread the set of accesses that
happen before its next step, and for each count what its release sequence
publishes: `Drop` publishes with release, the last dropper acquires with its
fence. A relaxed load returns any value that the count has had. Blocks are
places that are reused, so that a second deletion would hit another object.

### UniquePtr

A handle is a variable of the program or the member of an object (every object
has one, as in a list), so that objects can own each other. `doomed` is the
stack of the deletions under way: while the body of a destructor runs
(`"body"`), the program's operations are possible again, on every handle that
still exists; then the member is destroyed (`"members"`), which may push the
next deletion. `bare` are the objects that the program holds by a plain pointer,
after `new` or `release ()`. An operation that takes a temporary (`SwapIn`,
`Move`) is one step up to the destruction of the temporary, because no code of
the program runs before. `given` remembers the deleter the program has paired
an object with: by `reset (p)`, a default-constructed one.

### LruCache and LruPolicy

A call holds the mutex from its beginning to its end and is one action.
`list` is a sequence of nodes, `map` goes from keys to nodes, and a put may
throw in `push_front` (after the eviction) or in `map_[key]` (after
`push_front`). `ptr`, `age` and `dangling` follow the pointer that each caller
got last. `LruPolicy` says what a cache promises, in terms of which of two keys
was used later (`newer`) and of the values. A full cache forgets its oldest key
and no other. `faults` counts the puts that have thrown, each of which may have
taken up a place for good: a cache with that many keys fewer may forget one key,
any key, to make room; one with more room forgets nothing; and none ever returns
a wrong value. The mapping reads `newer` off the order of the nodes (`Recency`)
and the values through the map (`Stored`): nodes that an exception has left
without a key are invisible to it, but count for the capacity.

### EchoSession

Handlers run on the strand, so that each is one action; `start ()` is called by
the accept handler on another thread, and its statements are actions, those of
the `start_watchdog ()` or `start_timeout ()` that it calls included: the receive
(`StartReceive`), the clock and the assignment to `deadline_` (`StartClock`,
`StartWrite`), the check of the deadline (`StartCheck`), which leads to `stop ()`
(`StartStop`) or to the timer (`StartExpire`, `StartWait`). A handler is one
action although `start ()` may run between two of its statements, because each
statement of a handler that `start ()` can meet touches one of the socket,
`deadline_` and the timer: `start ()` might as well have come before or after the
whole handler. `overtaken` remembers that a handler has put `deadline_` off in one
of two windows of `start ()` (`MidStart`): between clock and assignment
(`server.cc:68`), or between check and `stop ()` (`server.cc:95`, `:97`).
`waits` counts the outstanding waits on the timer, of which `start ()` and a
handler may have begun one each; the handler of a wait is queued with success
(`fired`) or with an error (`aborted`), and a queued success cannot be cancelled.
Time is relative: `left` is
what remains until `deadline_`, `tleft` until the timer expires, `idle` counts
from the last operation. `withTimeout` is the argument of `start ()`; the
program passes false.

### CoSession

The code between two suspensions of a coroutine is one action. `strand` is the
queue of resumptions, first in, first out: of the echo coroutine, or of a
coroutine of the timer that begins (`"wait"`), has waited (`"fired"`) or has
been cancelled (`"aborted"`). `start ()` queues the coroutines from another
thread, one at a time (`Spawn`). A completed operation gets into the queue when
some thread picks it up (`EchoQueued`, `FiredQueued`, `AbortedQueued`); in
between it is a `result` or counted in `fired` and `aborted`. A coroutine that
another one on the strand spawns is queued, or runs at once (`SpawnWait`): the
library leaves that open. `EchoOn` and `EchoEnds` are the echo coroutines of
both modes, which differ in whether they spawn a wait or set `deadline_`.

### ProxySession

One thread runs the io_context, so that each handler is one action. Both
directions have an operation, a result, a wait and a deadline; `Stop` closes
both sockets and cancels both timers whichever handler calls it. The connection
to the target comes first. A watchdog has one wait at a time, because only the
handler of a wait (and the first call) starts the next.

### Servers and UdpServer

`program` says which of five servers runs; each has the accept loop, the threads
and the error handling of its source. `accept` is the state of the accept of a
port: pending, completed with a client or an error, being handled, or over. A
handler is one action, except for the one that has accepted a client: the
connection starts (`HandleAccept`) before the loop goes on (`AcceptAgain`), and
another thread may run the connection's handlers in between. After a failed
accept `server.cc` and the proxy return (`ReturnsOnError`), the daytime server
tries again (`RetriesOnError`), `co.cc` ends its detached coroutine
(`DetachedOnError`), and `co_server.cc` throws out of `run ()` of the thread it
happens in (`ThrowsOnError`). `holders` are the shared pointers to a connection,
`work` is what it still has to do; what happens inside is left to EchoSession,
CoSession and ProxySession. `waiting` counts the clients in the backlog of a
port: where they come from is outside.

`UdpServer` is instantiated in Servers and runs on the one thread of the daytime
server, as in `asio/socket/07`. `m_endpoint` is the address that the outstanding
receive overwrites; an outstanding reply has the address that it was started
with, because the library takes the destination by value.

### EchoClient

`coroutines` chooses between `client.cc` and `co_client.cc`, which share the
monitor and main. Each update of an atomic counter is a step; a thread that is in
the middle of a handler, or of a coroutine between two suspensions, begins no
other (`Busy`). Before it runs its io_context, a thread makes the sessions of its
port (`MakeSessions`). That may throw (`MakeThrows`), since the constructor of a
session opens its socket (`client.cc:31`, `co_client.cc:43`) and file descriptors
may run out; the exception is caught (`client.cc:171`, `co_client.cc:149`), and
the thread is over without having handled any session. A loss is counted by a handler as failed, then as no longer
connected, and by a coroutine the other way round (`CoCountDropped`,
`CoCountFailed`). The monitor reads the counters and the flag at separate
moments, as its loops do. `echoes` is left out: it feeds only the rate that is
printed. So is a lack of memory once the sessions are made, which would leave
`run ()` from within a handler.

## Runs

| run | instance | checks |
|---|---|---|
| `spsc` | capacity 2 (3 slots), 2 items, 5 pushes, 1 exception | `Inv`, `NoDataRace`, `HintsHold`, refinement `FifoSpec`, `AllArrive` |
| `queue` | 3 threads, 2 items, capacity 2, 3 items sent, 1 exception in push or pop | `NoLostWakeup`, `Inv`, refinement `FifoSpec`, `CallsReturn`, `SleepersServed` |
| `shared_ptr` | 2 threads, 2 shared_ptrs, 1 weak_ptr, 1 block | `NoUseAfterFree`, `NoLeak`, `DeletedLast`, `LockHonest`, `Inv` |
| `shared_ptr_assign` | 1 thread, 3 shared_ptrs, 2 weak_ptrs, 2 blocks | `Inv` |
| `unique_ptr` | 2 variables, 3 objects with a handle each, 2 deleters | `OwnedOnce`, `DeleterKept` |
| `lru` | 4 keys, 2 values, 3 nodes, capacity 3, 2 callers, 2 exceptions | `Inv`, `PointerGood`, refinement `PolicySpec` |
| `echo` | timeout 3 ticks, both modes | `Inv`, `ClosedWhenIdle`, `ExpiresWhenIdle`, `OperationsEnd`, `Released` |
| `co_session` | timeout 2 ticks, both modes | `Inv`, `ClosedWhenIdle`, `OperationsEnd`, `Released` |
| `proxy` | timeout 2 ticks | `Inv`, `CutWhenIdle`, `OperationsEnd`, `Released` |
| `servers` | five programs, 2 ports, main and 2 workers, 3 clients, 2 failed accepts, 2 datagrams | `AnswersExact`, `ConnectionsSafe`, `Served`, `Ends` |
| `client` | both programs, 3 ports, 2 connections asked for | `CountersExact`, `Ends` |
| `client_total` | 2 ports, 1 connection asked for | `NoMoreThanTotal`, which fails |

`Inv` joins a module's type invariant with what every step preserves. In the ring
buffer, the queue, SharedPtr and the three session modules it is the inductive
invariant of the proofs, which TLC thus checks first; in LruCache it says that
list and map agree (`Sound`), to which the proof adds the pointers. The names of
its parts are explained under *Proofs*. Every run but the last
completes its state space without an error; the last one shows the finding that
is described below. Why the bounds suffice:

* `MaxSent` = 5 with 3 slots makes both indices wrap, with items left behind
  from the lap before; views may be a whole lap behind. `MaxThrows` bounds
  exceptions; one is enough to have a torn slot reused and a wakeup consumed.
* Three threads at capacity 2, with three items of two kinds, give every order of
  items inside, a full and an empty queue, two sleepers in `pop` next to a thread
  that pushes or closes, and a sleeper in `push`. Two sleepers in `push`, or two
  sleepers with two notifiers, need more items or threads: there the safety
  properties are proved, and the liveness properties were checked on the side
  of `pop` only, which is that of `push` with the roles exchanged. One exception
  makes the difference between the bound of `NoLostWakeup` and the bound without
  exceptions.
* Two variables and three objects are a list of three and deletions that nest
  three deep; every operation can meet a handle whose owner is being deleted.
* Two ports and three clients let one port go on when the other's loop has
  ended, and put two clients into one backlog; two errors end both loops, or
  both workers; two workers are what remains to be lost when one has left. There
  is memory for three connections beyond what the clients need, so that a lack
  of it never hides a step; it is reused, so that a stale use would be seen.
  One datagram from each of two clients overwrites the shared address.
* Four keys at capacity 3 evict; as many nodes as places make a new node reuse
  the memory of the evicted one, which is where a dangling pointer would hurt.
* Three ports for two connections have a session each, one more than asked for:
  when one thread fails to make its session, the others are still enough for the
  monitor to go on, and when two fail they are not. Handlers run at the same time
  in three threads. That the sessions of one port wait for each other needs two of
  them on a port: the theorems have any number.
* A timeout of two or three ticks separates "before", "at" and "after" the
  deadline. `MaxQueued` bounds the queued wait handlers of a session (in
  CoSession, all resumptions under way) when its peer acts; three are more than
  the handlers can act on at once.

Fairness, where a liveness property needs it: a thread that is awake goes on
and gets the mutex (everybody holds it for a bounded time); a store becomes
visible in finite time; both sides of the ring buffer retry in a loop, as the
users of a non-blocking queue must; queued handlers run, because the threads of
the io_context do nothing else; time passes. Never assumed: that somebody calls
`push`, `pop` or `close`, that a spurious wakeup happens, that a peer sends,
receives or closes, that a client connects, or that a signal comes. In Servers an
accept of a client in the backlog completes, ready handlers run and a thread
that may leave `run ()` does; arrivals are bounded, so weak fairness is enough
there. In EchoClient the same holds for the threads of the ports, which make
their sessions or fail to (neither is assumed), and the monitor and main wake up
from their sleeps.

## Proofs

All theorems hold for every value of the constants under the named assumptions
of the modules. They say no more than the code, or the model's bookkeeping, needs:

| assumption | of | says |
|---|---|---|
| `SpscAssumption` | SpscRingBuffer | capacity and bounds are natural numbers; the placeholder is no item |
| `QueueAssumption` | BlockingQueue | the same, and there are finitely many threads |
| `PtrAssumption` | SharedPtr | finitely many threads and handles; no handle is both strong and weak; null is no block |
| `UniqueAssumption` | UniquePtr | finitely many variables and objects, which differ; null is no object; there is a default deleter, and a moved-from one is not among the given ones |
| `CacheAssumption` | LruCache | the capacity is positive, as the constructor demands; "none" is neither node nor value |
| `EchoAssumption`, `CoAssumption`, `ProxyAssumption` | the sessions | the timeout is at least one tick; the bound of queued handlers is positive |
| `ServersAssumption` | Servers | finitely many ports and workers, main not among the workers; memory for a connection of each port |
| `ClientAssumption` | EchoClient | at least one port |

Every safety property that a run checks and that holds is a theorem, and so are
the three refinements. In each module the argument is an inductive invariant, a
lemma for each action that keeps it, and the property as a consequence.

*SpscRingBufferProofs* proves `[]Inv`, and from it `[]TypeOK`, `[]NoDataRace`,
`[]HintsHold` and that the ring buffer implements `ClosableFifo`. `NoDataRace`
alone is not inductive: that the slot which the producer is about to write is
free follows from how far the consumer can have got, which the producer knows
only through an old value of `tail_`. The invariant therefore ties each store
to the number of accesses it published (the n-th store of `head_` has index
n mod (Capacity + 1)), bounds the distance of the two stores counted from
*every* position a view may still take, and says what each slot holds: the
items between the last pops and the last pushes. The modular arithmetic, that
two positions less than Capacity + 1 apart have different slots, comes first.
Three more theorems say what the answers are worth. The wrapping subtraction of
`size` counts the items between the two indices that it loads, stale as one of
them may be, so that the producer is told no less and the consumer no more than
what is inside (`SizesRight`); `push` refuses only when Capacity items are inside
that it has not seen popped, and `pop` only when it has taken all that it has
seen pushed (`RefusalsRight`). When one thread sees the buffer full and the other
sees it empty, some store has yet to become visible (`NotBothRefused`): the safety
part of `AllArrive`, of which the fairness of the views makes the rest.

*BlockingQueueProofs* proves `[]Inv`, and from it `[]TypeOK`,
`[]NoLostWakeup`, `[]CloserAhead` and that the queue implements `ClosableFifo`.
`NoLostWakeup` is a count: while somebody sleeps in `pop` there are at least as
many awake threads in `pop` as items in the queue (less one for each exception
that has left `pop`). A push adds an item and wakes a sleeper, or nobody
sleeps; a pop takes an item and leaves; a thread goes to sleep only after it
has found the queue empty. The lemmas say how the cardinality of the set of
threads at a place changes when one thread moves, or two. The safety part of
`CallsReturn` is a rank of a call, at most 3: once the queue is closed nobody falls
asleep, no rank rises, and every step that begins no call lowers one
(`ClosedRunsDown`), so that a closed queue lets every call go after a bounded
number of steps of the threads. A call whose timeout has passed is awake and
returns with its next own step (`TimeoutEnds`), the queue open or closed.

*SharedPtrProofs* proves `[]Inv`, and from it `[]TypeOK`, `[]NoUseAfterFree`,
`[]NoLeak`, `[]LockHonest` and `[]DeletedLast`. A count is the cardinality of a
set: the handles to the block and the threads that still have to drop one
(`CountsExact`), so that a step which moves a handle into a drop changes nothing
and only the atomic operations on the counts do. From there: a use count that
was zero stays zero, which makes the load in `lock` trustworthy however old the
value is (`ZeroLasts`); a count is zero exactly from when somebody is about to
delete what it counts (`Dying`), and that thread is alone with it
(`NoUseAfterFree`). For
`DeletedLast` the invariant follows every access on its way: it is known to a
thread that has yet to drop a handle, or published by a drop in the release
sequence of the count, which the last dropper acquires (`OnItsWay`). The relaxed
increments break no release sequence, because they are read-modify-writes.
`NoResurrection` is the same for steps: what is dead stays dead. No count leaves 0
before its block is reused, an object is deleted once and before its block, and a
shared_ptr is only ever given an object that another one shares or a new one.

*UniquePtrProofs* proves `[]Inv`, and from it `[]TypeOK`, `[]OwnedOnce` and
`[]DeleterKept`. The allocated objects are divided among handles that still
exist, plain pointers of the program and deletions under way, no object twice;
handles inside an object exist until its member has been destroyed, so that the
stack of deletions never holds an object that some handle can still reach. Each
of the three knows the deleter that the object was paired with.

*LruCacheProofs* proves that `Inv` and `PointerGood` are invariants and that the
cache implements `LruPolicy`. List and map agree because the iterators of two
keys lead to two nodes. That the last node is dropped together with *some* map
entry, even when an exception has left the last node without one, costs no
further orphan: either the entry was the last node's, or the last node was an
orphan and another one takes its place; hence the list exceeds the known keys by
the number of exceptions at the most (`ExceptionsCost`). For `PointerGood` the
invariant bounds the place of a node in the list by the number of calls since it
was at the front (`Recent`). For the refinement, each change of the list keeps the order of
the elements it keeps, and the number of known keys is compared with the length
of the list: without exceptions they are equal, so that the cache is full when
the policy is, and if there are Capacity keys then each node is the node of its
key, so that the last one is the oldest. With exceptions they differ by at most
`throws`, which is what makes the policy's `IsCrowded` true when the list is
full.

*SessionProofs* treats the three sessions in one module, because they share the
argument and its arithmetic; ProxySession and CoSession are instances with
variables of their own. It proves `Inv` of each, and `ClosedWhenIdle`,
`ExpiresWhenIdle` and `CutWhenIdle` as action properties. An open session has an
operation outstanding and, when the statement that starts it has been reached, a
wait (`Watched`, `BothWatched`). The rest is a countdown: `left`, the time until
the deadline, and `idle`, the time since the last operation, add up to at least
the timeout (`Punctual`), as both change by one with each tick and are set
together; the exceptions are the deadline that `start ()` assigns late and the
deadline that a handler sets while `start ()` is about to stop the session. In
CoSession the order of the strand's queue enters the invariant: while `deadline_`
is not set, the echo coroutine is in front of everything that looks at it
(`EchoFirst`), and there is never more than one resumption of it (`OneEcho`);
in watchdog mode there is only one watchdog as well (`CoOneWatchdog`).

The safety part of `Released` is a measure for each session: what is left to do
after `stop ()`, that is the price of each handler that is queued or may yet be
(`Work`, `CoWork`, and `DirCost` for each direction of the proxy), with the
statements of a late `start ()` among them. `EchoRunsDown`, `ProxyRunsDown` and
`CoRunsDown` say that `stop ()` is final and that every step but the passing of
time takes from it and none adds, although handlers rearm timers and spawn waits
after the stop; `EchoEndsReleased`, `ProxyEndsReleased` and `CoEndsReleased`, that
it is 0 exactly when the session is released, and that until then a queued
handler, a timer or `start ()` is what keeps it, and never the peer. What TLC adds
is the fairness: that these steps are taken.

*ServersProofs* proves `[]TypeOK`, `[]AnswersExact` and `[]ConnectionsSafe`, and
that no two threads handle the accept of one port (`OneHandler`) and no two ports
prepare one connection (`OwnConnection`). The invariant adds that a connection
at work is held by its own handlers, not only by the loop (`Kept`), so that the
loop may move on at any moment. Around `Served` and `Ends`: a port that is
handled has a thread that will accept again, and a loop is over only after an
error, in the daytime server never (`LoopsGoOn`); a server ends for a reason
(`ServersEndForReason`); the coroutine server loses a thread for a loop and never
more, so that it does not run out of threads while a port goes on, if it had as
many (`ThreadsLeft`); and a server that has been stopped only finishes what its
threads are in (`StopsRunning`). The datagram server's part is inductive as it
stands: the datagrams of each client are those that have been answered, those
whose reply is outstanding, and perhaps the one that was received last.

*EchoClientProofs* proves `[]CountersExact` together with `[]TypeOK`: each
counter is the number of sessions at certain places, and a step moves one session
and one counter. From it follows how far the finding below goes (`AlmostTotal`):
the announced total is exceeded by less than the number of ports. The threads
run one handler each, and those that fail to make their sessions run none
(`ThreadsOrderly`), which bounds what the counters can be
wrong by between two updates: they add up when no thread is in a handler, and at
the end of the program (`CountersAddUp`); a stopped port finishes the handler in
progress, with two counters to update at the most, and begins no other
(`StopRunsDown`, the safety part of `Ends`); and when the monitor gives up because
nobody is connected, nobody writes, reads or waits, fewer attempts than ports are
under way, and at most one connection of each port has just been made and not
been counted (`MonitorGivesUp`). Beside `Ends`: when the sessions that will ever
be handled are gone, the monitor is kept waiting for more only by a thread that
failed (`ShortOnlyAfterFailure`).

Checked by TLC only: the liveness properties (`AllArrive`, `CallsReturn`,
`SleepersServed`, `OperationsEnd`, `Released`, `Served`, `Ends`), which rest on
fairness and ENABLED, so that of them only the measures above are proved; and
whatever a recursion over data computes, for which the provers have no
induction rule.

## What the models showed

One statement of the program fails: the echo client announces a total
(`client.cc:200`) and makes more connections, because each port rounds its share
up (`client.cc:164`). `client_total` shows it.

The other properties hold as stated. Some are stated as they are because a stronger
form fails:

* `NoLostWakeup` allows for one sleeper per exception. A thread that has
  consumed a notification and then throws (`concurrent_blocking_queue.h:39`,
  `:72`) does not pass it on, and another sleeper may stay asleep next to an
  item until the next `push`.
* `ClosedWhenIdle` excepts sessions where a handler has overtaken `start ()`,
  which runs outside the strand (`server.cc:201`), in one of two windows. In
  `server.cc:68` the clock is read and then `deadline_` is written; a handler that
  runs in between has its later deadline overwritten by the earlier one, and the
  session can be closed before it has been idle for the timeout. In
  `start_watchdog ()` as `start ()` calls it (`:39`), the deadline is checked
  (`:95`) and then `stop ()` is called (`:97`); a handler that runs in between has
  just begun an operation with a new deadline, and the session is closed all the
  same. The second window opens only if `start ()` was held up for the whole
  timeout between its assignment and its check.
* In timeout mode there is only `ExpiresWhenIdle`: a timer expires in time, but
  the handler that then waits in the strand's queue behind a completed
  operation cannot be cancelled (`server.cc:118`, `:160`) and closes a session
  that has just become active. Watchdog mode looks at `deadline_` again and is
  free of this. The coroutine server is the same in both respects
  (`co_server.cc:92`, `:142`).
* The coroutine server needs no exception in `ClosedWhenIdle`: `deadline_` is
  only touched on the strand. That it is set before it is first looked at rests
  on the order of the two spawns (`co_server.cc:128`, `:130`) and on the strand
  being first in, first out.
* `PointerGood` promises `Capacity` - 1 calls, not more: the `Capacity`-th may
  evict the node (`concurrent_lru_cache.h:34`).
* A put that throws in `map_[key]` leaves a node in the list that no key
  refers to (`lru_cache.h:54`). When that node comes to the end of the list,
  eviction erases the map entry of its key (`:49`), although the key may have been
  put again since: a key used recently is then forgotten, and its node becomes the
  next orphan. That is why the policy allows a cache crowded by exceptions to
  forget any one key. List and map still agree (`Sound`), and each exception costs
  one place at the most (`ExceptionsCost`).
* `Served` has three ways out. In `server.cc` and the proxy the loop of a port
  ends at its first error (`server.cc:197`), a passing one such as a lack of file
  descriptors included; `co.cc` ends the same way without any message, because
  the coroutine is detached. In `co_server.cc` the error leaves `run ()`: of a
  worker, and the server goes on with a thread less; of the main thread, and `main ()` unwinds
  past workers that are not joined, which is `std::terminate` and takes every
  session with it. Only the daytime server tries again.
* `ConnectionsSafe` excepts `co.cc`: the coroutine of a connection captures
  `this` (`co.cc:35`) and no shared pointer, so that the accept loop may destroy
  the connection while it writes, or before.
* `DeleterKept` holds with a narrow reading of `given`: `reset (p)` and a move
  replace the deleter of the handle, unlike those of the standard library, so
  that an object given to `reset (p)` is deleted by a default-constructed deleter
  whatever the handle had before. For a deleter that is a function pointer there
  is no such thing, and these operations do not compile.
* `EchoClient` has no property that the monitor stops the client only when all
  connections have been lost. It does not hold: `completed` is incremented
  before `connected` (`client.cc:66`, `:74`), so that the monitor may find
  everything completed and nothing connected while a handler is in between,
  and ends the program (`client.cc:229`). `MonitorGivesUp` says how little it can
  miss.
* `Ends` does not promise that the client ends whenever its last session is lost.
  A thread that fails to make its sessions (`client.cc:171`) never runs its
  io_context, so that `completed` may stay short of `connections`; the monitor then
  remains in its first loop (`client.cc:205`) until the user interrupts, although
  every running session is lost. `Ends` states what is left: the program ends if
  it is stopped, and if its sessions are lost and no thread has failed or the
  others have been enough.

## Not modelled

*DaytimeClients*, *StackfulCoroutines* and *DebugSnippets* have no state whose
order could go wrong; *ErrorCategories* are tables from error codes to conditions
and messages. Of *BasicTimers*, 01 and 02 wait once, 04 and 05 count to a limit
with handlers that run one after the other, and 03 has undefined behaviour in
every run (`basic/03/main.cc:18`), so that nothing is left to state.

Within the modelled components: a control block that cannot be allocated and a
conversion between types (hence SharedPtr is only *partly* modelled), and
destructors of managed objects that drop further shared pointers (UniquePtr has
that; there, `Clear` takes the pointer out of the handle before the deletion, as
`reset` and the assignments do, whereas `~unique_ptr` leaves it in
(`unique_ptr.h:104`), so that a destructor which uses the very handle that is
being destroyed is not modelled); data races on a timer or a deadline as undefined behaviour (the calls on
them are atomic here); a move into the optional that `pop` returns which throws
and loses the item; what a program does through a pointer that `get` returned;
what happens inside a connection of Servers: the session modules have that, one
session at a time, because sessions share nothing but the io_context.

## Plan

Done: the safety properties, the action properties and the refinements that the
runs check are theorems, and so is the safety part of what the liveness
properties say. What could be added:

1. Several sessions of a server at once, composed with its accept loop: Servers
   counts the handlers of a connection, the session modules say what they do.
2. Destructors of managed objects that drop further shared pointers, as UniquePtr
   has them, for SharedPtr.
