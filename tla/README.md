# Verification of MBUtility

MBUtility is a C++ utility library: header files with a thread pool, a blocking
queue, promises and futures, an object with a thread of its own, streams and
readers, containers, algorithms, matrices and file system helpers.  This
directory holds TLA+ models of its parts, the TLC configurations that check them
on small instances, and proofs that TLAPS checks for instances of every size.
`PROJECT.json` maps every definition to the lines it models, and lists the runs,
the properties, a mutation of the code each property detects, the hazards and
the theorems.

To check a run: `tlc -config PoolSafety.cfg MCThreadPool.tla`; to check a proof:
`tlapm ThreadPoolProofs.tla`.

## 1. Inventory

### Concurrent components

**ThreadPool** (`ThreadPool.h`).  State: the atomics `m_Stopping` and
`m_BusyThreads`; under `m_TaskMutex` the deque `m_Tasks` and the vector
`m_Threads`; two condition variables, `m_TasksAvailableConditional` for workers
and `m_TaskFinishedConditional` for `Join` and `AddWhenAvailable`.  Operations:
`AddTask`, `AddWhenAvailable`, `Join`, `Stop`, the destructor, and the worker
loop `p_TaskThread`.  It hands every task's result to a `std::future`.
Hard: `m_Stopping` is stored, and `m_BusyThreads` lowered, outside the mutex;
notifications are made one thread at a time, some after the unlock; a task may
call its own pool; a dynamic pool starts threads while it is used.
Correct when: the counter is the number of busy workers, no wakeup is lost, a
stop reaches every worker, a task is in one place until its future is settled
once, `Join` returns only when the tasks have run, calls return, destruction
ends and leaves nothing pending.

**TSQueue** (`TSQueue.h`).  A deque under a mutex and one condition variable;
`Enqueue`, `Emplace`, `PopFront` with and without a time limit.  Hard: a limit
that expires as the consumer is notified; a value taken by a consumer that never
slept.  Correct when: no value waits with a consumer asleep and nobody on the
way; false means that the limit has passed.

**Promise, Future** (`Future.h`).  A shared state with two atomics, `ValueSet`
and `ValueNotPossible`, read without the mutex, the value, two callbacks.
`SetValue`, `SetInvalid`, `~Promise`; `Wait`, `WaitFor`, `Get`, `GetRef`, `Then`,
`OnError`.  Hard: the flag is stored before the value; `WaitFor` sleeps without a
predicate and one waiter is notified; callbacks are registered while the value
is being set.  Correct when: `Get` sees the assigned value, all waiters agree,
a callback runs once, a waiter is woken.

**Async** (`Async.h`).  An object whose member functions run on one detached
thread; the state is shared by handle and thread through a `shared_ptr`.
`AddTask`, the thread, the destructor.  Hard: the destructor does not join; tasks
left in the queue are destroyed by whoever lets go last.  Correct when: calls
take effect in order, the state outlives the thread's use of it, every call is
answered or its future broken.

ThreadPool and Async give their callers standard futures, not those of
`Future.h`; ThreadPool, TSQueue, Future and Async do not call each other.  What
couples each of them with the rest of a program is the caller's threads and the
tasks and callbacks it is given, which the models contain.

### Sequential components

| Component | Source | State and operations | Where it is hard |
|---|---|---|---|
| StreamReader, indeterminate streams, adaptors | `StreamReader.h`, `IndeterminateInputStream.h`, `SearchableStreamReader.h`, `InterfaceAdaptors.h` | a buffer with offsets over a stream of unknown length; peek, read, skip, consume, seek | end of input, position after the buffer has been shifted, a stream that has read ahead |
| File and memory streams | `MBInterfaces.*`, `FileStreams.h`, `MBFiles.*`, `StreamUtils.h`, `InterfaceUtils.h`, `TextReader.h` | positions and buffers; read, write, seek | short reads, positions beyond the end |
| LineRetriever | `LineRetriever.*` | a chunk buffer, a finished flag, one peeked line | input that ends at a chunk's end; peek and discard |
| MBFIFOBuffer | `MBFIFOBuffer.h` | a byte buffer with a read offset | growth while data is in it |
| MBVector | `MBVector.h` | raw storage, size, capacity | which slots hold a live element, at every growth and shrink |
| Variants and holders | `Optional.h`, `DynamicVariant.h`, `StaticVariant.h`, `Dynamic.h`, `SmartPtr.h`, `CopyableUnique.h`, `MOFunction.h`, `Visiting.h` | which alternative is alive, who owns it | copy, move, reassignment |
| Algorithms | `MBAlgorithms.h`, `Merge.h`, `MinMax.h`, `Iterator.h`, `MBFunctional.h` | none | bounds of searches and merges |
| Strings | `MBStrings.h` | none | splitting and replacing at the ends and where matches touch, damaged codes |
| Filesystem | `Filesystem.*` | forwards to `std::filesystem` | which errors are reported |
| Matrices | `MBMatrix.*`, `MBMath.h`, `MBMathTemplateFunctions.h` | a matrix of numbers | row reduction without a pivot |
| Errors, random numbers, metaprogramming | `MBErrorHandling.*`, `MBRandom.h`, `Meta.h`, `TemplateUtilities.h`, `Context.h`, `PacketStream.h`, `MBCompileDefinitions.*` | records and types | nothing to check |

`PROJECT.json` gives each component's status and lists each hazard at its line.

## 2. Plan

1. *(done)* `ThreadPool`, with `TaskService` as the abstract specification it
   implements, and proofs of its counter and its wakeups.
2. *(done)* `TSQueue`, `Future` and their proofs; `Async`.
3. *(done)* Streams: `StreamReader` against `ByteReader`, with the searchable
   reader and the adaptor over it, and `LineRetriever` against `LineSource`.
   Where the manual (`Doc/IO.mbd`) or a header comment promises something else,
   a run that shows the difference.
4. *(done)* `MBVector` with a lifetime per slot, against `ValueLists`.
5. *(done)* The holders of one value against `Cells`: copy, move, reassignment.
6. *(done)* Algorithms against reference definitions: the binary searches, with a
   proof; merges; row reduction over a finite field; products and vectors.
7. *(done)* The memory and file streams of `MBInterfaces.h` with `WriteData`, and
   the functions of `MBStrings.h`.
8. *(done)* Theorems on `Async`, and on the pool: `TaskOwnership`, `JoinSettles`
   and the implementation of `TaskService`.
9. *(done)* Theorems on `WaiterNotForgotten` of the pool, `StorageOK` of the vector,
   `BufferOK` and `PositionFollows` of the reader, the merge, `WriteData`; the
   implementation of their abstractions by the reader, `LineRetriever`, the vector
   and the holders.
10. *(done)* The theorems on `MBMatrix.h`: the inverses, with the sums that a
   product of matrices is, the products, cross products and rotations; and those on
   strings that need no recursion, the codecs and `RemoveLeadingString`.

What is left to TLC, and why, is said at the end of section 6.

## 3. How the code is modelled

The concurrent modules share these conventions.

* A critical section of a mutex is one action.  Reads and writes of atomics
  outside it, the execution of a task, and notifications after the unlock are
  actions of their own.
* Sleeping on a condition variable is a program counter value.  `notify_one`
  moves one sleeper, any of them, to the state where it takes the mutex again;
  when nobody sleeps it does nothing.  A sleeper may also wake for no reason.
* Where a section stores an atomic that others read without the mutex, the
  section is split at the store (`Future.tla`), or nothing the others read in
  between can tell the difference (`ThreadPool.tla`: a section reads
  `m_Stopping` and `m_BusyThreads` at most once each before it acts on them).
* A task or callback is an identity; what it computes is left out, what it calls
  on its own pool is not.  Tasks return in the end.
* Threads, tasks and values are model values.  Each task is queued at most once,
  which bounds the state space without a bound in the code's place.

| Module | Models | State |
|---|---|---|
| `ThreadPool` | `ThreadPool.h` | the members by name; `wpc`, `hand`: where each worker is in `p_TaskThread` and what it executes; `call`, `arg`: where each caller is; `future`: what each task's future holds; `phase`, `joinList`: construction to destruction |
| `TaskService` | what the pool promises | accepted, running and finished tasks, users in `Join` |
| `TSQueue` | `TSQueue.h` | `m_Data`; each consumer's place in `PopFront`, whether its limit has passed, its result |
| `Future` | `Future.h` | the shared state by name; the promise's thread, the waiters |
| `Async` | `Async.h` | the shared state, the thread, who owns the state |
| `StreamReader` | `StreamReader.h`, `IndeterminateInputStream.h`, the adaptor of `InterfaceAdaptors.h` | the members by name, the stream's position, the iterator, the call in progress and what it has returned |
| `SearchableStreamReader` | `SearchableStreamReader.h` over `FileStreams.h` | the same |
| `ByteReader` | what a reader promises | a position, the call in progress with its argument, what it returns, an iterator's distance, whether the end was noticed and whether the call threw |
| `LineRetriever` | `LineRetriever.cpp` | the members by name, the stream, the call in progress and its search |
| `LineSource` | what it promises | the input, the position of the next line, the line fetched last and whether it is held, whether the end was reported, the call in progress |
| `MBVector` | `MBVector.h` | the members of each vector by name; the memory, slot by slot; what a call has still to push |
| `ValueLists` | what it promises | the list of each vector |
| `Holders` | `Optional.h`, `DynamicVariant.h`, `SmartPtr.h`, `CopyableUnique.h`, `Dynamic.h`, `MOFunction.h` | each object's value, what tells whether it is set, and where it lives; the last call |
| `Cells` | what a holder promises | a value or none per name |
| `BinarySearch` | `MBAlgorithms.h` | the limits, the container, what was looked at |
| `Merge` | `Merge.h` | how far each list is read, the merged list |
| `RowReduction` | determinants and inverses of `MBMatrix.h` | the matrix, its companion, the sign, the row dealt with |
| `Sums` | the loops that add or multiply a row | |
| `MatrixAlgebra` | products, vectors and quaternions of `MBMatrix.h` | one call: arguments and result |
| `MemoryStreams` | the streams and `WriteData` of `MBInterfaces.h` | position and failure of the input; content, position and visible part of the output; the copy in progress |
| `MBStrings` | `MBStrings.h` | the call, the text and the offset in it, what is built |
| `MCSequential` | | composes the modules of code that runs in one thread |
| `MC...` | | values of the constants for TLC |
| `...Proofs` | | theorems |

*ThreadPool.*  The worker loop is `Top` (loop test, unlocked), `Wait`, `Quit`,
`Take` (the section), `Run` (the task, in which the worker may itself be a
caller), `NotBusy` (the unlocked decrement), `Finish` (lock and notify) and
`Leave`.  `AddTask` is its section and `NotifyAdded`; `AddWhenAvailable` creates
the promise, then waits and queues; `Stop` is the store and then the section.
The destructor is `Destroy` (its `Stop`), `BeginJoin` (the loop takes the
vector's end) and `EndDestroy`; "terminated" is `~thread` of a thread the loop
did not join.  `Workers` bounds the threads ever started; `SpawnAssumption` says
that the bound never stops the pool from starting one.

*TSQueue.*  `Deadline` says that the limit has passed, at any moment, and
`Expire` wakes the sleeper.  As in the standard library's `wait_for`, the
predicate is tested once more after the last wakeup.  The 2^31-1 seconds of the
`PopFront` without a limit never pass.  `MaxLength` bounds the queue.

*Future.*  A section that stores one of the flags is two actions, up to the
store and the rest; while the promise's thread is between them no other section
runs (`MutexFree`) and unlocked reads do.  `MaxCalls` bounds the calls of
`SetValue` and `SetInvalid`.

*Async.*  `LetGo` drops a reference to the shared state; the last one destroys
it with the tasks in it.  A member function that throws ends the program.

*StreamReader.*  One thread; an action is one turn of a loop of the code, so that
the stream can end, or cut its bytes, at each of them.  `Fill` is
`p_FillBuffer`, `AddToBuffer` is `p_ExtendBuffer` (where the caller calls it)
and `p_AddToBuffer`.  A byte is its number in the input and a predicate is the
byte that fails it: the properties tell apart only where a byte comes from and
where a loop stops.  `Take`, `Stop`, `End` of several operations are one action
where their loops have the same body.  The client may call any operation of
`Calls` after any other, and keeps an iterator until it reads; reading through
an iterator afterwards is not defined by the code (its offset counts from a
start that has moved).  The stream is one of the library's: it returns at least
one byte until its end and 0 from then on.

*ByteReader.*  The call in progress and its argument are part of its state, and each
of its steps is a step of certain calls: only a call that reads returns bytes and
moves the position, by as many as it returns; only `SkipWhile` moves it without
returning the byte; a loop goes on at a byte that is wanted, and stops at the
first that is not, which `ReadLine` alone takes; a peek returns bytes and leaves the
position; a read of a full length (`Read`, `ReadExact`) returns short only at the
end, which is noticed nowhere else; a call throws only there; and the position goes
elsewhere only by a consumption, towards an iterator that stays where it is, and by
a seek, to where that seek says.  Refilling, shifting and growing
the buffer are no steps of it at all.  The mutants of `ImplementsByteReader` are a
`ReadByte` that stays, a `PeekByte` that takes, a loop that takes the byte it stops
at, a fill that drops what was not read, and a block read from the buffer's start.

*SearchableStreamReader.*  `streamPos` is also the stream's own position, which
`SetInputPosition` moves first; the client seeks to positions that exist for
reader and stream alike (`InInput`).  `arg` is then the position asked for, whatever
`whence` it was given with, so that `ByteReader` can say where the reader must be.

*LineRetriever.*  A byte in the buffer is its position in the input; the input is
any sequence of newlines, carriage returns and other bytes up to `TextLength`.
`BeginCall` is what a function does before it looks for a line (`DiscardLine` clears
the flag), and `searching` says that it is in the loop of `GetLine`.
`PeekLine` and `DiscardLine` are `GetLine` with its result in `m_CurrentLine` and
the flag set afterwards.  `LineSource` has the call in its state too: a held line is
returned by `GetLine` and `PeekLine`, and only the latter goes on holding it; only
`DiscardLine` drops one; a line is fetched only when none is held, and only
`GetLine` does not hold it.  A read returns a full chunk until the end, as
`MBOctetInputStream` documents.

*MBVector.*  An operation is a function of the vectors and the memory, made of the
functions of the code (`Reserve` is `p_Reserve`, `Swap` is `swap`) and of the
construction and destruction of elements in slots.  A slot holds a value or is
`Raw`; constructing in a slot that is not raw, destroying one that is, leaving a
block's end or freeing a block that is not whole and empty is recorded in
`fault`.  For a trivially copyable type, where the code uses `memcpy` and no
destructors, a slot keeps what was in it.  `type` is what the template arguments
decide and never changes.  `operator=` takes its parameter by value: `Param`
lives within the action.  Pushing a list or resizing is one action per element.
`IndexRange` is the number of values of `IndexType`, and sizes and capacities are
computed modulo it; `IndexAssumption` says that `IndexType` can count twice the
largest size: beyond that `p_Reserve` computes a capacity that wraps.

*Holders.*  A class is told apart by what its functions do, not by its layout:
`Optional` appears three times, since it uses `memcpy` for trivially copyable
types, no destructor for trivially destructible ones, and constructors otherwise.
`Spent` is the value of an object that was moved from and `Empty` that of an
object without one.  What a holder does that its cell would not (below, section
7) is in `Cells` as a call that is refused, and named there.

*BinarySearch.*  One turn of the loop is one action.  `strayed` records that an
element outside the container was read; what is there is `beside`, any value.
`MaxLength` keeps the sum of the limits an `int`.

*Merge.*  Equal keys are told apart by the list and place they come from, so
that stability is visible.

*RowReduction, MatrixAlgebra.*  The element type of the matrices is a parameter of
the code that must divide; the models take integers modulo a prime, where every
result is exact and every singular case occurs.  One step deals with one row.
The functions of the code (`SwitchRows`, `SubtractRow`, `DivideRow`, `StaticSwapRow`)
are operators.  "fault" is a division by 0.  `Divides` says of the modulus that
every number but 0 has an inverse, which is all the code asks of its `T`; the sums
and products of a row (`Sums`) are recursive functions, so that they can be
reasoned about.

*MemoryStreams.*  A byte is where it comes from.  What `std::ifstream` and
`std::fstream` do underneath (`eofbit`, `failbit`, the buffer before a flush) is
modelled from how the library uses them.  A behaviour moves, reads and writes the
streams first, in any order, and then copies one to the other with `WriteData`,
whose chunk of 4096 bytes is `ChunkSize`.

*MBStrings.*  One turn of a loop is one action.  Characters are their codes where a
codec looks at them, and letters elsewhere.  `npos` is beyond every position the
bounds allow.

*MCSequential.*  These modules do not interact; a behaviour chooses one of them,
its `part`, and leaves the variables of the others alone.  One state space then
holds them all.  The module extends those about which there are theorems (their
variables and operators have different names: `text`, `lineBuffer`, `lineCall`
belong to `LineRetriever`, `BinaryNext`, `MergeNext`, `HoldersNext`, `LineNext`,
`StreamsNext` are the steps of the parts, `Next` is the reader's) and instantiates
`MatrixAlgebra` and `MBStrings`.  `AnswersRight` and `CallsEnd`
conjoin what several parts promise.

## 4. Runs

| Run | Instance | What it shows |
|---|---|---|
| `pool_safety` | two threads, two clients, three tasks, every operation | the safety of the pool, and that it implements `TaskService` |
| `pool_dynamic` | no thread at first, up to three started on demand; the owner queues, joins and destroys, tasks queue tasks | in a pool that grows, during its destruction too, every task is run, and destruction ends |
| `pool_lifecycle` | two threads, an owner that waits and destroys, a client that stops, tasks that queue tasks | calls return, every thread ends, every pending task is settled |
| `tsqueue` | a consumer without a limit and two with one, two values, up to three queued | wakeups, the meaning of false, limits are kept |
| `future` | two `Get`, one `WaitFor`, two `Then`, two `OnError`, two calls of `SetValue` or `SetInvalid` | what waiters see, callbacks run at most once (`CallbacksOnce`); a waiter that is alone is woken |
| `async` | four calls, one of which throws | order, ownership, every call is settled |
| `sequential` | the parts of `MCSequential`, below | a search finds what is there (`SearchRight`), a copy is complete (`CopyComplete`), an inverse is one (`InverseRight`), the reader's buffer is a window of the stream (`BufferOK`); merges, determinants, products and strings give the right answers (`AnswersRight`); holders behave as cells (`ImplementsCells`); each call of `LineRetriever` returns, holds or drops the line it should (`ImplementsLineSource`); each call of a reader returns, passes over or leaves the bytes it should, in order and once (`ImplementsByteReader`), and `Position` follows; calls return (`CallsEnd`).  346,947 states |
| `vector` | two vectors of up to three elements, preallocated buffers of none or two, types trivially copyable or not; every operation | elements live in the slots they should, blocks have one owner, the vectors are the lists the operations make |

The instances of `sequential`:

| Part | Instance |
|---|---|
| `search` | every sorted container of up to five elements of four keys, every value, any neighbour |
| `merge` | three lists of up to two elements of three keys |
| `rows` | every 2x2 matrix modulo 5, the 3x3 matrices of zeros and ones modulo 3, matrices of two rows and one column |
| `algebra` | modulo 3: every pair of matrices with sides up to two; vectors and quaternions |
| `holders` | two objects of each of eight classes, three values of two types, every sequence of calls |
| `lines` | every input of up to five bytes, chunks of two, the buffer cut beyond offset two |
| `reader` | five bytes, a buffer of two at first; every operation, seeks to positions |
| `copy` | up to three bytes of input and of output, chunks of two, each pair of streams |
| `strings` | texts of up to seven letters, patterns and replacements of up to two; two bytes to encode; four characters to decode, of nine |

The runs that end in a violation, `reader_peek_position`, `reader_seek_cur`,
`vector_debug` and `variant_copy`, show where the code does something else than the documentation
or its own assertions say (section 7).

Why these bounds: the hazards need two workers (one that takes what the other was
woken for), a client in the middle of an operation while another calls, a queue
of two behind a running task, and a thread that sleeps while two others are
awake.  Three tasks and two workers give each of these with one task to spare;
three consumers let one be woken, one take the value and one stay asleep.  Where
the result matters for every number of threads it is proved (section 6).  With a
buffer of two, five bytes make a reader refill it, shift it, grow it to four and
beyond and meet the end with the buffer full, empty and part of each; five bytes
in chunks of two hold empty lines, a line over three chunks, a carriage return
and its newline in two chunks, and input that ends with a chunk or within one.
A copy of three bytes in chunks of two ends with a short chunk, one of two with
an empty read; an output of three is overwritten within, across its end and
beyond it.  A 3x3 matrix needs two switches and has rows that depend on others.
Seven letters hold three copies of a pattern of two and a rest, patterns that
overlap themselves, and a replacement that contains what it replaces.  Five
elements make a search narrow from each side and meet at each end; its property
is proved for every length.
With a buffer of two, a vector of three elements has grown out of it, and may have
shrunk again while it keeps its block; two vectors and the parameter of an
assignment are all that one operation touches.

Deadlock is not checked where an object's life ends or nobody has to call.

## 5. Fairness

`FairSpec` of each module assumes that a thread that can take a step in the code
of the library takes it in the end, and is granted a mutex it asks for in the
end (weak fairness of each thread's steps; no section waits inside a section);
that a task returns; and, for `TSQueue`, that time passes.  `Future` assumes that
the promise is destroyed in the end.  Nothing is assumed of spurious wakeups, and
nobody has to call an operation.
In `MCSequential` a call of the reader, a search or a function of `MBStrings` that
has begun goes on: they run in one thread, and nothing they wait for is outside
it.

## 6. Proofs

| Module | Theorem | Says |
|---|---|---|
| `ThreadPoolProofs` | `TypeCorrect` | types, the counter is never negative |
| | `CounterCorrect` | `m_BusyThreads` is the number of busy workers |
| | `NoWakeupLost` | no task is left queued with a worker asleep and nobody on the way |
| | `StopReachesSleepers` | no worker sleeps in a stopped pool unless a notify_all is to come |
| | `TasksOwned` | a pending task is in one place, any other in none |
| | `JoinWaitsForAll` | `Join` returns only when what was queued has its result |
| | `WaiterRemembered` | a single waiter is not left asleep when what it waits for holds |
| | `PoolImplementsService` | the pool implements `TaskService` |
| `TSQueueProofs` | `TypeCorrect`, `NoWakeupLost`, `FalseOnlyLate` | the safety of the queue |
| `FutureProofs` | `TypeCorrect`, `GetReturnsAssigned`, `Agreement`, `CallbacksRunOnce`, `LoneWaiterIsWoken` | the safety of the future |
| `AsyncProofs` | `TypeCorrect`, `CallsInOrder`, `StateOutlivesUsers` | the safety of `Async` |
| `ReaderProofs` | `BufferIsWindow` | the reader's buffer is a window of the stream, its offset lies in it |
| | `ReaderImplementsByteReader` | the reader implements `ByteReader`: each call reads, peeks, skips, stops and throws as that call should, every byte once and in order |
| | `PositionFollowsReads` | `Position` moves by what is read, and by a seek to where it says |
| | `LinesFollowInput` | `LineRetriever` implements `LineSource`: each call returns, holds or drops the line it should |
| `VectorProofs` | `StorageInOrder` | elements live in the slots they should, blocks have one owner |
| | `VectorImplementsLists` | the vectors implement `ValueLists` |
| `SequentialProofs` | `SearchCorrect` | the binary searches are right |
| | `MergeCorrect` | `MergeRight`: what `Merge` returns is sorted, stable and complete |
| | `WriteDataCopies` | `WriteData` copies everything, and nothing else changes |
| | `HoldersImplementCells` | the holders implement `Cells` |
| | `CodecsCorrect` | the encoders are right, and so are the errors the decoders report |
| | `RemoveLeadingCorrect` | `RemoveLeadingString` removes one or two leading copies |
| `MatrixProofs` | `InverseCorrect` | `InvertedMatrix` returns the inverse; `GetInverse` does for pivots in order, but for the pivots themselves |
| | `AlgebraCorrect` | `AlgebraRight`: products, cross products and rotations are right |

They hold for every value of the constants that satisfies the modules' assumptions
(as an `ASSUME`, or as a hypothesis where `MCSequential` states it of the instance):
any finite number of threads and tasks, any operations of each; input of any
length and chunks and buffers of any size; containers, lists and vectors of any
length; matrices of any size over the integers modulo any number that `Divides` allows.  Three
exclude seeks besides, since the code's positions are wrong after them (section 7,
run `reader_seek_cur`): `BufferIsWindow` and `ReaderImplementsByteReader` those from
the current position, after which the recorded position may be negative and the
bytes read next are not those at the position asked for, and `PositionFollowsReads`
all but those from the start.

*ThreadPool.*  The properties are proved together, since none is inductive
alone.  `TypeOK` needs `BusyCounted`: the decrement keeps the counter a natural
number because the worker that makes it is counted.  `HandsFull` (a worker holds
a task exactly in "run", a caller exactly in `AddWhenAvailable`) keeps what is
queued a task.  `NoLostWakeup` is an inequality between the queue's length and
the number of threads on their way to it: a task is appended by a caller that is
then counted as about to notify; a notification removes the caller and, if
anybody sleeps, adds a worker at the lock; a worker leaves the lock with a task,
or to sleep because there is none.  `StopWakesAll` holds since a worker goes to
sleep only after it has seen `m_Stopping` unset.

*The pool's waiter.*  `WInv` adds to that invariant where the callers of `Join` and
`AddWhenAvailable` can be (`WaitersUse`: with `OneWaiter` a second is never there).
What the waiter waits for comes true when a worker lowers `m_BusyThreads`: that
worker is then at "finish" and has the notification before it.  Whoever notifies
finds one sleeper at most, and wakes it.

*The pool's service.*  `OneEach` says, place by place, what `TaskOwnership` says
with one set: positions of the queue, hands and arguments hold different tasks,
and those are the pending ones.  A take moves a task from the queue's head to one
hand, the run of a task empties that hand and settles its future, and only a stopped pool
(`StopFirst`) drops its queue.  `JoinWaitsForAll` then follows from the counter:
with the queue empty and `m_BusyThreads` at 0 no worker is busy (`BusyCounted`),
so no hand is full (`HandsFull`), and what is pending can only be in an argument.
For the implementation the mapping is applied to each action: `Take` is `Start`,
with room for one more because the taker's hand is empty; `Run` is `Complete`;
`AddTask` is `Submit`; `AddWhenAvailable` is `Hold` and then `Release`; the store of
`m_Stopping` is `Stop` and the section `Drop`; a returning `Join` needs
`IdleMeansDone`; every other step leaves what the service sees unchanged.

*TSQueue.*  The same inequality, with consumers that return at their limit.

*Future.*  The invariant relates the promise's place in its section to the two
flags, the assignment and the number of times each callback has run.

*Async.*  The queue is what is left of the list of accepted tasks, the running task
is the one before it, and everything before that has its result (`Rest`);
`Ownership` says who holds the state, and that nothing is left in it when nobody
does.

*StreamReader.*  `IInv` says that the buffer is a run of the stream that ends
where the stream stands (`Window`), that an iterator of the client lies in it
(`IteratorInWindow`), that the stream has been read to its end once the reader
says so, and that nothing but a call that met the end throws (`EndReached`), and
that a call in progress has not yet returned all it was
asked for (`SeenLess`).  Each operator of the model takes a buffer that is
such a run to another: to fill it is to append the bytes that come next, to
shift it is to cut what was read, and what a call takes from it is what the
stream had there.  The position of `ByteReader` is the stream's less what is left
in the buffer; a fill leaves it, a take moves it.  The first byte in the buffer that
is not read is then the one behind the position (`FrontByte`), so that what a loop
tests is what `ByteReader` tests.  The implementation is one lemma per kind of step
(`ReadingMaps`, `PeekingMaps`, `EndMaps`, `IteratorMaps`, `SeekMaps` and others), each
of which splits on the call in progress; a fill maps to a stutter, or to the end
being noticed when the stream returned nothing, with nothing left in the buffer.

*LineRetriever.*  The buffer is a window of the stream (`LineWindow`); the part that
has been searched holds no newline (`Searched`), and the byte before the part
that is left, when it is still in the buffer, is one (`AfterNewline`), so that a line
never begins in the middle of one.  What is returned therefore runs from a
line's first byte to the first newline behind it, or to the end of the input.  Once
the end has been reported nothing is left to search (`Over`), so that only an empty
buffer reports it again.

*MBVector.*  `IInv` is `TypeOK` and `Fine`: each vector alive owns its block alone
(`Owned`), holds elements in the slots up to its size and nowhere else, in the
place `p_GetData` points to (`InPlace`), and the call in progress has room for
what it has still to push.  Nothing is said of a behaviour that has ended in one of
the faults of section 7.  `IInv` is stronger than `StorageOK`, which says nothing of where
the pushes of an unfinished call end.  For each operator (`Reserve`, `Erase`,
`Swap`, ...) a lemma says that it takes a state in order to another, changes the
vectors it is given and no others, and what their elements are then; the
actions, and the lists they stand for, follow from these.  `Swap` has three
cases, as in the code: two blocks, one block and one preallocated buffer, two
buffers.

*Holders.*  Every object is `Sound` (what tells whether it is set agrees with what it
holds), and each call on sound objects is one of `Cells` and leaves them sound.

*Binary searches.*  What is at or before `LowerLimit` is less than the value, what is
at or behind `UpperLimit` is greater, and the limits are at least two apart at the
start of a turn, so that the guess is strictly between them and in the container.

*Merge.*  The merged list is in order and before every element that is left in the
lists (`MergeInv`); the step takes a least head, the first of those that are equal,
and so appends what is not before the list's last element.

*WriteData.*  Between two chunks the output holds the first bytes of what was left
of the input when the copy began, the input stands behind them, and the rest of
the output is what was there (`CopyInv`); a chunk moves the boundary.

*Matrices.*  What every step keeps is `Tracks`: the companion times the original is
the matrix.  A row operation makes each row a combination of two rows with the
same coefficients in both, and sums modulo the prime are linear, so the product
follows (`RowsCombine`).  That the matrix ends as the unit needs its shape, column
by column: `DynamicForm` says that the columns before `row` are 0 below the diagonal
and, in the second pass, 0 above it and 1 on it.  For the static functions `StaticForm` says
that the recorded pivots are the first numbers that are not 0 in their rows, and 0
in the rows below.  When a sort switches nothing they ascend, and distinct
ascending columns of a square matrix are the diagonal; otherwise the
invariant says nothing, as the property does.  The library's induction theorems cannot be
used here; the lemmas about sums argue from the least number for which a sum would be
wrong (`LeastOf`, `FromZero`), and unfold the recursive function by exhibiting
the function of partial sums that satisfies it.

*Products and rotations.*  When the sides fit (`InnerFits`), no index leaves its
matrix and a sum has the terms it should.  What a quaternion of length 1 does is first
shown of integers (`Rotates`): the columns of its matrix have length 1 and
are perpendicular, and the first times another is the third, modulo the prime; each
of these identities of polynomials differs from an equality by a multiple of
the quaternion's norm less one.  That the inverse undoes the rotation, which keeps
lengths and cross products, follows from them, and the elements of the matrices the
code computes are the remainders of those integers.

*Strings.*  What an encoder has put out are the digits of the bytes before the
position (`EncodeInv`).  A decoder in its loop has met no error, and every percent
sign before the position starts a complete escape (`DecodeInv`): the position never
stops inside one, because its digits are no percent signs.  `RemoveLeadingString`
has passed no copy but those that lead the text, up to the third (`RemoveInv`).

Out of the prover's reach and left to TLC: the liveness properties (`CallsEnd`,
`CallsReturn`, `DestroyEnds`, `TasksSettle` and the others of the runs), which need
fairness.  Only model-checked as well: the other parts of `AnswersRight`, which are
`DeterminantRight` (the reference is a sum over all permutations, defined by recursion
over a set) and the rest of `StringsRight`: `Split`, `ReplaceAll`, `RemoveDuplicates` and
the bytes that are decoded are compared with definitions that flatten sequences or
select from them, by recursion over the text.  So are
the runs that end in a violation, each of which is its own counterexample.

## 7. What the code does not promise

The models show, and some properties therefore exclude, these behaviours of the
code.  No document of the repository says otherwise of them.

* Two threads that wait on `m_TaskFinishedConditional` share one-thread
  notifications: a worker that finishes may wake the wrong one, and the other
  sleeps on.  `WaiterNotForgotten` and `CallsReturn` are for one (`OneWaiter`).
  The same holds for two threads in `Future::Get`; there the properties are for a
  waiter that is alone.
* `Stop` empties the queue without notifying a `Join`, which may then sleep for
  ever if the workers have left already.
* `AddTask` accepts tasks after `Stop`; their futures stay pending until the pool
  is destroyed.
* A task of a dynamic pool that calls `AddTask` during the destructor can start
  a thread that nobody joins; the program then terminates.
* `AddWhenAvailable` waits for ever in a pool that has no thread, and does not
  compile for a task without a result.
* `SetInvalid` by hand leads to a second call of the error callback from
  `~Promise`; after `SetInvalid` and `SetValue` waiters may disagree.
* `Async` ends the program when a member function throws, where `ThreadPool`
  passes the exception to the future.

Some behaviours of the streams differ from what the documentation says.  Two are
the counterexample of a run and a finding in `PROJECT.json`:

* A peek that has to extend the buffer drops the bytes read so far without
  counting them, so that `Position` goes back (`reader_peek_position`).
* `SEEK_CUR` moves the stream from where its read-ahead ended and the recorded
  position from where the reader is (`reader_seek_cur`).

The others show in the definitions:

* `SEEK_END` records position 0 (`SetInputPosition`).
* A finished stream returns 0 again where the comment of
  `IndeterminateInputStream` requires an exception (`Chunk`, `End`).
* `Read` of `NO_IndeterminateToRegular` throws at the end of the input (`End` of
  a `ReadExact`), where the manual's `MBOctetInputStream` never throws.

The assertion of `MBVector`'s Debug mode fails for a copy of a vector of
trivially copyable elements: its second copy of the elements is empty
(`vector_debug`, a finding).  It fails likewise for the first push after `clear`.

And without a document that says otherwise:

* `MBVector::clear` destroys the first element once per element.  `StorageOK`
  excepts a `clear` of two or more elements of a type with a destructor ("twice").
* `emplace_back` of an element of the vector itself reads it after it has been
  moved and its memory freed, when the vector grows ("dangling").
* Copying or assigning a `DynamicVariant` loses the value, though its assertion
  says that variants of copyable types are copyable (`variant_copy`, a finding).
* An `Optional` of a type that is trivially destructible but not trivially
  copyable, such as `std::pair`, stays set when an empty one is assigned to it.
* The inverse and the determinant of a static matrix are right only when the
  pivots come out in order, and the rows of the inverse keep their pivots; a row
  of zeros is divided by 0.  `InverseRight` and `DeterminantRight` say so (`InOrder`).
* The product of dynamic matrices takes the longer outer side for the inner one,
  and that of static matrices is right for square ones (`AlgebraRight`).
* The binary search with a comparison reads the element before the first when all
  are greater, and elements of an empty container (`Callable`).  The sum of the
  limits overflows beyond 2^30 elements.
* A seek before the start of a file sets `failbit`, which nothing clears: the
  input then counts as read.  `MBFileOutputStream::Write` and `SetOutputPosition`
  return no meaningful value; `WriteData` of a string does not flush.
* `RemoveLeadingString` goes wrong from the third copy on: it skips text or
  throws (`RemoveLeadingRight` is for two).  `Split` and `ReplaceAll` do not end for
  an empty pattern.  The decoders take the letters P to Y for digits 0 to 9
  (`Digits`).
* An element whose constructor throws in `push_back` or `emplace_back` stays
  counted; `operator=` of an initializer list returns no value.  Neither is
  modelled.
* `PeekWhile` does not return at the end of the input while its predicate holds;
  `CallsEnd` excepts exactly that.
* `LineRetriever` returns an empty line after the last one when the input is
  empty or ends with a newline at the end of a chunk.  `DiscardLine` with no
  buffered line reads one and keeps it; `PeekLine` at the end makes the next
  `GetLine` return an empty line.  `LineSource` allows for these.

## 8. What is not modelled

* `WaitContext` (`Future.h`): its `m_State` is never given a value; no call of it
  has defined behaviour.
* `~TSQueue`: legal only when nobody is blocked, and then it has no effect.
* Moving promises, futures and pools: a move renames the owner.
* Readers that only forward (`IndeterminateInputStream_Ref`, the non-owning
  adaptors), iterators used after a read, and `m_CurrentLineIndex`.
* `MBFIFOBuffer`: each function is one call of `std::deque`; nothing uses it.
* Filesystem: its variable is the current directory; every operation joins a path
  to it and asks `std::filesystem`, so that a model would be one of that library.
* Of the holders: `StaticVariant` and `Visiting` (dispatch at compile time),
  `CopyableUnique`'s copy assignment, which returns no value, the assignment of
  a named object to a `DynamicVariant`, which stores a reference, and
  `Optional::GetOrAssign`, which does not compile.
* Of the matrices: angles, norms and `Slerp` (floating point), the sum and
  difference of dynamic matrices, which return no value, and the product of
  quaternions, which does not compile (`MBMatrix.h`, line 1597).
* Of the algorithms: `Merge_NoDuplicates`, which returns an empty list; `MinMax`,
  `Bitwise` and `MBFunctional`, which are single expressions; iterators, which are
  adaptors of the caller's functions.
* Of the streams: the terminal, the whole-file helpers of `MBFiles`, adaptors
  that only forward.
* Of `MBStrings`: `HexEncodeInt` and the tests of single characters.
* Of `MBVector`: comparison, iterators, the allocator's state.
* Errors, random numbers and metaprogramming: no behaviour to check.
