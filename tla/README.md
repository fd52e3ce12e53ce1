# SerLib2 in TLA+

SerLib2 (`src/serialisation/`) is a C++ serialisation library. A user's class
describes itself in a template member `OnSerialise`; a *message* object walks
that description and either writes the members to a stream or reads them back.
This directory holds TLA+ models of the library, the TLC runs that check them
and TLAPS proofs about them. Paths below are relative to
`src/serialisation/`; `I/` stands for `include/serialisation/`.

## 1. The system

| Component | State | Operations | What is hard about it |
|---|---|---|---|
| `MixedBarrier`, `SpinLock` (`I/internal/barrier.h`, `spinLock.h`) | spaces left, generation, two condition variables that swap roles, spin lock | `Wait`, `NotifyAbort`, `SetSize` | lock-free spinning next to sleeping; lost wakeups; reuse; abort |
| `ParallelFloatProcessor` (`I/internal/parallelFloatProcessor.h`, `src/internal/parallelFloatProcessor.cpp`) | one instance, workers, task, cursors, counter, stop flag | `SerialiseFloats` and three siblings, `TerminateWorkers`, `GetInstance` | plain shared members protected only by the barrier protocol; termination |
| Buffered streams (`I/stream/bufferedStreamReader.h`, `bufferedStreamWriter.h`, `streamReader`, `streamWriter`) | buffer, buffer index, stream position, EOF flag | `ReadBytes`, `ReadBlock`, `ReadPrimitive`, `ReadSize`, `Skip`, `ClearBuffer`, `WriteBytes` | two levels of buffering; handing a stream from one message to the next; truncation |
| Binary deserialise message (`I/internal/message/binary/binaryDeserMessage.h`) | last header, pending members, arrays kept for later, clean-exit flag | `Store` of every kind, `ReadArrayHeader`, `SkipVariable`, ... | members in another order than the reader asks for, missing or unknown members, nesting, errors half-way |
| Binary serialise message (`I/internal/message/binary/binarySerMessage.h`) | none but the stream | `Store`, `StoreVector`, `StoreObject`, `StoreObjectVector`, `Enter` | the token grammar the reader depends on |
| Packed object vectors (the header and value messages in the same two files) | cached headers, position in them, pending members | the same calls, per element | one list of headers for all elements; elements without headers or Terminator |
| Pending arrays, memory pool, stack (`pendingVariableArray`, `memoryPool.h`, `stack.h`) | free lists, stack of arrays per object depth | push, pop, grow | acquire and release in pairs across errors |
| Type conversions (`I/types.h`, `I/util.h`, `I/exceptions.h`) | none | assert that types match, zigzag, header packing | widening, sign, missing members |
| Float codec (`src/util.cpp`) | none | `FloatToUInt32`, `DoubleToUInt64`, inverses, `LDExp`, `FRExp` | denormals and exponents at the edge, rounding, the last bit |
| Boolean packing (`binarySerMessage.h:189-240`, `binaryDeserMessage.h:453-530`, `:671`) | none | pack eight to a byte, unpack, skip | rounds of the buffer, the tail, three counts of the same bytes |
| Facade (`I/message.h`, proxies, `SerialisationHelper`) | the proxy of the current object | `Serialise`, `Deserialise`, index bookkeeping | generated from templates, no control of its own |
| Compile-time integers (`I/serialisation.h`) | none | `VarInt`, `FromVarInt`, `VarIntSize` | must agree with `WriteSize` and `ReadSize` |

How they interact: a message owns a buffered stream and forwards to it; it
hands arrays of floats and doubles in blocks of at most
`SERIALISATION_FLOAT_BUFFER_SIZE` elements to the one `ParallelFloatProcessor`,
whose caller and workers meet at a `MixedBarrier`. Nothing else in the library
is concurrent. The reader's control flow is driven by what it finds in the
stream: it remembers members that come too late in a set of pending members and
skips those nobody asked for.

What makes each correct: nobody leaves the barrier before all have come, nobody
waits for ever, an abort frees everyone; every call of the processor converts
all of its block and only that, and termination ends; a message reads every
value that both classes have into its own member whatever the order, consumes
exactly one message, throws only for a reason and gives everything back; the
streams are a transparent sequence of bytes however they are shared; an array
is filled by one call at a time; every value has an inverse on the wire. The lines
at which each of these is at risk are the hazards of `PROJECT.json`.

## 2. Modules

```
AbstractBarrier <--refined by-- MixedBarrier <--INSTANCE-- ParallelFloatProcessor
                                  ^     ^                          ^
                     MCMixedBarrier  MixedBarrier_proofs <-- ParallelFloatProcessor_proofs

BinaryFormat <--EXTENDS-- BinarySerMessage, BinaryDeserMessage
                              ^         ^
                              BinaryRoundTrip (INSTANCEs both) <--EXTENDS-- MCBinaryRoundTrip
                                 ^
                                 BinaryFollow <-- BinaryRoundTrip_proofs <-- BinaryFollow_proofs

ByteSource <--refined by-- BufferedStreams --EXTENDS--> BufferedStreamWriter
                             |     ^
                             |     BufferedStreams_proofs
                             +--INSTANCE--> BufferedStreamReader

ArrayCalls <--refined by-- PendingArrays --EXTENDS--> MemoryPool
                                ^
                                PendingArrays_proofs

ZigZag <-- IntegerCodec <-- BooleanCodec <-- ValueStream <-- MCValueStream
   ^                                             |    ^
   +--- FloatCodec <-------------INSTANCE, twice-+    |
             ^                                        |
             FloatCodec_proofs <--INSTANCE, twice-- ValueStream_proofs
```

`BinaryFollow` describes no code: it says how a reader that is in step stands to
the writer's history, which is what the proofs about both messages need.

Some operators have a neighbour whose name adds what is wrong with it
(`Refill_OneShort`) and whose comment starts with "Slip": plausible bugs that
show that the properties can fail. No action uses them.

### `MixedBarrier` (with `SpinLock`)

One action is one access to shared memory; `pc[t]` names the access a thread
does next in `Wait`. `Enter` is lines 75-77 of `barrier.h` (the snapshot),
`Decrement` line 79, `Refill`/`LockBump`/`Bump`/`Swap`/`Notify`/`UnlockBump` the
last arrival (81-86 and `Reset`), `SpinLeave`/`SpinGiveUp` the spin loop,
`LockPark` to `UnlockPark` the lock and the two halves of the predicate of the
condition variable, `Sleep` the atomic release-and-block of `wait`, `Relock` its
return, `CheckAbort`/`TellAbort` the end of `Wait`, `AbortNotify`/`AbortBump`
`NotifyAbort`. The 16000 rounds of the spin loop are a free choice to give up.
`SetAborted` is the client's store to its flag. The client is the one the class
has: threads that call `Wait` for ever, one of which may abort between two of
its calls. `AbstractBarrier` says what `Wait` promises and nothing about how:
the last arrival releases everybody, and only an abort does otherwise.

`GenerationModulus` and `SnapshotModulus` stand for 2^w of `mGeneration`
(`atomic_uint_fast32_t`) and of its snapshot (`uint32_t`). Values as small as 3
are enough to wrap around, because a waiting thread is at most one generation
behind (`RecentInv`). `InitialGenerations` is what the uninitialised counter
may hold. `SetSize` has no caller and is not modelled.

### `ParallelFloatProcessor`

Thread 0 is the caller, threads 1.. the workers; `ppc[t]` is what a thread does
next, and while it is `"inWait"` it takes the steps of the `MixedBarrier`
instance. Each access to a shared member is an action: `ResetCounter`,
`SetTask`, `CallWait`, `OwnSlice`, `WaitTaskComplete` for the caller,
`TestStop`, `SwitchTask`, `CountDone` for a worker, `Clip` and `Convert` for a
kernel (one element per step), `SetStop`, `NotifyAbort`, `JoinAndDelete` for
`TerminateWorkers`, `GetInstance` and `SpawnWorker` for the start and the start
again. `ProcessorAssumption` is what the constants of the code satisfy,
`BarrierAssumption` what the barrier in it needs. The result of a conversion is
abstracted to "which task, from the source of this call or not": what matters is
who converts which slot and when.

### The binary messages

`BinaryFormat` defines tokens (header, size, value). A class is the sequence of
the `Store` calls of its `OnSerialise`; a value is known by the path of indices
that leads to it, so a value that ends up in the wrong member is seen.
`BinarySerMessage` writes: the recursion through `OnSerialise` is the stack
`calls`, one action per `Store` call. The elements of a packed vector are
written as one list of headers and bare values; `as` says which message writes.
`BinaryDeserMessage` reads: `frames` is the C++ call stack; `at` is the place in
`StoreTemplate` or `ReadRemaining`. `StoreKept`, `StoreLater`, `ReadHeader`,
`ReadNow`, `StoreFound` and `StoreOther` are the branches of `StoreTemplate`,
`RemainingKept`, `SkipUnknown` those of `ReadRemaining`; the `Read...` and
`Skip...` actions are the functions of those names; `ReadPackedVector` to
`ElementRead` are the cached headers and the value message of a packed vector;
`RejectType` and `FillReadBufferFails` are the exceptions, which unwind all
frames at once and leave arrays and flags as they are. `Destroy` is the
destructor. `BinaryRoundTrip` joins the two: the writer's stream, or a prefix of
it, is what the reader gets.

Abstractions: a stream is cut between tokens, not inside one (inside one, a read
fails at the same `FillReadBuffer`); a block of numbers cut short is delivered
as far as it goes, as in the code; the two steps of skipping a string, its size
and its characters, are one. Writing comes before reading. Values are not
converted. Where the code would go on with garbage (`OutOfStep`: one kind of
token is taken for another; `Overrun`: a header behind the end of `mIndices`)
the model stops, and `NeverMisreads` says exactly when that may happen.
`FormatAssumption` states what the interface demands: members of the kinds that
`Message::Store` knows (`Member`), distinct indices within a class, and no vector of primitives inside the elements of a vector of objects,
since such a class does not compile (`binarySerMessage.h:364` has no template
argument for `WriteArrayHeader`). `DepthAssumption` says that `MaxDepth` is no
bound on the code: a class of the model has the sizes of its vectors fixed, so it
stands for the shape of one object, which is finite; `MaxDepth` counts its levels.

### The buffered streams

`BufferedStreamReader` models the reader and, from the C++ standard, the part of
`std::istream` it uses: `read`, `gcount`, `seekg`, `clear`, `eofbit` and
`failbit`, both for streams that can be sought past their end (files) and those
that cannot (`stringstream`). `ReadBytes`, `FillReadBuffer`, `FinishReadBytes`
are the loop of `ReadBytes`; `ReadPrimitive`, `ReadBlock`, `Skip`, `ClearBuffer`
the functions. `BufferedStreamWriter` is the counterpart; `PassOn` lets the
`ostream` hand on bytes whenever it likes. `written` numbers the bytes, so that
an overtaken byte is seen.

`BufferedStreams` composes the two over one stream: the writers take turns
(`Write`), the stream is opened once they have cleared their buffers (`Open`),
and the readers take turns on what is visible then (`Read`), as messages do.
`ByteSource` is the abstract specification: one sequence, one position. The
refinement maps the bytes of an answer through `file`, so that it speaks of what
was written and not of what the reader believes to be there.

### Pending arrays, memory pool and stack

`MemoryPool` has `Create`, `Destroy` and the assertion of the destructor over
blocks, free list and heap. `PendingArrays` has the calls that use it: `Enter`
and `Leave` (`Push` and `Pop` of `stack.h`, with its growth), `Throw` for an
exception that leaves all calls, of the library (which clears `mCleanExit`) or
of the class that is read (which does not), and `Delete`, the destructors of
message and pool. `ArrayCalls` is the abstract specification: a stack of
distinct arrays, of which each call sees its own again.

### Values on the wire

`ZigZag`, `IntegerCodec`, `BooleanCodec` and `FloatCodec` are operators, each a
translation of a function: the header byte, sizes of variable length, the same
for constants, the casts between integer types, packing of booleans in rounds of
the buffer, and floats. `FloatCodec` works on the bits of a format of any width:
`Nearest` is the rounding of the processor, `Times` a product with a power of
two, `LDExp`, `FRExp`, `ToWord` and `FromWord` the code. What the conversion of
an infinity to an integer yields is undefined in C++ and a choice here.
`ValueStream` makes one exchange of them: an item is written, then read by a
member of any type of its kind, or skipped. The recursion in these modules is
by functions, as they are evaluated on small numbers only.

The widths are scaled down: a byte has 5 bits, of which 3 are the type, a
`size_t` 13 bits, the first part of a `VarInt` 2 bytes, the buffer of booleans
2 bytes; a float has 5 bits of exponent and 4 of precision, a double 6 and 6.
A word of any width is one element of the wire: the code copies words as they
are in memory and has no byte order.

## 3. Runs

| Run | Bounds | States | What it shows |
|---|---|---|---|
| `barrier` | 3 threads, 3 generations | 34464 | `IInv` (below); the barrier implements `AbstractBarrier`; without an abort every `Wait` returns; an abort frees every waiting thread except one about to sleep |
| `barrier_abort_hang` | the same | violated | `AbortFrees`: the exception is real (finding 1) |
| `barrier_wide` | counter of 3 bits, snapshot of 2, two rounds | violated | `MetAtBarrier` (finding 2) |
| `processor` | 3 threads, buffer of 6, blocks of 1, 3, 5, 6, two tasks, termination and a new instance | 209541 | every call converts all its elements from its own source with its own task; no two threads convert one slot; workers are out of the way while the caller owns the members; calls return; `mCurrentCon` is not read while it is swapped; termination completes unless a worker is about to sleep |
| `binary_orders` | up to three members, nesting of 3; two members of eight kinds | 655383 | round trip, step with the stream, justified exceptions and live closures for every order and subset of members on either side, with vectors plain and packed; what fits is read, what does not is rejected, at once or through a closure |
| `binary_failures` | two messages, three reads, cut after any token | 27857 | exceptions at any point: arrays come back, a dead message stays dead, a clean one is as good as new, every `Enter` returns |
| `binary_packed_skipped` | one packed vector, skipped | violated | `InStep` (finding 3) |
| `binary_packed_thrown` | one packed vector, wrong element type | violated | `ArraysReturned` (finding 4) |
| `streams` | two writers, two readers, buffers of 3, pieces up to 7, streams of 0, 3, 5, 7 bytes, calls of 0, 1, 2, 4 | 134568 | nothing lost, doubled or overtaken; all visible between messages; the readers together are one `ByteSource` of what was written; `ReadBytes` ends |
| `values` | all sizes of 13 bits, integers around zero and the ends of their types, all floats of 8 bits, doubles of 11, up to 25 booleans | 31159 | what is written is read, by every member that accepts it, up to the losses that `ValuesKept` and `FloatsKept` name exactly; writer, reader and skipper count the same bytes; the compiler agrees with `WriteSize` |
| `values_denormals` | all floats of 8 bits | violated | `FloatsAsTested` (finding 5) |
| `arrays` | blocks of 2, two of them, 3 addresses of the heap, 7 calls | 1317 | no array has two users; each call finds its own again; the assertion of the pool fails after exceptions of classes alone, and only then |

Why the bounds are enough. Barrier: with three threads one can be the last, one
spinning and one asleep, in two neighbouring generations, and no thread is ever
further behind; the theorems of section 5 remove the bound for safety.
Processor: blocks below and above the threshold, shorter than, equal to and
longer than a slice, two calls of different tasks after each other; more
workers only repeat the roles. Messages: the reader distinguishes a member that
comes at its turn, earlier, later or never, one that is pending or not, and
whether it is inside a skipped or an unskipped object; three members and three
levels give every combination, and two elements of a vector are enough for one
to disturb the next. Streams: sizes below, at and above the buffer, and a stream
that ends inside, at and behind the buffer's edge. `MaxMessages`, `MaxReads`,
`MaxDepth`, `MaxBytes`, `MaxArrays`, `MaxWaits` and `WithinSkips` (no skip once the end has
been passed) bound what would grow without end. Values: with five bits in a byte a
size takes one to four bytes, so that both parts of a `VarInt` and the byte that
it loses occur; the vectors of booleans reach into a third round of the buffer, with and
without a tail; `FormatFits` says which formats of floats behave like the real
ones (`LDExp` reaches every exponent in three steps, one boost makes a denormal
normal), and the small ones are among them. Arrays: seven calls exhaust the
first block and the second, reach the heap, and make the stack grow three times.

`CHECK_DEADLOCK FALSE` stands where the system really stops: the barrier and the
processor after an abort that loses a wakeup, and `barrier_wide`, whose threads
stop after `MaxWaits` rounds.

## 4. Fairness

- Barrier and processor: weak fairness of each thread's steps. The operating
  system runs every thread, and the spin loop gives up by itself. Threads come
  back to the barrier (`Enter` is fair too), as workers do in their loop; a `Wait`
  cannot return before the others come. The spin lock
  is not fair; that a thread gets it eventually follows because only finitely
  many threads compete for it between two openings, provided that spurious
  wakeups do not go on for ever, which `FairSpec` assumes: each one takes the
  lock, and an endless series of them could starve another thread.
- Messages: weak fairness of the reader's steps. One thread runs a call to its
  end; nothing else can hold it up, as the stream answers each read. The caller
  need not call anything.
- `streams`: weak fairness of the steps of each reader's `ReadBytes`, for the same
  reason. The writer has no loop and needs none.
- `values` and `arrays` claim no liveness.

## 5. Proofs

`MixedBarrier_proofs`. `BarrierInvariant`: `Spec => []IInv`, for any finite set
of two or more threads, aborts or none, if the counter is no wider than its
snapshot (`Narrow`); without that the theorem is false (finding 2).
The property of interest is the refinement, and `IInv` is what makes it
inductive: `SpacesAccounted` ties the atomic counter to the set of threads that
have arrived, `OneOpens` gives the last arrival sole charge of the barrier until
it moves the generation, `SnapshotInv` and `RecentInv` keep every snapshot at
the current or the last generation, `LockInv` says who holds the spin lock,
`NoLostWakeup` on which variable a thread sleeps and who is about to notify it,
`SpacesAborted` that after an abort nobody becomes the last. There is one lemma
per conjunct (`TypeStep`, `LockStep`, ...), with one step per action.
`BarrierRefinement`: `Spec => AB!Spec` under the same assumption; `RefinementStep`
maps each action to a step of `AbstractBarrier` or a stutter. `Bump` is the
interesting one: it is where all threads are released at once.

Three more lemmas (`WaitMoves`, `ReleasedStep`, `ReleasedKept`) say what a client
can rely on: which steps release threads, all at once, and that a released
thread stays so until it returns from `Wait`.

`ParallelFloatProcessor_proofs`. All safety properties of the processor, for any
number of threads that divides the size of the buffer, any threshold, blocks
and tasks, with or without termination, under `B!Narrow`: `ProcessorTypes`,
`ProcessorConverts` (`CompleteResult`), `ProcessorOwns` (`WorkersQuiescent`),
`ProcessorSlots` (`DistinctSlots`) and `ProcessorConPointer`. They follow from
`ProcessorInvariant`: `Spec => []ProcessorInv`. `SlicesDisjoint` and
`SlicesCover` are the arithmetic: the slices partition the buffer. The argument
of the invariant:

- `PlaceInv` couples the two program counters, so that the barrier's own
  invariant, `B!IInv`, and its lemmas hold for this client (`SameInv` and
  `SameSteps` carry them over from `MixedBarrier_proofs`, instance `BP`).
- A call that needs the workers is in progress (`CallerBusy`) from the step that
  releases all threads from the barrier until the caller has counted the
  workers. In it a worker is `Pending` or has counted itself:
  `mCounter + Cardinality(Pending) = Size - 1` (`BusyInv`). The release makes all
  of them pending at once; `CountDone` moves one over.
- Between calls nobody is released and no worker works (`QuietInv`), which is why
  the caller may reset the counter and write the plain members (`CounterInv`,
  `DataInv`).
- `KernelInv` says which elements a kernel still has to do, and `Frontier(t)` how
  far the slice of `t` has come: below it, and below the size of the block,
  everything is converted from this call's source, above it nothing is
  (`ResultInv`). When the counter is full all frontiers are at the ends of their
  slices, and by `SlicesCover` the block is complete.
- `StopInv`: after an abort nobody converts and nobody opens the barrier.

There is one lemma per action, with one step per conjunct it can disturb.

`BufferedStreams_proofs`. Of the writers alone `WriterInvariant`, `WriterInOrder`
and `WriterVisible`: for any writers, buffer size and block sizes, the file, the
stream and the buffer in use concatenate to the bytes written (`InOrder`), and
between two messages the file alone does (`AllVisible`). `Settled` (nothing is
held by the stream between messages) is the strengthening `AllVisible` needs.

With the readers `StreamsInvariant`, and from
it `StreamsTypes`, `StreamsInOrder`, `StreamsMirror` (`BufferMirrorsStream`) and
the refinement `StreamsRefineSource`. `StreamsInv` is the writers' invariant,
`PhaseInv` (which side is in use, and that the stream is what was visible) and
`ReaderInv`: `StreamInv` ties the position, the flags and `gcount` of the stream
to each other, `BuffersInv` bounds the buffers, `MirrorInv` says that the buffer
is the piece before the position, `RequestInv` and `AnswerInv` that what an open
call has collected, and what it has answered, are consecutive bytes. There is one
lemma per call; `ToldIs` is what `tellg` gives after a short read.

`PendingArrays_proofs`. `NoSharedArray` (`OwnArrays`) and `Refinement` (of
`ArrayCalls`) for pools and depths of any size and any exceptions. The invariant
says that the free list has no array twice and none that is in use
(`AvailableInv`), that the stack holds the arrays of the outer calls in order
(`StackInv`), and that the arrays of all calls differ (`ArraysInv`).
`Types` and `ExactAssertion` (`AssertionExact`) need it together with two more
parts: `AccountInv` counts, every object of the pool is available or with a call,
and the heap holds just what calls have taken from it; `ExceptionsInv` says what
an exception leaves. What the destructor gives back is a recursion over the
calls that are left (`Returned`), of which induction shows that it returns each
array once (`ReturnedFacts`); so the free list is full again unless an exception
of a class has kept `mCleanExit` (`DeleteExact`).

`BinaryRoundTrip_proofs`. The writer
and the reader together, for classes of any number, size and nesting, at the end
of any stream that is written, whole or cut, with any number of reads, exceptions
at any point and destruction at any idle moment: `BinaryTypes` (`TypeOK`),
`LiveClosures` (`ClosuresLive`), `CleanMessages` (`CleanWhenIdle`),
`DeadMessages` (`DeadAfterFailure`) and `ArraysBack` (`ArraysReturned`), all from
`BinaryInvariant`: `Spec => [](PhaseInv /\ IInv)`. `ClosuresLive` and `CleanWhenIdle` are parts of
`IInv`; they are not inductive alone, and these parts make them so:

- `SavedInv`: the current pending members and `mVariableHistory` are, in order,
  those of the objects being read, and the `nullptr` of the first `Enter` at the
  bottom. Leaving an object can then only uncover the array of the one around it.
- `LentInv`: what is in the history has been lent, so that neither the ends of
  calls nor the destructor give back more than was taken (`HeldBound`).
- `SkippingInv` and `KeptInv`: `mObjectSkipping` is set only while a frame that
  resets it is on the stack, and a header is kept only between two `Store` calls
  of the innermost object; so neither outlives the call that set it.
- `DeadInv` and `BottomInv`: a message that has failed gets no further than the
  test of `mCleanExit`, one that has not has the object of `Enter` at the bottom.

Most actions replace the innermost frame by some others and touch little else.
`Replaces` says what such a step may do and `Keeps` shows once that it preserves
`IInv`, by counting the frames that have an array before and after
(`CountReplaced`). Each action has a lemma that it is such a step, or its own
argument: `StoreEntryPoint`, `LeaveObject`, `Enter`, exceptions, the destructor.

`ArraysBack` is about behaviours in which no packed vector is read
(`[]NoPackedVector`), because with one `ArraysReturned` is false (finding 4). By
`ClosuresLive` a usable message has then taken exactly the arrays that
`mVariableHistory` and the current one account for; an exception changes
neither, nor does a later call, so the destructor finds them all (`HeldAll`). It
assumes that `Null` is not a set of closures. `PlainArraysBack` (of
`BinaryFollow_proofs`) replaces the premise by one about the classes alone.

`PhaseInv` types what the writer leaves behind, so that the reader's steps are
typed for every stream.

`BinaryFollow_proofs`, with the second half of `BinaryRoundTrip_proofs`. What is
read is what was written: `RoundTripHolds` (`RoundTrip`), `ReadsInStep`
(`NeverMisreads`), `ConsumesOneMessage` (`StreamInStep`), `ThrowsForReason`
(`FailuresJustified`) and `MismatchFound` (`MismatchReported`), for classes of any
number, size and nesting, the reader's different from the writer's, for streams
that end anywhere. They follow from `RoundTripInvariant`: `Spec => []WholeInv`. It
is a simulation, and its parts are these:

- The writer has a history (`HistoryOf`): what it had written and which calls of
  `OnSerialise` were in progress after each of its steps, and `Moves` says what
  lies between two of them. `WriterFollows` shows that a history goes on with
  each step of the writer; `FollowInv` says that there is one, and keeps the
  whole stream `W` of which the reader may get only a prefix.
- A reader that is in step is at a moment of this history, or up to a few tokens
  past it (`TakenSince`). What lies above one of its calls, and what is left
  when that call returns, is a `Context`: the calls of the writer still open, the
  arrays and `mObjectSkipping`, the values read, and whether all types have
  agreed. `Stands` says of each kind of frame how it leads from one context to the
  next, and `Chain` that the frames, from the innermost one out, lead from the
  present context to the one in which the message is read (`LastContext`), with
  exactly the values that the classes have in common. So what the frames below
  the innermost one have still to do is part of the invariant, and
  when the last one returns the values are those that `RoundTrip` asks for.
- A step replaces the innermost frame by others. `FollowsOn` shows once that the
  chain goes on if the new frames lead from the new present context to the one
  that the old frame led to; one lemma per action (its name and `On`) shows that
  they do, at the same moment or the next one. Members that come in another order
  are the matter of `Meets`: of each member that both classes have, the writer has
  still to store it if and only if the reader has not read it yet, be it because
  `OnSerialise` has not come to it or because it is pending.
- As the chain says what the writer wrote next, the reader gets the kind of token
  that it asks for (`AheadFits`), and no element of a packed vector overruns its
  headers: `NeverMisreads`.
- There are two ways out of the chain: `Beyond` (a read after the last message)
  and `Doomed` (a Terminator taken for member 0). Both only throw.
- Between messages `Idle` holds; `Enter` opens the next one (`EnterOn`). The paths
  begin with the number of the message (`PathsInv`), so a message that has ended
  keeps its values: `Sound`, for each message, is the conjunction of the
  properties above. It is not inductive alone, as it says nothing of a message that
  is being read; the chain does.

What the classes have in common is defined level by level up to `MaxDepth`;
`PairsFixed` and `CommonFixed` show that with `DepthAssumption` this is the fixed
point, so that one level of a class can be unfolded where the proof needs it, and
`PairsClosed` that the pairs of classes that reading comes to are closed. All of it
is about messages that are `Supported`, as finding 3 makes it false of others.

`PlainArraysBack`: if no class has a packed vector, then no packed vector is ever
read. The reader takes a vector for packed by the flag in the stream, so this
needs `RoundTripInvariant`: the flag is the one that was written (`PlainBody`).

`TLC` cannot evaluate `FollowInv`, which quantifies over histories and contexts;
it checks on the runs the properties that follow from it.

Induction. The library's theorems on induction take a predicate, which the
provers cannot instantiate. Here they are stated of sets and functions instead,
and proved from the theorems on finite sets: if S lacks a number n, the successor
maps the part of S below n into itself, one to one and never to 0, and no finite
set has room for that (`Induction` in `FloatCodec_proofs`, `InductionUpto` in
`BinaryRoundTrip_proofs` and `PendingArrays_proofs`). From it come the equations of
functions that are defined by recursion (`Recursion`, `StrongRecursion`,
`RecursionUpto`), and in `FloatCodec_proofs` `PowerSum`, `PowerGrows` and the
arithmetic of quotients and digits.

`FloatCodec_proofs`. `ZagZigInverse` and `ZigZagSmall`: zigzag is undone, and stays
within the width of its argument, for every even modulus. The second says why
the exponents from -128 to 127 fit into a float's eight bits and others do not.
`FloatKept`: for every format for which `FormatFits`, a finite float that is zero
or not below a quarter of the smallest normal number comes back from its word
as it was but for the lowest bit of a full significand and the sign of zero. Its
argument: `BitLength` brackets a number between powers of two
(`BitLengthBounds`), so `Nearest` is exact where the significand fits
(`NearestExact`, `TimesExact`); `FRExp` gives a fraction in [1/2, 1) and its
exponent, of a denormal through the boost (`FRExpNormal`, `FRExpDenormal`); the
two zigzagged numbers share a word without touching each other (`WordParts`);
and `LDExp` puts the number together again, in one step or, for a denormal, in
two (`HalfScaledDown`).

`ValueStream_proofs`. `StreamInvariant`, and from it `StreamTyped` (`TypeOK`),
`StreamInStep` (`WireInStep`), `StreamKeepsValues` (`ValuesKept`),
`StreamKeepsFloats` (`FloatsKept`) and `SizesCompile` (`CompiledAgrees`): for every width of a byte, of a size, of the
buffer of booleans and of the formats. `Inv` adds to the properties what makes
them inductive: `Written`, that the wire holds what the writer of the item put
there, and `Arrived`, that only a value that was written is received, and up to
the end of the wire. The lemmas about the operators are `HeaderFacts`,
`SizeFacts` and `SizeRead` (the digits of a size, lowest first, end where the
reader stops and add up to it), `ByteOfBits`, `WholeBytesFact` and `BooleansRead`
(the rounds of the buffer take all whole bytes, and each bit is where the reader
looks), `CastKeeps` (which members can hold an integer), and `FloatKept`, once
for each format. `SizesCompile` rests on the shape of a size's bytes (`SizeShaped`:
each but the last is the digit of its place and says that more follow), on
`VarIntParts` (the two integers of `VarInt` hold those bytes in order, as `Packs`
says, up to `FirstBytes` of them and again with two more), and on `Unwound`: each
step of `FromVarInt` takes the lowest byte and turns the digits above it into
those from it on, so the size comes back. With one byte more than `FirstBytes`
the first is lost, the second integer is zero where the last byte is not, and what
comes back is smaller (`ByteLost`).

Assumptions: the named `ASSUME`s of the modules (`BarrierAssumption`,
`ProcessorAssumption`, `FormatAssumption`, `DepthAssumption`, `IntegerAssumption`,
`ValueAssumption`, ...), and `Narrow` where a theorem states it.

Only model-checked: all liveness properties, which are out of the prover's
reach; and of the values `ScaledAsByTheLibrary`, because `LDExp` rounds up to
three times. Every other safety property of a passing
run is proved.

## 6. What the checks found

1. *An abort can miss a thread.* `NotifyAbort` (`barrier.h:110`) and the store
   to `mStop` (`parallelFloatProcessor.cpp:312`) run without the lock that the
   waiting predicate is evaluated under. A worker that has found the predicate
   false and has not blocked yet sleeps for ever, and the join in
   `TerminateWorkers` waits for it. `barrier.h:65-66` promises otherwise.
2. *The generation is wider than its snapshot and uninitialised.* With a 64-bit
   `uint_fast32_t`, once the counter holds 2^32 or more (from uninitialised
   memory or from counting) the comparison of line 90 is false at once and
   threads pass the barrier alone, against `barrier.h:72`.
3. *Packed vectors of objects cannot be skipped.* `SkipArray`
   (`binaryDeserMessage.h:638`) looks at the flag for booleans, not for objects.
   A reader whose class lacks the member reads the headers as values. The same
   holds for members that only the writer's elements have (line 821), which the
   value message passes over without skipping their bytes, and for vectors of
   objects inside packed elements. `RoundTrip` and its companions exempt exactly
   these pairs of classes (`Unsupported`, `ElementLacks`).
4. *An exception inside a packed element loses an array.* The one taken at
   line 294 is in nobody's history, so the destructor does not return it and
   the assertion of `memoryPool.h:81` fails in a debug build.

5. *The smallest denormal floats become other numbers.* Below 2^-128 the zigzagged
   exponent needs nine bits of the eight there are (`util.cpp:198`): the ninth
   is or-ed into the digits. The tests expect `EXPECT_FLOAT_EQ`
   (`src/test/helper.h:72`). Doubles have the same gap below 2^-1024.

Oddities that the properties allow for:

- A reader with a member 0 that the writer lacks takes the Terminator for it,
  since they share the index (`LacksZero`). Within packed elements members that
  the stream lacks keep their defaults only if no pending member is drained
  behind the last header.
- The lowest bit of a float's significand is cut off, since the digits and
  their sign share one word (`Shortened`), and minus zero becomes zero.
  Infinities and NaN are undefined; on x86 they are read as -1.0 for a float.
- A negative integer that is read by a wider member becomes positive, and one
  that is too large for the member is cut (`ValuesKept` says exactly when).
- A compile-time size of one byte more than the first part holds (nine) loses
  its first byte: the recursion of `serialisation.h:66` stops before the
  second part is used (`CompiledAgrees`).
- An exception out of a user's `OnSerialise` leaves `mCleanExit` true, so the
  destructor returns no arrays, and a debug build fails the assertion of
  `memoryPool.h:81`: exactly then (`AssertionExact`).
- The pool makes one block more than its maximum before it turns to the heap.

## 7. Not modelled

- `SetSize` of the barrier (no caller), `Reset` of the streams, opening a file by
  name and its failure, moving messages.
- An `OnSerialise` that catches exceptions of the library and goes on; the calls
  of `PendingArrays` are all left by an exception.
- Two members with the same index (`FormatAssumption`), and several threads that
  use the library at once, which nothing in it provides for.
- The facade's overloads, which the compiler selects, and the texts of exceptions.
- Arithmetic in a type wider than its operands (`FLT_EVAL_METHOD` other than 0).
- Within the binary messages values are not converted; `ValueStream` does that for
  one value at a time.
- Tests, benchmarks and build files.

## 8. Plan

Done, in this order, the most important behaviour first: the barrier with its
abstract specification, invariant and refinement; the processor composed with it;
the binary messages, their failures and packed vectors; the streams, first each
side and then both over one stream; values on the wire; the pool and the calls
that use it; the proofs of section 5.

Left, in the order of what they would add:

1. An `OnSerialise` that catches what a nested call throws.
2. `ScaledAsByTheLibrary` for every format.
