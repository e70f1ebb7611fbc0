# A TLA+ model of mh_stuff

`mh_stuff` is a header library of C++20 utilities. Its core is a small
coroutine runtime: `mh::task` with the promise behind it, `mh::promise`,
`mh::dispatcher` and `mh::thread_pool`. The rest are self-contained components:
streams, numbers, ownership helpers, parsers. This directory holds TLA+ modules
for it, TLC runs over small instances, and proofs for every instance.
Paths below are relative to `cpp/include/mh/` unless they start with `test/`.

## The system

| Part | State | Operations | What is hard |
| --- | --- | --- | --- |
| `coroutine/task.hpp`, `coroutine/future.hpp`, `concurrency/async.hpp` | `promise_base`: `m_State` (empty, value, exception), `m_RefCount`, `m_Waiters`, `m_Mutex`, `m_ValueReadyCV`, `m_FinalSuspendHasRun` | copy, move, release of tasks and promises, `co_await`, `get`/`wait`, `wait_for`, `state`, `set_value`, `set_exception`, `final_suspend` | threads that wait while another sets, that release while the coroutine ends; a manual reference count; unlocked first looks |
| `concurrency/dispatcher.*`, `containers/heap.hpp` | `m_Tasks`, `m_DelayTasks`, one mutex, one condition variable | `co_dispatch`, `co_delay_for`, `run*`, `wait_tasks_*` | notifications, deadlines, unlocked looks, coroutines that re-queue themselves |
| `concurrency/thread_pool.*` | `m_IsShuttingDown`, its threads, a dispatcher | `co_add_task`, `add_task`, `co_delay_*`, destructor | threads that outlive the pool; the one-second waits |
| `math/uint128.hpp` | two words | arithmetic, shifts, division, comparison | carries, lost bits, boundaries |
| `error/exception_details.*` | a map of handlers under a mutex, tokens that keep entries | `add_handler`, token moves, assignment, destruction, describing an exception | foreign code under the mutex; tokens and handlers that go while a loop calls them |
| `text/memstream.hpp` | put area, get area | writes, reads, seeks, `setbuf` | positions at the ends; two areas over one buffer |
| `text/codecvt.*` | none between calls; an input position inside | `change_encoding` between UTF-8, UTF-16, UTF-32, multibyte and wide | boundaries of the encodings, surrogates, texts that end inside a character |
| `text/indenting_ostream.hpp` | the indentation, the stream under it | block writes, single characters, setters | a text cut anywhere, through two functions that indent; a stream that refuses in the middle |
| `data/bits.hpp` | none; a destination that it changes in place | `bit_copy`, `bit_read`, `bit_merge` | three paths, masks for each first, middle and last byte, offsets in objects and in bytes |
| `data/bit_float.hpp` | none | conversion between formats | infinities, zeros, what is too large or too small |
| `math/interpolation.hpp` | none | `remap_static` | products that fill their type, rounding divisions |
| `io/getopt.hpp`, `data/variable_pusher.hpp` | `optind`, and what `getopt_long` remembers | `parse_args` | globals that outlive a parse that was stopped |
| `coroutine/generator.hpp` | a coroutine frame, the variant with the value or the exception | `begin`, `++`, `*`, move, destruction | exceptions at each point, moves in and outside of a loop |
| `memory/unique_object.hpp`, `memory/buffer.*`, `raii/scope_exit.hpp` | an object, a block, a function to call, and who owns it | construction, moves, release, reset, resize, destruction | deleting twice or never, over any sequence of calls |
| `memory/cached_variable.hpp` | a value and the time of its next update, under a mutex | `get` | values that are stale when they are returned; a slow or throwing update |
| `error/expected.hpp` | a variant of a value and an error | assignments, `emplace`, `map`, `or_else`, comparison | a variant that is left without either |
| others (`PROJECT.json` lists every file) | | | see "Not modelled" |

How they interact: a coroutine that awaits a task is put into the task's
waiters and resumed by whoever sets the outcome, on that thread. A coroutine
that awaits `co_dispatch` or `co_delay_for` is put into the dispatcher and
resumed by the thread that pops it. A pool thread loops over its dispatcher.
A coroutine on a pool thread may also block that thread, in `task::wait`. The
handle of a parked coroutine is all that passes between the parts. The other
components do not know of one another, except that `parse_args` restores
`optind` with a `variable_pusher`.

## Modules

| Module | Models | 
| --- | --- |
| `TaskPromise` | the shared state of `task`, `future` and `promise` and everyone who uses it |
| `FutureCell` | what that state promises: a one-shot cell, its callers and what they get |
| `TaskPromise_proofs` | theorems about `TaskPromise` |
| `Dispatcher`, `Dispatcher_proofs` | `mh::dispatcher`, the threads that run it, the coroutines parked in it; theorems about it |
| `ThreadPool` | `mh::thread_pool`, extends `Dispatcher` |
| `PoolTasks` | a pool whose coroutines wait for each other's tasks, extends `ThreadPool` |
| `ThreadPool_proofs` | theorems about `ThreadPool` and `PoolTasks` |
| `UInt128` | `mh::uint128` in its portable form |
| `ModularNumber` | what `uint128` promises: numbers modulo their range |
| `ExceptionHandlers`, `ExceptionHandlers_proofs` | the registry of exception handlers; theorems about it |
| `MemStream` | the stream buffer of `mh::memstream` |
| `ByteFile` | what that promises: one file in the buffer |
| `Codecvt` | `change_encoding` |
| `IndentingOstream` | `mh::indenting_ostream` |
| `BitCopy` | `bit_copy` and what it is built from |
| `BitFloat` | `mh::bit_float` and its conversions |
| `RemapStatic` | `remap_static` between integer ranges |
| `Getopt` | `mh::parse_args` over `getopt_long` |
| `Generator` | `mh::generator`, its coroutine and the loops over it |
| `UniqueObject`, `Buffer`, `ScopeExit` | `mh::unique_object`, `mh::buffer`, the scope guards |
| `CachedVariable` | `mh::cached_variable` between threads |
| `Expected` | `mh::expected` |
| `MCTaskPromise`, `MCDispatcher`, `MCThreadPool`, `MCExceptionHandlers`, `MCCodecvt`, `MCBitCopy` | the instances for TLC |
| `MCText` | instances of `Codecvt`, `MemStream` and `IndentingOstream` side by side (see Runs) |
| `MCNumbers`, `MCLibrary` | the same for `UInt128`, `BitCopy`, `BitFloat` and `RemapStatic`, and with the sequential components beside them |
| `Powers` | the powers of two as a recursive function, which shifts and widths are written with |
| `Numbers_proofs` | theorems about `UInt128`, `RemapStatic`, `BitFloat` and `BitCopy` |
| `Text_proofs` | theorems about `MemStream`, `Codecvt` and `IndentingOstream` |
| `Library_proofs` | theorems about `CachedVariable`, `Expected`, `UniqueObject`, `Buffer`, `Generator`, `ScopeExit` and `Getopt` |
| `Induction_proofs` | induction and recursion on the natural numbers, in a form the provers can use |

### TaskPromise

The constant `Promises` chooses who sets the outcome: with no promises, the
coroutine itself (`Body`), whose frame contains the state; with promises, the
`mh::promise` handles, which share a heap object. A task or a promise is a
thread that uses its handle, so "two tasks" is also "two threads".

`mState`, `refCount`, `finalSuspendHasRun`, `waiters`, `mutex` are the members
of `promise_base`; `holds` says which handles point to it, `freed` that it is
gone, `pc` where each thread is. A section under `m_Mutex` without a call to
somebody else's code is one step; `set_state` is cut where it resumes waiters
and where `variant::emplace` leaves the state valueless; `final_suspend` is cut
between its unlock and the suspension. Unlocked reads (`is_ready` in
`await_ready`, `await_suspend`, `wait` and `get_task_state`) are steps of their
own. `REFCOUNT_UNSET` is the code's -1234: the first `add_ref` replaces it.

The stored value is abstracted to "value" or "exception": no code branches on
more. `set_state` resumes its waiters in `loop`/`resuming`; a waiter resumed
this way runs on the setter's thread until it yields.

### Dispatcher

One step per section under `m_TasksMutex`. Time is in ticks and relative: an
entry of the heap counts down to its deadline and on to `-MaxLate`. A thread in
`wait_tasks_until` is in `wait_lock`, `asleep` (in the condition variable) or
`woken` (notified, timed out or woken for no reason, and about to lock).
`try_pop_task` looks at both containers before it locks; that is a data race
with every push and pop, so a thread whose look overlaps one (`peek_raced`) may
see them empty or not. The heap is a sequence by deadline: `std::push_heap` and
`pop_heap` keep only the front, so elements with equal deadlines are ordered
freely. Coroutines run on threads outside (`foreign`) or inside the `resume()`
of a thread (`running`), and there they dispatch, delay, finish or go elsewhere
as they like.

### ThreadPool

`loop` is the place of each thread in `ThreadFunc`, `runIn` the end of its
`run_for(1s)`. `Period` (the constant `MaxWait`) is the second of both waits. A
pool starts any number of the threads, at least one; the others are where those
of a destroyed pool end.
The destructor is one step, `Shutdown`; after it nobody calls the pool.

### PoolTasks

`waitsFor` is the coroutine whose task each coroutine waits for on its pool
thread, without giving the thread back. What `TaskPromise` shows, that whoever
waits is told once the outcome is there, is its `WaitReturns`; that a pool of
which all threads wait serves nobody is what the code does, and the properties
say that it is the only reason for not being served.

### UInt128

A machine word has `2 * HalfBits` bits. Each operator is a function on records
of two words, each action applies one to the stored value. `&`, `|`, `<<` and
`>>` are the arithmetic they stand for. The code uses `__uint128_t` at run time
where it exists and this form in constant expressions and elsewhere.

### ExceptionHandlers

`mHandlers`, `mutex` and `mType` are the members; `exists` are the tokens that
are constructed, `objects` the handlers their owner has not destroyed, `call`
the function each thread is in. A section under the mutex that calls nobody is
one step; the loop of `exception_details` takes one step per handler, with the
mutex. A token is used by one thread at a time, as the code requires, so calls
claim theirs. `Willing` are the handlers whose `try_handle` says yes. A handler
is destroyed by its owner when the registry no longer has it.

### MemStream

Pointers are offsets into one buffer. `sputc` and `sbumpc` are the standard
library's inlines; the virtual functions are the repository's. Seeks take the
positions that the assertions of `seekpos` admit. `told` is the last call with
its arguments and its result, so that data can be spoken of: what a block was
and how much of it was taken, which byte was read, what `view()` shows, which
position a seek went to.

`ByteFile` is one content, one length, two positions, and the same calls. It says
what each of them does, given what it is given: the bytes of a block from the
write position on, up to a byte that equals `Traits::eof()` or to the last byte
but one of the room; the byte at the read position; the unread bytes, or all; a
position counted from one of three origins (from the end backwards, as in the
code). It says openly what the code does at the ends: a byte put alone does not
lengthen the file, a block refused at the end costs a position and is answered
with -1, and a position asked for in both areas is the one to read at, but
after a seek in both the one to write at.

### Codecvt

A text goes through a path of conversions, one round of a conversion's loop per
step; what the rounds appended stays apart in `chunks`, so that each can be
compared with the character it comes from. The decoders and encoders are the
code's bit operations as arithmetic. The C library is a UTF-8 locale with a
`wchar_t` of 32 bits: `WellFormedTable` is the Unicode standard's, and
`c16rtomb`'s memory of a high surrogate is `pending`. `Represents` is the
standard's definition of an encoding and the reference of `Faithful`.
Conversions between wide and UTF characters go through multibyte ones in the
code, and so do paths.

### IndentingOstream

`xsputn` is a loop with a step per line; `overflow` is one step. The stream
underneath has room for a few characters and, once it has refused, does nothing
more, as a `std::ostream` with `badbit`. The reference (`owed`) is the text
character by character, each newline with the indentation of its time.

### BitCopy, BitFloat, RemapStatic

A word, an object or an array of them is the set of the positions of its one
bits, so shifts and masks are operations on sets, and `bit_copy` is compared
with the definition of copying bits. The three paths of the code (whole bytes,
single objects, byte by byte) are chosen as in the code. An array of the model
has no end: bits behind it are zero and can be set, so that the byte-by-byte path
may look at or rewrite a byte behind an array of the program is not seen. A floating-point
number is its bits; `Magnitude` gives it its value, as an integer in units of
`2^-Scale`, and the reference is the nearest number on the side of zero.
`remap_static` chooses its widths and roundings by its static assertions;
`RemapsLinearly` compares it with the line.

### Getopt

`getopt_long` is modelled as the C library's: it permutes `argv`, and keeps
`optind`, `nextchar` and the two ends of what it has set aside. Arguments have
one of five kinds, and the rest of their spelling is left out. A parse may be
stopped by its function, and others follow.

### Generator, UniqueObject, Buffer, ScopeExit

Variables are constructed, moved, assigned and destroyed in any order; ghosts
count what was destroyed, deleted or run. In `Generator` a loop resumes the
coroutine, which yields, returns or throws each time. In `Buffer` `realloc`
fails, stays or moves. In `ScopeExit` exceptions begin and end; a scope that
began in the flight of one ends in it.

### CachedVariable

Threads want the value, wait for the mutex, look at the clock, and update under
the lock while the clock goes on. A value is the time it tells of.

### Expected

`held` is the variant and `told` what the calls that returned should have made
of it. Any copy of a value or error may throw. How much is lost then is
decided by `std::variant`: assigning an expected copies first; assigning a value
emplaces it.

## Runs

| Run | Instance | What it shows |
| --- | --- | --- |
| `task_coroutine` | a coroutine, 2 tasks, fairness | reference count, destruction, waiters, no lost wake-up; implements `FutureCell`; everyone is answered; a discarded coroutine is destroyed |
| `task_promise` | 2 promises, 2 tasks, fairness | racing setters: the first outcome stays, the loser throws, and waiters get out once an outcome is set |
| `task_destroyed_at_rest` | violation | see findings |
| `task_last_reference` | violation | see findings |
| `dispatcher` | 3 threads, 2 coroutines, waits up to 2 ticks, for many threads and for one | every coroutine in one place; enough threads awake; no oversleeping of known delays; one owner resumes |
| `pool_prompt` | 1 or 2 threads, 2 coroutines, second = 2 ticks | no delay is a second overdue while a thread sleeps |
| `pool_live` | `PoolTasks`: 1 or 2 threads, 2 coroutines, second = 1 tick, fairness | the queued and delayed are served, and threads of a destroyed pool end, unless they are all blocked in waits for ever |
| `exception_handlers` | 2 threads, 2 tokens, 2 types, 3 handlers, fairness | one token per entry; called handlers exist; the first willing one describes; the mutex is given back |
| `text` | conversions: texts of 2 characters, up to 3 conversions; stream: 3 bytes, blocks of up to 3; indenting: room for 5 characters, blocks of up to 3 | characters as the standard encodes them, on every leg of a path; every conversion ends inside its input; positions stay inside the stream's areas; every call stores and answers what `ByteFile` says; a text is indented the same however it is cut |
| `library` | words of 4 bits; bytes of 4 bits, objects of 1, 2 and 4 bytes; formats of up to 3 + 4 bits; types of 2 and 4 bits; 3 arguments; 2 of everything else, 3 blocks | `uint128` is arithmetic modulo its range and its comparisons agree; `bit_copy` moves the right bits; `bit_float` truncates, and widens without loss; `remap_static` is a line; `parse_args` delivers each argument once; loops over generators see each value once; what is owned is released once; expecteds keep what they were given; cached values are not stale |
| `wide_round_trip` | violation | see findings |
| `bit_copy_offset` | violation | see findings |

`text` and `library` explore components that share no state: a behaviour picks
one at the start, named by `component`, and stays with it.

Bounds. Two tasks give one that waits and one that releases or copies while a
coroutine or two promises race with them; what more of them could do is what
the proofs cover, for any number.
Three threads give a notified one, one that takes its work, and one asleep. A
tick is the unit in which delays and the second are compared, and two ticks per
second let a delay fall before, at and after its end. `MaxHops` bounds how
often a coroutine parks itself, which also keeps delays that renew themselves
for ever from starving the queue (a hazard: due delays go first). Four-bit words
have every carry and every shift branch, and all 256 values are initial, so one
operation from each is all there is. Two tokens give one that is moved or
assigned and one that it goes to, on two threads; the proofs cover any number.
Two types of three handlers, two of them willing, give every order of
willing and unwilling. A buffer of three bytes has a begin, an end, and room
between for positions that pass one another and for blocks that fit, that fill it
and that are cut; at most one byte exists
(`MaxExisting`) and no put area is empty (`MinArea`): from half of the buffer on
the put area of the constructor is empty or ends before it begins, and in an empty area
`xsputn` moves the position by -1, so those are preconditions of the stream, not
checked ones. Texts of two characters have every pair of neighbours, and
their characters are the first and last of each range of each encoding; paths of
three conversions contain each conversion after each other one.

Bytes of four bits keep every relation of offsets and counts to bytes and
objects: within one, to the end of one, over one and over several; the arrays
have no period that a wrong shift could hide behind. The formats of
`bit_float` contain pairs in which the mantissa, the exponent, both or the sign
is narrower. Three arguments are an option, its argument and one that is none,
in every order, in a second parse too. Two variables and two objects give one
that is moved or assigned and one it goes to; three blocks one that `realloc`
moves to while the others live. Two exceptions in flight are one within the
other. Times up to three intervals give a value that is fresh, one that is due
and one updated by another thread meanwhile.

Deadlock is allowed only with promises, where one that nobody sets leaves its
waiters blocked, as in the code, and in `text` and `library`, where conversions,
arithmetic and coroutines come to their end.

Fairness. Threads in a call go on (weak fairness per thread and per setter):
the locks are held for bounded code. A coroutine's body and a resumed coroutine
go on. Nothing makes a thread start a call. For the pool: weak fairness for
each worker, each resumed coroutine that is not blocked in a wait, each wait
whose task is ready, and the clock, and strong fairness for a
worker about to enter `run_one`, since `run_for(1s)` could otherwise end before
its first test every time; a machine on which a thread loses a whole second at
that place for ever is not considered. For the loop over the
handlers: `try_handle` returns, and the thread with the mutex goes on. A
conversion is one thread, which goes on. `PromptSpec` is for `DelaysKept` only:
the clock ticks when no worker can move.

## Findings

- `task_destroyed_at_rest`: a coroutine's frame can be destroyed while it runs.
  `final_suspend` sets `m_FinalSuspendHasRun` and unlocks; until the coroutine
  is really suspended, a thread that releases the last task frees the frame.
- `task_last_reference`: the state behind `mh::promise`, `make_ready_task` and
  `async` is never freed, because only a coroutine sets `m_FinalSuspendHasRun`.
- `wide_round_trip`: the loop from `wchar_t` to multibyte characters moves its
  input by the number of bytes it wrote and so skips characters after each one
  of several bytes, or runs past the end.
- `bit_copy_offset`: on its slow path `bit_copy` shifts the masks of the bits it
  clears by the offset within the destination object, although they are applied
  from the byte of the offset on. Two cases go wrong. For an offset of a byte or
  more into a larger object every mask is shifted too far: bits are cleared that
  are not written, and others are written without having been cleared. And for
  any offset that is not 0 the mask of the last byte is (line 488): there the bits
  begin at the byte's first one, so that a bit after them is overwritten. The run
  shows the second: three bits that go to the fourth bit of a byte of four.
  `CopiesTheBits` of `library` covers the other destinations
  (`PlainDestination`).

Seen in the code and not checked by a run of their own: `state()` reads the
variant's index without the lock and can meet the valueless index, for which it
asserts; a memstream's constructor subtracts `existingSize` from the end of
the put area, which is right for none but 0, and leaves no area from half of the buffer on;
`remaining_p()` is -1 at the end of the put area; a byte put alone cannot be
read until a block follows it. An exponent that is too small for its new format
is cut to its bits (`data/bit_float.hpp:164`), so a very small number may become
any number, whatever is asked for by `round_toward_zero` (line 361). `operator++`
of a generator's iterator looks at no exception, so one after the first value
ends the loop silently. A `unique_object` that is moved to itself deletes its
object. After a parse that was stopped inside a cluster of options, the next
parse begins with the rest of that cluster. `scope_fail` and `scope_success` in a
destructor that runs during unwinding take that exception for their own.
`buffer::resize(0)` frees the block, throws and keeps the pointer. An `expected`
whose assignment threw may hold neither: `has_error()` is true then and
`error()` throws; the comparison of an error with an expected
(`error/expected.hpp:184`) compiles for no usual error type.
`operator<<` of `mh::indented` returns a reference to a stream on its own stack
(`text/indenting_ostream.hpp:120`), which the next `<<` of the same expression
uses.

`mh::promise::set_value`, `set_exception` and `make_ready_task` call
`set_state<...>` on a dependent object without the keyword `template`
(`coroutine/future.hpp:61`, `:65`, `coroutine/task.hpp:599`), which MSVC accepts
and GCC does not; the model is of what they mean where they compile.

## Proofs

`TaskPromise_proofs` proves, for any finite sets of tasks and promises:
`TypeOK`, `RefCountExact`, `DestroyedOnceUnreferenced`, `NoUseAfterFree`,
`NoSleepOnReady`, `FetchFindsOutcome`, `WaitersConserved` (invariants),
`OutcomeIsFinal` (an action property) and that `TaskPromise` implements
`FutureCell`. The assumptions are those of the module: the sets are finite and
disjoint, and there is a handle.

None of the invariants is inductive alone. `IndInv` adds: `PCKinds` (a
coroutine's body and a promise have program counters of their own kind),
`Occupied` (whoever is in a call holds its handle, or is the one that frees),
`Owner` (the mutex is held exactly by the setter inside `set_state`), `Ended`
(final suspension has run only past it, and the frame's end is the body's or
the last releaser's), `Driven` (who is being resumed, and that there is one
setter doing it), `Queued` (waiters are distinct and wait), `Resolved` (what a
stored outcome implies for everyone who waits). The count is the cardinality of
the holders, so copying and releasing use the theorems on finite sets; each
action has its step in each part. The refinement maps `pc` and `mState` to the
cell, and each step to one of the cell or a stutter.

`Dispatcher_proofs` proves, for any finite sets of threads and coroutines and
any bounds of delays and waits: `TypeOK`, `OnePlace`, `EnoughAwake`,
`WakesForKnownDelays` (invariants) and `OnlyOwnerResumes` (an action property).
`IndInv` says where the coroutines are (`NoRepeats` in the queue, the heap and
on the threads, and these are `Apart`), that the heap is `Sorted`, that a
thread sleeps no longer than its wait and than the delays it saw in the heap
(`Early`; who is in no wait sleeps for no time, `Idle`), and that only the owner
of a single-threaded dispatcher gets to where tasks are popped (`OwnerPops`). `EnoughAwake` compares the length of the queue
with the cardinality of the threads that are awake, so each step has to say how
both move; `notify_one` of a push is where they would part.

`ThreadPool_proofs` proves that each step of `ThreadPool`, and each of
`PoolTasks`, is one of `Dispatcher` or leaves its variables alone. So `OnePlace`
and `EnoughAwake` hold in pools whose tasks block each other. `DelaysKept`, of
`PromptSpec`, needs what is left of a sleep and not only that it goes on: each
delay of the heap is less than a second overdue when the sleep ends
(`AllWithin`), because it was not due when the sleep began, or came later and
was not due then, and the clock does not go on while a thread is about to look.
`PromptTick` says by places of threads, and not by `ENABLED`, that nobody can
move.

`ExceptionHandlers_proofs` proves, for any threads, tokens, types and handlers,
`OneTokenPerEntry`, `CalledHandlersExist` and `FirstWillingDescribes`. The first
needs to know of a call that waits for the mutex that its tokens are still as
they were when it looked (`ClaimKept`) and that no other call has them
(`Apart`); the second that a loop has the mutex and has only registered types
left (`Asking`), and that what is registered, or about to be, exists
(`ObjectsKept`); the third that a loop still has every type with a willing
handler before it (`WillingAreLeft`), and that a finite set of types has a least
one.

`Numbers_proofs`, for words of any even number of bits: each operator of
`UInt128` is that of `ModularNumber`, and the comparisons and `leading_zeros`
agree with numbers. The carries and borrows between the words are divisions by
`Word`; `from_mul` is the product of halves; a shift is a product or a quotient
of powers. The loop of the long division keeps that the quotient and the
remainder so far, with the bits not yet shifted in, make up the dividend
(`DivisionInv`); its comparison sees the bit that its shift pushes out. For
integers of any number of bits, `RemapsLinearly`: with the extents divided by
their greatest common divisor, a remapped value times the denominator is within
one denominator of the line (`Straight`), on which both ends lie exactly. For
floating-point formats of any widths, `ConvertsNumbers`: mantissa, exponent and
sign are the digits of the bits (`PartsAreFound`, `PartsMakeUp`), a normal
number lies between the powers of two of its exponent and the next
(`MagnitudeOfNormal`), so exponents order numbers of different formats; what
cutting a mantissa loses is less than its last bit (`MantissaTruncates`), so no
number of the format lies between (`NearestBelow`); `Ends` are the least normal
number and the first power behind the largest. For bytes, objects, counts and
arrays of any sizes, `CopiesTheBits`, by the paths of `bit_copy`: a read holds
nothing but what the array has, and all of it for as many bits as it is asked
for (`ReadAt`), so that a byte, two bytes or the rest of an object do equally
well; a write replaces a range (`WrittenAt`); one round of `bit_copy_helper`
therefore pastes a range of the source (`HelperPastes`) if two bytes are read
wherever one does not reach, which is what the conditions on offsets and counts
have to achieve for the first, the middle and the last byte (`SlowCall`); and
ranges next to each other make one (`PastedNext`), by induction over the bytes.
The three paths then agree on what is lost (`CopiedIs`).

`Text_proofs`, for streams with buffers of any size, `ToldPositionsAreAdmitted`
and that `MemStream` implements `ByteFile`, from `StreamInv`: the areas are in
order and end inside the buffer. Each call is the call of the file with the same
arguments, contents and result; the count that `xsputn` reaches is the one that
the file's definition of a block asks for (`Goes`, `CountFits`). For texts, blocks and indentations of any
length and any room in the stream underneath, `IndentsEveryLine`: what each
prefix of a block becomes is a recursive function (`BecomeOf`), and `LinesInv`
says that the loop of `xsputn` has written the value of that function for the
prefix it is at, or, after a refusal, how it begins. For any texts and paths,
`StaysInside`; and for texts of real characters `ConversionsAreFaithful`: each
encoding is decoded to what was encoded, over all code points (the ranges of the
encodings are the cases), and `FaithfulInv` says that the input splits at the
position of the loop into whole characters that are those of the text, of which
each that was converted has its chunk. The cases of the lead byte had to be
shown disjoint for `CASE` to have one value.

`Library_proofs`, for any number of variables, objects, blocks, frames, threads
and calls: `NeverStale` (`CacheInv`: whoever holds the mutex is alone, and the
value is no older than what it looked at), `HoldsWhatItWasGiven` (`ExpectedInv`:
contents and what was told of them agree, unless a copy threw), `EveryValueOnce`
and `ReleasedOnce` (`OwnerInv`, `MemoryInv`, `FramesInv`, `ScopeInv`: each
object, block, frame or function that is not yet released has exactly one
variable that answers for it). For any arguments and clusters of options,
`EachArgumentOnce`, from `OptionsInv`: behind `optind` `argv` is as it was given;
what has been set aside is between two marks, in order, and not yet delivered;
all else before the cursor has been delivered once (`Scanned`). Each exchange
moves what is set aside as a whole (`Exchanges`), and after the end or `--` it is
the rest of `argv` (`Rest`). Of a parse that begins inside of a cluster, where
a stopped one left the globals of `getopt_long`, the property says nothing, and
the invariant only what the next call needs (`Kept`).

Assumptions, all of them named in the modules: sets of threads, coroutines,
tasks, tokens and types are finite and the model values for "none" are not in
them (`HandlesAssumption`, `DispatcherAssumption`, `HandlersAssumption`,
`LibraryAssumption`); the pool's dispatcher is not single-threaded and its
second is longer than no time (`PoolAssumption`); the interval of a cached
variable is not zero (`LibraryAssumption`: with none, every value is stale at
once), and clusters of options have a letter, because `-` alone is no option
(`LibraryAssumption` too); a machine word has an even number of bits
(`HalfBitsAssumption`);
integers have bits, floating-point formats a mantissa and an exponent, and
`Scale` is fine enough for them, bytes have bits, objects bytes, copies a bit or
more, and arrays positions from 0 on (`NumbersAssumption`); less than half of a
stream's buffer is filled at the start and its put area is not empty
(`StreamAssumption`); units are numbers and paths have two encodings or more
(`CodecvtAssumption`); lengths are numbers (`LinesAssumption`). `WideAssumption` restricts
conversions: wide characters begin a path as ASCII ones, or are its end.
Everything else about them is what the violation `wide_round_trip` shows.

How data is reasoned about. The library's induction theorems take an operator,
which the provers cannot instantiate. The lemmas `InductionOnSet` and `Recursion`
of `Induction_proofs` are about sets and functions instead (they say nothing of
the system by themselves); loops of the code that
the modules write as recursive functions are proved with them. Powers are a
recursive function (`Powers`) for the same reason, and the weights of the bits
of an encoding a table (`Place`).

Only model-checked: liveness (`Answered`, `Unblocked`, `DiscardedIsDestroyed`,
`Served`, `ThreadsEnd`, `MutexReturned`, `Ends`). It rests on fairness, and so on
`ENABLED`, which is out of the provers' reach. Every other property of a passing
run is proved for all values of the constants; the four violations are found by
TLC.

## Not modelled

`PROJECT.json` names every file. Left out for good: formatting and string
helpers, compile-time reflection (`reflection/`), wrappers of the standard
library and the system, floating-point formulas. `status`, `locked_value` and
`thread_sentinel` are single critical sections or comparisons: each call is a
whole step, and nothing about them takes several. `containers/heap.hpp` is
modelled as far as the dispatcher's use of it needs. `wait_tasks` and
`wait_tasks_while` of the dispatcher are declared but defined nowhere, and
`for_each_nested_exception` (`error/nested_exception.hpp`) does not compile when
it is used: its recursive calls leave out a template argument that cannot be
deduced.

Preconditions, where the code asserts or has no defined behaviour, are named in
the head of each module: empty put areas, `resize(0)`, an expected assigned its
own value, waiters whose `resume()` throws, handlers that come back to the
registry.

## Plan

1. Done: the coroutine runtime and its composition with the pool, the registry
   of exception handlers, streams and encodings, numbers and bits, and the
   sequential components of `library`.
2. Done: the safety properties of all components, for every value of the
   constants, and that the pool implements the dispatcher.
3. `Heap`: the array against a bag.
