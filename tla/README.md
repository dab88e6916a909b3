# A TLA+ model of PipeAI

PipeAI samples eight radar channels and an IMU inside a pipe, cuts the samples
into windows of 128, preprocesses each window, runs a neural network on the NPU
of an RK3588 and reports one of five classes. This directory holds a formal
model of the C++ runtime: modules that can be model-checked with TLC, and proofs
checked by TLAPS.

## 1. Inventory

| Component (source) | State | Operations | Interacts with | What makes it correct |
|---|---|---|---|---|
| `BlockingQueue` (`pipeline/blocking_queue.hpp`) | `queue_`, `closed_`, a mutex, two condition variables | `push`, `push_for`, `pop`, `pop_for`, `close` | every thread of the program | FIFO, bounded, no lost wake-up, drains after close, nobody blocked after close |
| `Worker` (`pipeline/worker.*`) | `running_`, `thread_` | `start`, `stop`, destructor | owns one thread | never two threads, never an unjoined one, `stop` returns |
| `Pipeline` (`pipeline/pipeline.*`) | three queues, three workers, `window_buffer_`, `window_id_`, `engine_` | `start`, `stop`, `submit`, three stage loops | callback on the post thread | windows complete, in order, numbered; no loss before `stop`; `stop` and `submit` return |
| `Application`, `main` (`runtime/application.*`, `app/main.cpp`) | configuration, `running_`, the pipeline | `initialize`, `run`, `shutdown` | owner and feeder of `Pipeline` | replay ends and is complete |
| `CsvSensor`, `SensorManager` (`sensor/`) | an open file | `open`, `read`, `close` | read by `Application` | one bad line ends the replay |
| `RknnEngine`, `ModelLoader` (`model/`) | context, `initialized_`, model buffer | `load`, `infer`, `close` | the RKNN driver | ready only with a live context, none leaked |
| `InferencePipelineBridge` (`pipeline/`) | an engine, `ready_` | `initialize`, `run`, `release` | `RknnEngine`, `Preprocessor` | `ready_` agrees with the engine |
| Preprocessing (`preprocess/`) | none | repair, smooth, clamp, resample | `Pipeline`, the bridge | no NaN leaves it, equals the reference interpolation |
| `CsvReader` (`preprocess/csv_reader.cpp`), `preprocess_csv` (`tools/`) | the caller's vector; an output file | `read`; the tool's `main` | the tool preprocesses what it has read | quotes as written, columns by name, no output without input |
| `Config` (`runtime/config.cpp`) | a map of values | `load`, getters | `main` and `Application`, one each | the last entry of a qualified key wins, no malformed line passes, numbers fit |
| Quantisation (`tensor/quantizer.cpp` and three more) | none | quantise, dequantise, pack | tools | the nearest code, saturation included |
| `BufferPool` (`tensor/`) | free list | `acquire`, `release` | any thread | one owner per buffer |
| `Softmax`, `Classifier` (`postprocess/`) | none | `apply`, `classify` | `Pipeline`, the bridge | first largest class |
| `Watchdog` (`runtime/`) | the last heartbeat | `heartbeat`, `healthy` | any thread | a verdict that was true at some instant |
| `WorkerManager` (`runtime/`) | a list of workers | `add`, `stop_all` | `Worker` | a stop that returns |
| `Logger` (`runtime/`) | level, a file stream, a mutex | `set_level`, `set_file`, `clear_file`, `log` | every thread | a file without gaps |
| `RecoveryManager`, `TensorMemoryPool`, `Tensor`, metrics, affinity, memory monitor, profilers, benchmarks, scripts | none, measurements, files | | | see "Not modelled" |

The components call each other directly; the only shared state is in the queues,
the atomic flags and the logger. What is hard is in the first four rows: threads
that sleep on condition variables and are woken after the mutex was released, a
chain of three bounded queues with backpressure, a `stop` that closes queues
while the workers drain them, a callback on a foreign thread, a restart. These
come first. `Watchdog`, `BufferPool`, `WorkerManager`, the quantisers and the tools
are used by nothing in the program `main` starts, so any client of them is allowed.
The hazards, each with its line, are listed in `PROJECT.json`.

## 2. What is modelled

**`Channel`** is the value a queue is to its users (`buf`, `shut`) and what each
critical section does to it. **`BoundedChannel`** is the promise made of it: a
specification in which each call takes effect in one step.

**`BlockingQueue`** is the class itself. A call is cut where other threads can act:
entering, the critical section (one step, because `mutex_` is held), and the
notification, which the code makes after the unlock. `pc[t]` says where a thread
is; a condition variable is the set of threads asleep on it. `notify_one` picks
any sleeper, a sleeper may wake for no reason (`SpuriousWake`), a deadline may
pass at any moment of a timed call (`Expire`). `wait_for` gives up only after it
has looked at its predicate once more (`GiveUp`). One liberty: a deadline that
passes before the first look makes the call give up at that look, where the
library would look twice in a row.

**`Pipeline`** is `pipeline.cpp` with `worker.cpp`. Each worker is at the test of
`running_` (`check`), at its pop, at its push, in the callback (`call`) or has
returned (`done`). A push or pop of a queue is one step, taken when its predicate
holds; that is sound because `BlockingQueue` implements `BoundedChannel`
(proved) and a thread that may proceed is woken (`SleepersServed`). The owner's
calls are lists of steps (`StartCalls`, `StopCalls`), interpreted one at a time,
so a worker can act between any two of them. Samples are numbers in submission
order, a window is the sequence of its samples. Preprocessing succeeds on any
non-empty window of this size (`Preprocessed`): its other failures need an
invalid option or an empty sequence, which Pipeline never gives it; a window it
did refuse would be dropped, as in the code (`CollectSample`).
`accepted`, `submitted` and `reported` are history.

**`Text`** and **`Config`** are `Config::load` line by line and the getters. A line
is a sequence of tokens: the characters the parser looks at, blanks, digits, signs,
and words, one token each. `OpenFile` clears the old values, one action per kind of
line follows (`SkipLine`, `EnterSection`, `SetValue`, `BadLine`), `EndOfLines` may come
early because `getline` does not tell an error from the end. `SizeOf` and `IntOf` are
`stoull` and `stoi` with their signs, their limits and the check that nothing is
left behind the number; `SizeLimit` and `IntLimit` stand for 2^64 and 2^31.

**`Startup`** extends it to `main` up to the queue: `main` loads the file, sets up the
logger and logs the capacity of the raw queue; `Application::initialize` loads the
file again, into a `Config` of its own, and builds the queue from that. The file may be
edited or removed at any moment, once. A queue of size 0 throws, and `main` aborts.
The other values of the configuration are only logged.

**`Application`** is what follows in `main` and `Application`. It extends `Pipeline`, keeps the
three workers, and replaces owner and feeder by the one main thread. A line of
the CSV file is readable or not; the bound on files is in `Files`.

**`RknnEngine`** is the engine, the bridge that owns it, `ModelLoader` and a driver
that may fail at every call. `ctx`, `initialized`, `buffer` and `ready` are the
members of the two classes, `loaded` is the driver's table of contexts. Each call of
the bridge is one step, one action per way it can end: the file cannot be read or
breaks off (`FileFails`), `rknn_init` refuses (`InitFails`), `rknn_query` refuses
after `ctx_` was overwritten (`QueryFails`), and success. `run` has the same split
at the count of the logits. Driver and file system are external, modelled from
how `rknn_engine.cpp` and `model_loader.cpp` use them. The build without
`PIPEAI_WITH_RKNN` is `WithRknn = FALSE`; the proofs cover both builds.

**`MissingRepair`** is the loop of `repair_radar_channel`, one step per iteration of
an outer loop, on an array whose cells are terms: the input sample at a position, the
floor, or a point on the line between two cells (**`Interp`**). A cell that was
interpolated from the wrong neighbours, or from a cell that had itself been
repaired, is a different term. `Interp!IsRepaired` says what `missing_repair.hpp`
promises (`np.interp` with endpoint hold), without the loop.

**`Preprocessor`** is `Preprocessor::run`, with the smoothing and the resampling as
functions and the repair by its result. Values are integers in units of
`1 / Unit`, with `Unit` a multiple of every divisor that occurs, so the arithmetic
is exact; what rounding to `float` adds is not modelled. The window of seven and
its weights are those of the code, the target length is a constant (in the
code 128, in the run 5). `resample_linear_normalized` also handles target lengths 0
and 1, which `run` never asks for; they are left out.

**`CsvSplit`** is the quote machine of `split_line` over tokens, one step per
character, and **`CsvReader`** extends it to the whole of `read`: header, columns by
name, rows one by one into the caller's vector. A number is a run of one digit
token, anything else that is not empty is none. Carriage returns and the byte order
mark are stripped before any of this and are left out. **`PreprocessTool`**
extends that to `tools/preprocess_csv.cpp`: the output goes to stdout or to a file,
which is opened after the reading; the header and each row are passed to a stream that
may have failed, and nobody asks. The check of the number of arguments, which
ends the tool before it does anything, and the messages are left out.

The components nothing connects to the pipeline have a module each:

* **`Watchdog`**: `heartbeat` is a reading of the clock and a store, `healthy` is a
  reading of the clock and one of the store in either order, then the comparison.
  Any step of another thread may come between. `newest`, `began`, `freshest` and
  `overtaken` are history.
* **`BufferPool`**: the free list. Calls hold the mutex throughout, so each is one
  step. `owners` counts the callers that believe they own a buffer, `extra` the
  releases by somebody who did not: `release` only looks at whether the pointer is
  one of the pool's.
* **`WorkerManager`**: `stop_all` as the list of stops and joins it makes, on the
  workers of `pipeline/worker.cpp`. The loops belong to the client; all that is kept
  of one is whom it waits for (`waits`), because the manager cannot end a wait.
* **`Logger`**: the file may refuse to open and a write may fail at any byte; a
  stream that has failed takes nothing more. A failed write leaves a part of a line
  (`Torn`) or nothing. What goes to the console is left out.
* **`Quantizer`**: the four float-to-int8 conversions. A value is its quotient by
  the scale in quarters, which makes ties exact. A conversion to `int` that does not
  fit, or a sum that does not, is undefined behaviour: any `int` may come of it.
  `quantize_int8` goes through a `long` and keeps its low bits.
* **`Classifier`**: softmax and the choice of the class. A logit is a number, an
  infinity or NaN; `exp` is any non-increasing table of the distance to the largest
  logit with 1 at zero, which includes every way it may round.

**`MCLibrary`** puts these six side by side. They share nothing, so a behaviour uses
one of them, chosen at the beginning (`used`), and leaves the others as built.

Assumptions about the client, all kept by `Application`: one thread owns the
pipeline, one feeds it, the callback is set before `start`, and nobody is inside
`submit` when the pipeline is destroyed.

Reading of the source. The sources do not compile as they stand (`Status::error`
does not exist, `Status::ok()` is a member function, `SensorManager` calls `open`
without its argument). The model takes the evident intent: `Status::error` is a
failure, `Status::ok()` a success. Failures to allocate memory or to create a
thread are not modelled.

## 3. Runs

| Run | Instance | What it shows |
|---|---|---|
| `queue` | 2 producers, 2 consumers, 1 closer, 2 items, capacity 2 | safety of every interleaving, and refinement of `BoundedChannel` |
| `queue_live` | 1 producer, 2 consumers, 1 closer, capacity 2 | `close` releases everybody, timed calls return, sleepers are served |
| `pipeline` | capacity 1, windows of 2, 10 samples; start, stop, restart, destroy at any time | what is reported and in which order, what `stop` may lose, that every call returns |
| `application` | capacity 1, windows of 2, files of up to 12 lines | no readable line is dropped on its way although nobody looks at what `submit` returns; the replay ends and every full window is reported |
| `engine_loaded` (violated) | as above | `docs/API_REFERENCE_AND_SEQUENCE.md` has `initialize` load the engine; it does not |
| `stride` (violated) | as above, stride 1 | `window_stride` is logged and has no effect: windows are disjoint |
| `engine` | 3 contexts, 2 models, one of which does not classify, 2 windows | which context, model and result belong together after any failures |
| `repair` | channels of 0 to 8 samples, every pattern of valid ones | the loop computes the reference interpolation, its indices stay inside |
| `preprocess` | windows of 0, 1, 2 and 6 to 9 samples, 2 channels, 5 outputs | smoothing, clamp and resampling against their definitions; all four stages together on lines and constants, with any samples missing between their ends |
| `csv` | 6 headers; every line of up to 4 tokens and some longer, then one of up to 2; a tensor of 2 rows under a header | the quote machine against the reading by parity; what the caller's vector holds; when the tool's output is overwritten and whether it is whole |
| `startup` | every file of one line of up to 4 tokens, 11 texts for the capacity, every file of up to 3 out of 11 chosen lines; 5 edits or the removal; `size_t` of 4 bits, `int` of 3 | the values against the file read as a whole, the getters against each other, the queue against the file and against what `main` logged |
| `library` | 2 beaters, clock to 4, timeout 1; 3 buffers, 1 extra release each; 3 workers, every `waits`; 2 log files, 4 messages; codes of 3 bits, `int` of 4, quotients -12 to 12 in quarters, 5 zero points; 4 classes, logits 0 to 2 and the special ones, every `exp` table up to 2 | each component by itself |

Why the bounds suffice. A wake-up can only go to the wrong thread when two sleep
on one condition variable, and a wake-up can be stolen only by a third; capacity 2
is the least with a state that is neither full nor empty. In `pipeline` ten
samples in windows of two fill every hand and every queue behind the raw one
while the last stage stands still; `submit` blocks whenever the first stage does
not keep up. In `application` twelve samples suffice to fill the raw queue as well
and to block `submit` at the end of the whole chain.
Three contexts are one more than the two it takes to lose one and go on. The
repair loop only tells apart a gap at the left, at the right, between two samples and
between two gaps, all of which a channel of five has; the proof covers the rest.
In `preprocess` six samples are too few to smooth, seven have both edges and no
middle but one, nine have a middle; a Savitzky-Golay row is linear in the samples, so
a wrong weight shows on inputs of two values. The lines that rise or fall there with
gaps at any place inside make a wrong neighbour, a wrong fraction, an edge row of the
wrong side or a knot off by one bend the result (`StraightSignalsKept`). In `csv` four tokens hold a quoted
field with a pair of quotes, and a separator beside quotes; the longer lines join
these. In `startup` a token more than `[k]`, `k=` or `#` needs is there for a blank or a
second `=`; the capacity's texts lie on both sides of each limit, with either sign,
and the fallback is neither; three lines hold a section, an entry and a second entry
of the same key written the other way. In `library` two beaters are what it takes to
overtake, a clock of 4 goes past the timeout on both sides of a call; three workers
form every shape of waiting a chain can have; the quotients reach past the `int` on
both sides, the zero points bring a sum out of it that a quotient alone does not.
Liveness uses a smaller queue instance because it costs more per state; its
properties are per thread.

Fairness. `Fairness` of each module asks that a thread that can run does (weak
fairness per thread) and that deadlines pass. The operating system's
scheduler and a mutex held for a few instructions justify it. Nothing is assumed
about callers: nobody has to push, pop, close, submit, start or stop. No sleeper is
owed a spurious wake-up. In `library` fairness is that of the workers' threads and of
the thread inside `stop_all`; nobody has to call it. Deadlock is not an error in that
run: workers that all wait for each other stand still there, and in the program.

Stop. `stop` closes all three queues before it joins any worker. What a worker
then pushes is refused and dropped, so windows are lost, but what reaches the
callback is always a prefix of the windows (`ReportedInOrder`), nothing is
reported twice or out of order even after a restart (`NothingReordered`), and
until the tensor queue is closed every accepted sample is in its place
(`NothingLost`). After `stop` a `start` returns true and the workers only spin
between `running_` and a closed queue.

Reload. The engine alone may be open beside the bytes of another file, or none, after
a reload failed half-way; the bridge's `ready_`, which the failed load set to
false, keeps it from being used (`ReadyKeepsItsModel`). A successful reload over an
open engine loses the old context: `load` overwrites `ctx_` without destroying it.
Nothing in the code or its documents says otherwise and the program loads only once,
so this is stated as the only way a context is lost (`LostOnlyByReload`), and
listed as a hazard.

Partial reads. `CsvReader::read` clears the caller's vector only when the header has
been accepted; a bad row leaves the rows before it (`SamplesAsRead`).

The second load. `main` logs the capacity it has read, `initialize` builds the queue
from what it reads later. The two agree whenever both loads read the same lines
(`QueueAsAnnounced`), which an edit between them, or a reading that breaks off,
prevents; nothing in the code notices. A size written with a minus comes out huge
(`GettersAgree`), because `stoull` negates, and is not refused.

Verdicts. A "stale" of the watchdog may be wrong in one case only: two heartbeats
overlap, and the older reading is stored last (`overtaken`).

Stopping several workers. `stop_all` returns if each worker waits only for one that
was added, and is therefore stopped, after it, and no two wait for the same. In
other orders it may hang for ever with the later workers running; the run has such
instances, and the property's premise leaves exactly them out (`WaitsForLater`).

Losses without a sign. After a failed write the logger writes nothing more to that
file, and `preprocess_csv` reports success; what is in the file is a beginning without
gaps (`LogWithoutGaps`, `OutputOnlyOnSuccess`).

What the properties permit. Where the code accepts what one might wish it refused, the
properties say what then happens and do not call it wrong: a configuration that changes
between its two loads, a size with a minus or of zero, a reload over an open engine, a
buffer released by somebody who does not own it, a quotient beyond `int`, logits that are
not numbers, a failed `set_file`, and the two silent losses above. The notes on these
hazards in `PROJECT.json` say for each what its property would and would not catch.

The replay. There is no other record of a line than the sample that is submitted, and
`Application` does not look at what `submit` returns. `NothingDropped` therefore compares
what is in the pipeline with the file itself.

Every property has a mutant in the module it is about (the operators named
`...Mutant`): a plausible slip of the code under which the property fails.

## 4. Proofs

Every invariant, every action property and the refinement that a passing run checks is
also a theorem, for all values of the constants that the named assumptions of the
modules allow. What rests on fairness is not (see below).

`BlockingQueueProofs` proves, for every finite set of threads, every set of items,
every capacity above zero and every choice of operations per thread:

* `TypeCorrect`: the bound and the types.
* `WakeupsKept`: `NoLostWakeup`.
* `ResultsJustified`: `ResultJustified`.
* `Implements`: `Spec => BoundedChannel!Spec` under the mapping
  `chan <- [buf |-> queue, shut |-> closed]`, `result <- ret`.

Assumptions: the constructor's check on the capacity, finitely many threads, and
items that are not one of the strings that stand for `true`, `false`, `nullopt`.

The inductive invariant is `IInv`. `TypeOK` is not inductive alone: that `Append`
keeps the type of the queue needs that a push at the mutex holds an item, and that
a notify_all is only ever under way on a closed queue; `CallOK` adds both. The
core is `NoLostWakeup`, which counts: while a consumer sleeps on an open queue,
there are at most as many items as threads that account for one, namely consumers
at the mutex and producers about to notify. A push adds an item and an accountant,
a notification hands the item over to the consumer it wakes, a pop removes both, and
a consumer goes to sleep, or gives up, only when there are no items. Producers
and free slots are symmetric. On a closed queue the argument is another: nobody
goes to sleep, and a notify_all is owed to whoever still does. `Grows`, `Gains`,
`Loses` and `Swaps` are the facts on cardinalities.

`PipelineProofs` proves, for every queue capacity and window length above zero, every
number of samples and every order of `start`, `stop`, restart, destruction and `submit`:
`ThreadsOwned` (`NoOrphanThread`), `CallbacksInTime`, `PipelineTypeCorrect`,
`ResultsInOrder` (`ReportedInOrder`), `SamplesKeptWhole` (`NothingLost`) and
`SamplesKeptInOrder` (`NothingReordered`). The invariants rest on one another:

* `ThreadInv`: a worker's thread exists only while the worker is marked running or
  the owner is about to join it. It is inductive because the owner's list holds the
  join as long as `running_` is cleared and the thread is there.
* `TypeInv` adds `HandsOK`: a worker has exactly one item in hand while it is at its
  push or in its callback, and none elsewhere. Without it a push has nothing of
  the right type to append.
* `OrderInv`: from the callback back to `submit`, every place (what was reported, a
  hand, a queue, the window buffer) holds a piece of one of three streams: results,
  windows, samples in submission order. `Follows(sq, stream, b)` says which piece. The
  anchor is `windowId`, the number of windows the inference stage has taken: the next
  window in the tensor queue is the one after it, and so on back to the raw queue.
  When a queue is closed the worker before it drops what it holds, so the claim about
  everything upstream of a queue is made only while that queue is open. What is
  already downstream goes on in order, and after a restart nothing more gets through:
  hence a prefix, never a gap.
* `CloseInv`: the result queue is never closed before the tensor queue (`CloseOrder`,
  which is a matter of the owner's list), every sample is accepted while the raw
  queue is open, and at most `windowId` windows lie behind the inference stage.
* `HeldInv`: what is upstream of a closed tensor queue. `Held(d)` is the claim of
  `OrderInv` moved by the `d` windows that the closed queue has refused so far, and
  the invariant is that some `d` fits, 0 while the queue is open. Reordering would need
  two pieces that overlap or are swapped, and no `d` allows that.

`NothingLost` and `NothingReordered` flatten sequences of windows into one sequence of
samples. The proofs describe the flattened sequence position by position first.

`ApplicationProofs` proves, for every file, capacity and window length:

* `ReplayComplete` (`NothingDropped`): however far the four threads are, the readable
  lines of the file are, in order and each once, in results and windows, in
  `window_buffer_`, in the raw queue, in `main`'s hands or still in the file. `OpenInv`
  shows that nothing in the program ever closes a queue (the owner's list holds only
  starts), so `submit` never refuses and the counts in `OrderInv` hold without their
  conditions; `LinesInv` counts the lines that are left. What remains for TLC is
  that the windows held do arrive (`ReplayReported`).
* `ReplayInOrder`: what the callback gets is a prefix of the windows of the file. A
  behaviour of the program is one of `Pipeline` by construction (`ProgramOfPipeline`, a
  lemma and no result), so the theorems of `PipelineProofs` apply to it.

`MissingRepairProofs` proves `RepairCorrect` and `IndicesStayInside` for channels of
every length and every pattern of valid samples. The invariant is a frontier at
`left`: up to it the channel is repaired as promised, between `left` and `right` it is
missing, from `right` on it is as `Mark` left it, and `left` itself is an input. The
last is what makes two neighbours of the walk neighbours among the valid positions.

`PreprocessorProofs` proves `NothingBelowMin` (`AboveSensorMin`), `SmoothingIsLeastSquares`,
`ResamplingIsLinear` and `StraightStaysStraight` (`StraightSignalsKept`), for windows of every size, every finite set of
channels and every target length above one. The invariant is `Given /\ Stages /\ Result`:
what the window is, what the stages passed so far have made of it, what the caller gets.

* The weights of the code against the normal equations of a least-squares parabola: both
  are sums over seven positions (`SumSeven`), then linear arithmetic on seven samples.
* The resampled value against the sum of all hats: every hat but those of the two
  neighbouring samples is zero there (`OneTerm`, `TwoTerms`), at a sample every one but its own.
* A line through all four stages. `RepairedCell` says what the repair puts in a cell: a
  sample, the nearest one if the cell is beyond all of them, or a point between two samples; on a
  line each of these is on the line, where `Straight` asks for both ends unless the channel is
  constant (`RepairKeepsLine`). The weights of every row add up to 42 and have the first
  moment of their own position (`RowOnLine`), so smoothing leaves it (`SmoothKeepsLine`); it is not below
  `sensor_min`, so the clamp does; and a line read at equidistant points is a line
  (`ResampleKeepsLine`). `UnitParts` and `RiseIs` are why nothing is lost to the integer
  quotients on the way.

`ExactAssumption` makes `Unit` a multiple of every divisor that occurs. It is the unit of an
exact arithmetic, not a claim about the code: for windows of bounded size
there is always such a unit, and the code's `float` is not exact (see section 2).

`FileProofs` is about the two parsers, for files of any length.

* `FieldsAsWritten` (`SplitAsWritten`): the quote machine against the reading by parity. The
  invariant `Machine` says of every moment: `quoted` is true exactly if the number of
  quotes passed is odd; as many fields are finished as separators were passed outside
  quotes, and each is right; the field under construction is plain so far, inside its
  quotes, just past them, or one that can no longer become a field of either form. The
  last is the case the definition says nothing about.
* `RowsAsRead` (`SamplesAsRead`): `Progress` relates how many samples there are to how many
  lines that are not empty were read, `Contents` says what each of them is.
* `OutputWhole` (`OutputOnlyOnSuccess`): until the reading has succeeded the output is
  the earlier file; then it is the lines up to the first failed write.
* `FilesSay` (`ValuesAsWritten`): `LoadInv` says, after every line, that `values_` has the keys of
  the entries read so far, that the last entry of a key has its value there, and that every
  line read is an accepted one.
* `NumbersAgree` (`GettersAgree`): for every text and every width of the two integers.
* `QueueSized` (`QueueAsAnnounced`): `StartupInv` adds that what was logged, and the size of the
  queue, are what the lines of the load in question say.

`LibraryProofs` is about the components of `MCLibrary` and about the engine.

* `NearestCodes` (`CodesNearest`), for codes and ints of any width and every zero point:
  `Round` is within half a unit, and clamping to an interval picks its nearest member.
* `NoGaps` (`LogWithoutGaps`), for any number of files and messages. The invariant says,
  position by position, which due message a line of the file is.
* `VerdictsTrue` (`VerdictTrue`), for every set of threads and every timeout. The invariant adds
  that each reading held by a call is one that was true since the call began, and what a
  stored reading can be.
* `PoolAccounted` (`BuffersAccounted`) and, from it, `NeverShared`: a buffer that was
  never released wrongly has one owner at most, and is not in the free list while it
  has one. The lemmas count the copies of a buffer in a sequence that loses its end or
  gains one.
* `ClassChosen` (`ClassIsBest`), for any number of classes, every table of the exponential and
  every combination of special values. `ExpsAre` says what the exponentials are in each
  case of the largest logit; that the sum of the exponentials is not zero is where
  the largest one, which is 1, is needed.
* `EngineTypeCorrect`, `ContextsAlive`, `ReadyIsTrue`, `NothingElseLost` and `ResultsWhole`, for
  every set of contexts, models and windows, in both builds. The inductive invariant is the
  conjunction of the engine's invariants: that a result has the type of a model which
  classifies needs `ready_` to be true of the engine, and that in turn needs the
  context to be alive.

`DataProofs` holds the inductions the others share. The provers can instantiate a set where
they cannot instantiate a predicate, so each induction is stated for a set that holds 0 (or the
empty set) and is closed under the step: `SetInduction`, `InductionUpTo`, `FiniteInduction`. The
sums of the community modules are CHOOSEn functions; `SumsExist` and `SumsUnique` say that
there is exactly one, `SumOut` takes a term out of it. `NthIs`, `NthOf` and `NthAdded` are about the
k-th member of a finite set of numbers, on which the parity reading of a line is built.

The assumptions on constants, apart from types and from sizes being positive: `NaN` is not
an integer (`ClassAssumption`), no log file is named "closed" (`LogFilesAssumption`), a file is
a sequence of lines and a line one of tokens (`FilesAssumption`, `LinesAssumption`), there is a
column to look for (`ColumnsAssumption`; the code looks for `D1` to `D8` and `IMU`), the fallback
capacity is a `size_t` and not 0 (`FallbackAssumption`; it is 1024), and `Unit` (see above).

Only model-checked: what must eventually happen, because liveness under fairness is beyond
the prover: `CloseReleases`, `TimedReturns` and `SleepersServed` of the queue,
`OwnerReturns`, `SubmitUnblocks` and `WindowsReported` of the pipeline, `ReplayReported` of the
application, and `StopAllReturns`, the only property of `WorkerManager`.

Not modelled:

* `RecoveryManager::recover_rknn` returns true and does nothing, and nobody calls it.
  `docs/RK3588_RUNTIME_PERFORMANCE_REPORT.md` lists recovery from NPU failures within
  2 to 5 s as something the system supports; there is no code a model of it could follow.
* `TensorMemoryPool` always hands out the first buffer and takes none back: no state,
  no record of owners. `Tensor` is a vector with a shape.
* `model/rknn_runtime/`: wrappers that keep what the driver fills in; nothing in the
  program builds them.
* Metrics, CPU affinity, the memory monitor and the profilers measure; nothing acts
  on what they find. The benchmarks and `pipeai_infer` are straight-line programs over
  components that are modelled. The Python and shell scripts are offline.
* `Config::get_float` and `get_bool`, which the program does not call; the text of log
  lines; `Application::shutdown`, which `main` never reaches because `run` does not
  return; `SensorManager`, which nobody uses.

## 5. Plan

Done: the queue and its refinement, the pipeline and the application, the start-up
with its configuration, the engine with its bridge, preprocessing, the CSV reader and
the tool on top of it, the watchdog, the pool, the worker manager, the logger, the
quantisers, the classifier; a proof of every property of theirs that does not rest on
fairness.

Left, in order of importance:

1. The safety half of the liveness properties as theorems: that `stop` and `submit` are
   blocked only where a worker or the callback can still move (for `Pipeline`), and that
   a worker `stop_all` has not reached is never joined (for `WorkerManager`).
2. The repair of `Preprocessor`, which takes the result of the loop, as a refinement by
   `MissingRepair`: for now the two share the definition `Interp!IsRepaired`, which the loop is
   proved to meet.
3. `Config`: the getters for floats and booleans, once the program uses them.
