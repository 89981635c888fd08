# Verification of radio_core in TLA+

`radio_core` is a C++ library for software defined radio: signal processing,
modulation, data link protocols (HDLC, AX.25, APRS), picture transmission (SSTV,
APT), and a signal path that feeds samples to sinks on other threads. This
directory holds TLA+ modules that model the parts of it with state and protocol,
the configurations that check them with TLC, and theorems about them proved with
TLAPS. Paths below are relative to `source/radio_core/`.

## Inventory

| Component | State it keeps | Operations | What is hard |
|---|---|---|---|
| Ring buffer stream, `base/ring_buffer_stream.h` | storage, size, read and write index, open flag; a mutex, two condition variables | `Reserve`, `Write`, `Read`, `WriteNonblocking`, `ReadNonblocking`, `Close` | blocking calls in several critical sections, one `notify_one` per chunk, wrap-around |
| Asynchronous sink, `signal_path/async_sink.h` | a span of samples, two flags, a worker thread | `PushSamples`, `Wait`, `StopAndWait`, `Run` | samples by reference, worker without the mutex, stop at any moment |
| Signal path, `signal_path/*.h` | options of five parts, work buffers, samples left in decimators, lists of sinks, soft start; a mutex and one for each collection | `Configure`, `ResetSoftAudioStart`, `PushSamples`, `AddSink`, `RemoveSink` | configuration and sinks change while samples are processed, buffers are sized from the input |
| HDLC, `protocol/datalink/hdlc/` | counts of ones, the last eight bits, data bits, flags of the frame | encode marker and byte, decode bit | bit stuffing, synchronisation, noise, markers shared by frames |
| NRZ(S), `protocol/binary/nrzs/` | last level | encode and decode bit | the two ends must agree on the level |
| AX.25, `protocol/datalink/ax25/` | field under decoding, window of four bytes, checksum, message | decode marker and byte, encode message | delayed checksum, limits of repeaters and information, lazy reset |
| APRS, `protocol/packet/aprs/` | the chain of coders | encode message, decode sample | order of empty frames, message, and the coders they pass |
| SSTV, `picture/sstv/` | state machines of VIS code, line synchronisation and lines; the image of the tool | encode picture, decode sample, process results | several machines hear the same tones, clocks that are no whole number of samples |
| Decimator, FIR filter, interpolator, `signal/`, and the ring buffers below them, `base/ring_buffer.h` | the last samples, the number of unprocessed ones | sample by sample, in batches, change of ratio | batches of any size, outputs written over the inputs |
| Digital PLL, `comm/digital_pll.h` | oscillator counter | sample | overflow is the clock |
| Static vector, `base/internal/tiny_lib/tl_static_vector.h` | raw storage, size | constructors, modifiers, swap, erase | objects constructed and destroyed by hand |
| APT, `picture/apt/` | samples of a line, synchronisation | decode and encode | correlation, numeric |
| Vector mathematics, `math/`, `math/kernel/` | a register, two planes or two halves; the position in a span | the operations of a vector of numbers, kernels over spans | the same meaning on every instruction set and for every length |
| FSK, analog modulation, filter design, generators, FFT | real numbers | per sample | numeric, no protocol |
| WAV tools, band plan, checksums, base utilities | buffers, tables | | file I/O and arithmetic |

How they interact. A radio source calls `PushSamples` of a signal path, on its
own thread; the path shifts, decimates, filters and demodulates and calls the
sinks of its two collections, under the mutex of the path and that of the
collection, while other threads configure the path and add or remove sinks. An
`AsyncSink` passes the span to its worker and the radio thread calls `Wait`. A
`RingBufferStream` moves samples between a producer and a consumer thread. The
decoders have no threads: each is a machine with an `operator()` per sample, bit
or byte. The APRS decoder calls the FSK demodulator, the NRZ(S) decoder, the
HDLC decoder and the AX.25 decoder, one result after the other; the encoder nests
callbacks in the opposite direction, so a bit becomes a level before the next one
is made. The SSTV decoder gives each sample to its VIS decoder, its line
synchronisation and its line decoder, in this order, and the tool puts the
results of all of them together to images. Below the filters, decimators and
shifters are the kernels of `math/kernel/`: loops over spans in vectors as wide
as the build has them, which are the vectorised types of `math/` over SSE, Neon
or an array.

## Modules

| Module | Models |
|---|---|
| `BoundedStream` | what the ring buffer stream promises: a bounded queue |
| `RingBufferStream` | `ring_buffer_stream.h` |
| `RingBufferStreamProofs` | lemmas about the ring; theorems |
| `FoldProofs` | induction over numbers and folds, lemmas for the other proofs |
| `AsyncSink`, `AsyncSinkProofs` | `async_sink.h`; theorems |
| `SignalPath`, `SignalPathProofs` | `base_signal_path.h`, `simple_signal_path.h`, `sink_collection.h`, `stages_decimation.h`: the threads around a path; theorems |
| `HdlcLink` | HDLC and NRZ(S) coders and a line |
| `Octets` | bits and bytes of the data link layers |
| `Ax25Frame` | AX.25 messages, the encoder, the checksum: `ax25/message.h`, `control.h`, `encoder.h`, `crypto/crc-16-ccitt.h` |
| `Ax25Decoder` | `ax25/decoder.h` |
| `Ax25Reception` | that decoder with its caller, who takes the messages, and the layout of a frame |
| `MessageChannel` | what a data link promises: messages are lost or arrive, once and unchanged |
| `Ax25Link` | encoder and decoder of AX.25 with a disturbed channel of bytes between them |
| `AprsLink` | `aprs/encoder.h` and `aprs/decoder.h`: AX.25, HDLC and NRZ(S) in both directions, and the empty frames |
| `DataLinkProofs` | theorems about `HdlcLink`, `Ax25Decoder`, `Ax25Link` and `AprsLink` |
| `SstvEncoder` | VOX, VIS and picture encoder as tones |
| `DigitalPLL` | `digital_pll.h` |
| `SstvVisDecoder`, `SstvLineDecoder` | `vis_decoder.h`; `line_sync.h` and `line_decoder.h` |
| `SstvLink`, `SstvLinkProofs` | a transmission, its reception and the images of `sstv/tool/decoder.cc`; theorems |
| `RingBuffer` | `RingBuffer` and `ReverseStorageRingBuffer` |
| `Decimator`, `FirFilter` | `decimator.h`; `fir_filter.h` and `simple_fir_filter.h` |
| `FilterChain`, `FilterChainProofs` | `receive_filter.h` with its interpolator, and the decimation to the audio rate; theorems |
| `StaticVector`, `StaticVectorProofs` | `tl_static_vector.h`; theorems |
| `LaneArithmetic` | the numbers of a lane: `base_complex.h` over a small field |
| `VectorLanes` | what the vectorised types promise: N numbers, each operated on alone |
| `VectorBackends` | `math/internal/*_x86.h`, `*_neon.h`, `*_scalar.h` and the pairs of halves, a table for each |
| `VectorCalls`, `VectorRegisters` | a call on a vector, run by the tables; a program with one vector |
| `VectorKernels` | `math/kernel/`: the loops of every kernel, and the templates they specialise |
| `VectorMath` | both in one specification |
| `MC*` | instances for TLC |

### RingBufferStream

`ring` is `buffer_` (its size is `capacity`), `size_` and the two indices; a
thread's place in its call is `pc`, its locals are `call_capacity`, `todo`,
`want` and `got`. A step is one critical section: an iteration of the loop of
`Write` (`WriteClosed`, `WriteWait` or `WriteSome`) or `Read`, a nonblocking
call, `Reserve`, and the three statements of `Close`, whose notifications are
outside of the mutex. `notify_one` moves one waiting thread, any, back to its
loop, and a wait may end without notification. `Write` reads the capacity once
before it locks; differences of `size_type` wrap around (`Minus`), which
`SizeModulus` stands for. A closed `Write` or `Read` abandons its rest.
`Reserve` gives new slots any value of `Element`; the storage is reserved before
the threads start, as in the tests.

### AsyncSink

Batches are numbered; a span is the number of the batch it points at. The
statements of `Run` are steps of their own where the mutex is not held: the read
of `samples_`, `ProcessSamples`, and `samples_ = {}`. The critical sections of
`PushSamples`, `Wait`, `StopAndWait` and `Run` are one step each, and the
notifications another. The radio thread waits after every push. Any number of
owners call `StopAndWait`, again and again, the destructor being one of them. The
model begins when the object is constructed.

### HdlcLink

A byte is the sequence of its bits in the order of the line. The sender is the
HDLC encoder (`num_sequential_ones`) and the NRZ(S) encoder (`sent_level`); a
bit leaves `out_bits` in the step that makes it a level, and the same step runs
both decoders on it, as the code's callbacks do, so nothing is ever in flight
between them. `Noise` shows the receiver a level nobody sent and `Lose` hides
one. `caller` builds frames of begin, bytes, end, also empty ones. `consumer`
adds up the events the decoder hands over, in the order the AX.25 decoder
expects them. `delivered` is the last complete frame. The decoder's branches are
`DecodeMarker`, `DropStuffing`, `KeepDataBit` and `CompleteByte`.

### Ax25Frame, Ax25Decoder, Ax25Reception and Ax25Link

`Ax25Frame` computes the bytes of a message field by field, in the order of the
encoder's `Push...` functions, and the checksum, whose table is written in closed
form (`UpdateCRC`); the closed form was compared with all 256 entries of the
table. `CallsignLength`, `InformationCapacity` and `MaxNumRepeaters` are 6, 256
and 14 in the code.

`Ax25Decoder` has the variables of the decoder, with the two windows as sequences:
`information_data` for the 32 bit window of the information, `fcs_data` for the
16 bit window of the checksum. One action is one call: `MarkBegin`, `MarkEnd`, or
`ProcessByte` with one alternative per field. `outcome` is the result of the
call. `address` holds what `Address::Clear` leaves of `command_response_bit` as
0, since each decoded address assigns it. `ProcessFCSByte` answers a frame
without information at its second checksum byte, before the end marker.

`Ax25Reception` adds who calls the decoder: `ReceiveBegin`, `ReceiveByte` and
`ReceiveEnd` are the three calls, and what the caller does with a result that is Ok
(`TakeResult`). `seen` keeps the bytes since the last begin and `before` how many
messages had been taken there, so that the decoder, which sees one byte at a time,
can be compared with the layout of the whole frame (`WellFormed`, `Parsed`), written
without windows or states. `Ax25Link` and `AprsLink` extend it: one feeds it a channel
of bytes, the other the results of the HDLC decoder.

`Ax25Link` sends messages, and frames of a foreign station with more repeaters
or information than fit, and hands them over as the HDLC decoder does: a begin,
at least one byte, an end. `FlipBit`, `LoseByte`, `AddByte` and `Split` disturb
the frame. `DecodesTheFrame` compares the decoder with the layout. `AsReceived` says what of a message its receiver can know: the
C and the H bit share a place, and the information ends at its first null
character.

### AprsLink

`AprsLink` puts both chains together. A message is encoded to the bytes of
`Ax25Frame`, each of which goes through the HDLC and NRZ(S) coders of `HdlcLink`
bit by bit, over the line with its disturbances, and back; `HdlcResult` is what
the HDLC decoder returns for a bit, up to a marker and a byte, and the AX.25
decoder takes it before the next bit is made, as the nested calls of the code
do. It extends both `HdlcLink` and `Ax25Reception`, so that its proofs can use theirs. `EncodeEmptyFrame` makes levels of its two markers without the NRZ(S)
encoder, which is what the code does.

### SignalPath

A sample is only counted; what a batch is computed *with* is kept instead. `path`
holds, for each part (decimation, shifters, filter, demodulator, audio), the
options it was configured with, and `radio.through` collects the options of the
parts a batch went through. `mutex` and `collection` are the mutexes of the path
and of the two collections, by holder. `Configure` is one step for each part, in
the order of the code, `PushSamples` one step for the work between two locks
(`ProcessIF`, `ProcessAF`) and one for the call of each sink, since the
collection calls them under its mutex. `left` counts the unprocessed samples of
the three decimators, with the count of `Decimator::operator()`, and `buffers`
the sizes of the work buffers: with `IfToAf`, `IqToIf` and `FilterRatio`, the
ratios the code derives from rates and bandwidth, every size of a stage is the
one of the code. `volume` and `charge` are the soft start and the AGC.
`configured`, `heard` and `asked` are history. Threads call in any order and any
number of times; an owner may add its sink again before it removes it, which
removes every occurrence.

### SSTV

`SstvEncoder` makes a transmission of tones: VOX, VIS (leader, break, leader,
start bit, seven bits, parity, stop bit), and for every pair of rows a
synchronisation, a porch and four parts of pixels. `SstvVisDecoder` has the
states of the VIS decoder with their counts of samples; the bits are sampled by
`DigitalPLL`, whose counter wraps at `CounterBits` bits (32 in the code, 16 in
the run). `SstvLineDecoder` has the line synchronisation (`sync`) and the
line decoder, whose clock carries the rest of a pixel and of a line into the
next. `SstvLink` plays a fixed sequence of pictures, some broken off, sample by
sample through all three and through the `ResultProcessor` of the tool. `Init`
chooses a `fault`: some consecutive tones of the transmission, anywhere, are
received at another frequency.

What is abstracted: the frequency demodulator and the averages have settled, so
a sample has the frequency of its tone, the two exponential averages of
`edge_detector.h` differ at a step by `EdgeResponse` = 72 % of it, the maximum of
0.975^n - 0.75^n, and the prefilter of the VIS decoder is a delay of `VISDelay`
samples. The durations are in the proportions of the code, scaled down; the
luma of a pixel is the tone it was sampled in, so that a row says exactly which
tones it was made of.

`Harmless` says which faults the decoder can be expected to get over; what it
leaves out are limits of the decoder that the model shows. A leader tone that
seems longer, or a VIS that is hit, loses the VIS, and the picture is
decoded in the default mode or, in the middle of another picture, as lines of
that; a tone that looks like the synchronisation (the start bit and the stop bit
have its frequency) and is followed by a rise begins a line; an edge that is
missed is waited for without a time limit, and the next rise ends the wait. The delay
of the VIS decoder is given to the line decoder in whole milliseconds
(`GetDelayInMilliseconds`), and its rest is an error of the clock of the first
line, which is kept until the first synchronisation.

### RingBuffer, Decimator, FirFilter and FilterChain

The values of samples and kernels are left out. Every stage numbers the samples
it takes, and an output is the sequence of the samples it was computed from, in
the order of the kernel: a wrong place in a ring, an overwritten sample, a
sample that is skipped or used twice all show as a wrong window. The storage of
`RingBuffer` and `ReverseStorageRingBuffer` is a sequence with a write index, its
batch operations as two copies. `Decimate` is the call for a batch, in its three
phases: outputs from the ring (`ProcessCombinedSamples`), the latest samples
stored, outputs straight from the memory of the batch
(`ProcessContinuousSamples`). In place (`inPlace`) the outputs are written over
the batch, where `Written` marks them. `FilterBatch` has the prefix with its own
buffer and the rest from its end backward. `FilterChain` composes them as the
path does: decimator, filter and interpolator of the `ReceiveFilter`, and the
decimator of the audio in place; stages of ratio 1 are identities there where
the code passes them by. `TapsPerRatio` is 20 in the code and 1 in the runs: the
number of taps is `TapsPerRatio * ratio + 1`, and what has to be met is a kernel
that is longer than a group and shorter than a batch. `short` marks the
decimators that forgot samples (see Disagreements), for which
`OutputsOnTime` and `BatchesAsSamples` are not asked until the ratio changes.

### StaticVector

A slot holds a value, `Moved` (an object that was moved from), `Raw` (no object)
or `Abandoned`: `ResetOnMove` sets the size of a vector that was moved from to
zero and destroys nothing, so its objects stay in the storage, forgotten. A later
construction may reuse such a slot, but the destructor of what was there never runs.
Every loop of the code runs element by element (`Upwards`, `Downwards`), and `wrong`
records an object constructed over a living one, or destroyed or read where none
lives. An action is one call of one of two vectors, including their construction
and destruction in any order, calls that throw (when the size that the code computes
is above the capacity), a vector assigned to itself and an element of the vector
inserted into it (`InsertOwn`). `Promised` says what `std::vector` would do with the
contents.

All calls the header allows are steps. Two of them go wrong in the code: an insertion
or erasure of no elements before the end, and the insertion of an own element that is
moved away first (`Mishandled`). `unsound` records that one of them was made; what the
vector does after it is undefined and is not followed (`Undefined`), and the
properties `ElementsLive` and `CallsAsVector` say so. What the header promises of these
calls, of moves and of `resize`, and the code does not do, stands at the end of the
module (see Disagreements).

### LaneArithmetic, VectorLanes, VectorBackends, VectorCalls and VectorRegisters

What can go wrong in the vectorised types is which lane meets which lane, and with
which sign; rounding is left out. `LaneArithmetic` takes a real for an element
of the field of seven elements, written -3..3: sums and products are exact, their
order does not matter, a quotient exists for every divisor but 0, and since 7 % 4
is 3 the complex numbers are a field as well. The transcendental functions are
some different functions of a lane. `VectorLanes` is the promise of the three
headers, whose comments say of each operation `RESULT[i] = ...`: the value of a
vector is the sequence of its lanes (`lanes`), and a call changes it (`Become`) or
returns something (`Keep`).

`VectorBackends` has two tables for each specialisation of `VectorizedFloatTypeInfo`
and its relatives: the instruction of every operation, and the order of the lanes in
shuffles, reductions and planes. `_MM_SHUFFLE`, `vrev64`, `vext`, `vpadd`, `vld2`
and the rest of the intrinsics are definitions by what the processors do.
`VectorCalls` runs a table: `LeafFloat`, `LeafPlanes` and `LeafArray` for
one register, two planes and an array of complex numbers, `LeafInt`, and `PairCall`
for vectors of eight as two of four. `Implementation` says which table a type has
in a build (`isa`), as the includes do. `VectorRegisters` is
a program with one vector: `reg` is the register, `Stored` what `Store` writes to
memory, and `Promise` the instance of `VectorLanes` with `lanes <- Stored`.

### VectorKernels and VectorMath

A kernel is a table too, one for each `struct Kernel`: its loops, each with the
step, the mask of the number of samples (`align`) and the width of its vectors,
what is done to a block (`body`), and how the registers reach the result at the
end of a loop (`fold`). `ReduceBlock` and `MapBlock` are one iteration, `EndLoop` is
the code between two loops, with the start of the next one. A kernel stands on the
promise of the vectorised types: its vectors are sequences of lanes and their
operations the scalar ones on each lane, which `ActsOnLanes` checks of every backend;
the build decides which loops a kernel has (`IsVectorized`). The memory around the
spans holds other numbers, and `Behind` samples behind the output are watched.
`Template` is the loop over single samples that each kernel specialises, and
`BeginsAgain` is what the one kernel does that is not its template.

## Runs

States are distinct states.

| Run | Shows | States |
|---|---|---|
| `ring_stream_pair` | one producer, one consumer, a closer; payloads of 4 and 1 elements on rings of 2 and 3, reads of up to 3: each side waits only for the other, calls return, `Close` releases | 139 214 |
| `ring_stream_crowd` | two producers, two consumers, a closer, a ring of 2: `StreamConsistent`, `NoMutualWait`, and the refinement `ImplementsStream` | 711 391 |
| `ring_stream_close` | violated: `Close` with two waiting consumers leaves one | |
| `async_sink` | four batches, two owners: `Wait` covers the processing, batches once and in order, waits and stops return | 5 666 |
| `signal_path` | the radio thread and two controllers, one of which owns sinks, two configurations, batches of 1 and 13: a batch has one configuration, removed sinks are left alone, the buffers suffice, a change of modulation starts quietly, the mutex comes back | 447 312 |
| `hdlc_link` | two frames of up to two bytes with two disturbances anywhere: delimited frames, clean frames arrive, markers synchronise | 5.4 million |
| `ax25_link` | two frames with up to two disturbances, six messages (no, one and two repeaters; no, some and full information; a null character; without information) and five foreign frames beyond the limits: the checksum compared is that of the bytes before it, `DecodesTheFrame`, clean frames are delivered, `ImplementsFrameChannel` | 1.7 million |
| `aprs_message` | one of three messages through all layers with two disturbances of the line anywhere: the first message of an encoder arrives without noise (`FirstMessageArrives`), and `ImplementsChannel` with it | 2.6 million |
| `sstv_link` | three pictures in two modes, the second broken off, with any of six bursts at any tone: no more results than fit, rows fit the image and keep their line, one wrong tone makes no wrong code, whole pictures arrive, and the last one whatever happened before | 328 819 |
| `filter_chain` | batches of 0, 1, 2, 5 and 11 samples, three configurations and two changes: outputs of the latest samples, on time, and as if the samples came one by one, except in decimators that were short | 196 477 |
| `static_vector` | any calls on two vectors of three elements, with ranges of up to four: but for what a move abandons, objects live exactly where the elements are; calls that are not mishandled do what those of `std::vector` do, or throw when the code's own sum is too large | 56 951, up to symmetry |
| `vector_math` | every operation of the twelve vector types on SSE without and with fused products, Neon of 32 and 64 bits, and plain loops: `ActsOnLanes`, with two exceptions for the upper half of unsigned lanes; twelve kernels on SSE, Neon and plain loops, for fourteen lengths: `KernelsAreTheirTemplates`, with one exception, the rotator of eight lanes | 22 607 |

Why the bounds are enough. A ring of 2 or 3 with portions of 1 to 4 makes the
wrapped copies, full and empty rings, calls of several chunks and a call closed
half way all happen; two threads on each side are the fewest in which
`notify_one` can choose the wrong one. `SizeModulus` 256 lies above every sum of
indices, as 2^64 does; `Minus` would show an underflow, which the proofs exclude
for any modulus larger than the capacity. In `AsyncSink` the radio thread has at
most one batch under way, so a fourth batch repeats the states of the third. The
bytes of `MCHdlcLink` have five and more ones at each place of a byte and across
two bytes, and include the marker's own pattern; two frames let the first and
the noise in it spoil the second, and two disturbances are a lost and an added
level in either order. In the AX.25 runs calls of one character, information of up to four and two
repeaters make every window fill and every limit be met and exceeded by one and
by more; the second frame meets what the first one left. A wrong bit is bit 1,
the extension bit of an address and the type of a control byte, or bit 2, the
first of a call sign. Two disturbances are the bound of the two channel properties: a
checksum of 16 bits cannot tell all frames apart, and with three disturbances of
the line in `AprsLink` TLC finds a frame whose control byte becomes that of a
frame without information, so that the two bytes after it are taken for the
checksum (`ProcessFCSByte`) and match. The comment in `ax25/decoder.h:497-499`
accepts this to decode more in noise; the claim checked here is the one for at
most two disturbances of these instances.

In `signal_path` the two configurations differ in modulation, AGC and the ratio
of every decimator (3, 2 and 1 against 2, 1 and 6, from the input through the
filter to the audio), so that the branches for the ratio 1 are met and left; 13
samples leave a rest in each and 1 sample gives no output; two controllers are the
fewest of which one changes what the other has just set. In `sstv_link` a broken picture lasts longer than the next
VIS, so that the decoder is in the middle of its lines when the next one begins;
the bursts are one tone, some bits, and more than two lines, of a wrong
synchronisation, a leader and a bit. `filter_chain` has ratios that divide the
kernel and that do not, batches below, at and above the sizes where the filter
and the decimator change their method, and 16 samples fill every ring twice.
`static_vector` has ranges that never fit, and a range and an index on both sides
of every element. In `vector_math` the vectors of numbers have no two equal
neighbours and no zero, which may be divisors; each operation meets two of them and
a constant one, each lane is read and set. A call depends on the register alone, so
one call after a load (`MaxCalls`) from every starting value shows what a sequence of
calls can. The lengths are below, at and above a multiple of each step, with up to
three rests after each other (44 = 32 + 8 + 4, 23 = 16 + 4 + 3), and the maximum is
at the ends, in the middle and in the last samples. Unsigned lanes have
four bits and take values up to `MaxInt` = 15, all of them; half of their vectors stay
below 8, so that the operations that are wrong above it are checked in full below it.
The `float` of `SetLane` has three bits there, as it has 24 of 32, and the numbers it
rounds beyond the range of a lane, where the conversion back is undefined, are not set.

The symmetries of `ring_stream_crowd` (threads) and `static_vector` (vectors and
values, none of which a call tells from another) are used with safety properties only. The
`hdlc`, `ax25`, `aprs`, `sstv` and filter runs do not check for deadlock: the
bounded sender has nothing left to send.

Fairness. `FairSpec` of the stream assumes that a thread inside a call keeps
running and that a woken thread gets the mutex; `BusySpec` adds that the
consumer keeps reading and the producer keeps writing, without which a blocking
call cannot be expected to return. `FairSpec` of the sink assumes the worker,
which includes that `ProcessSamples` returns, and threads inside `Wait`,
`PushSamples` and `StopAndWait`. Nothing assumes that a call is made, that the
sink is stopped, or that a wait ends spuriously. `FairSpec` of the signal path
assumes only that a thread which holds the mutex keeps running and that sinks
return: `std::mutex` promises no order among those that wait, so a `Configure`
may starve, and no property says otherwise. `FairSpec` of `SstvLink` is weak
fairness of the next sample: the tool reads the file to its end, and flushes.

## Disagreements with the comments

One run is expected to be violated; `PROJECT.json` quotes the comment: `Close` of
the stream wakes one waiting thread of each kind instead of all
(`ring_stream_close`).

The others were met while the models were written, in the code and, where the
model reaches them, in a trace. Data link:

- `Reserve` of a used stream keeps its indices, also of an empty one
  (`ring_buffer_stream.h:65`), so that a smaller storage is indexed outside. The model
  reserves before the threads start, so no property is about this.
- `Wait` of the asynchronous sink returns on a stop while the samples are still
  being read (`async_sink.h:47`).
- The HDLC encoder counts ones across a marker (`hdlc/encoder.h:91`), so a frame that
  begins with ones may be stuffed where its decoder does not expect it: with
  `FirstBytes <- ManyBytes` TLC finds `CleanFrameArrives` violated without any noise.
  AX.25 frames begin with a 0, which keeps it out of APRS, and `hdlc_link` has such
  frames only.
- The APRS encoder sends its empty frames without NRZ(S) coding
  (`aprs/encoder.h:121`): with one leading and one trailing empty frame the second
  message of an encoder may be lost, with none it arrives. `FirstMessageArrives` is
  about the first one; `MessagesArrive`, about every one, TLC finds violated with
  `MaxFrames` = 2 and no noise.
- A null character ends the information of an AX.25 message when it is encoded
  (`ax25/encoder.h:119`), although received information may contain one. `AsReceived`
  cuts the information in the same way, so no property is about this.
- The call of the AX.25 decoder with a whole frame (`ax25/decoder.h:166`) does not
  return the message of a frame without information, which the calls with single
  bytes do.
- `hdlc/decoder.h:21-23` says that delimiters that share a 0 are not implemented,
  and the sliding window does find them; `ring_buffer_stream.h:94` says a new
  iteration obtains the new capacity, which line 74 reads once.

Pictures:

- A parity bit that is neither of the two tones leaves `vis_decoder.h:490` before
  the parity is compared, and the code is accepted without it.
  No property is about this: `SingleErrorDetected` holds with it, since with one tone
  wrong that is the parity bit itself.
- Neither tool counts the images it stores (`num_decoded_images_`,
  `sstv/tool/decoder.cc:299` and the same in `apt/tool/decoder.cc`), so that every
  image has the number 1 and replaces the one before; `files` of `SstvLink` keeps
  them all.

Filters and path:

- The decimator assigns, instead of adding, the number of samples left by a batch
  (`decimator.h:201`): batches that do not complete a group are forgotten in the
  count, and with batches of less than half of the ratio no output ever comes. The
  comment on the count (`decimator.h:348`) is `SamplesAreCounted` of `FilterChain`,
  which batches of 1 and 2 samples violate.
- `ReceiveFilter::Configure` compares with `configured_options_` and never assigns
  it (`receive_filter.h:55-58`): it configures every time.
- The comments of `SimpleFIRFilter` say that setting the kernel resets the samples;
  one of the same size does not. Its constructor from a span hands the base class a
  kernel that is not constructed yet.
- A change of the ratio resizes the storage of the decimator and keeps old samples
  in an order of their own; the outputs of the first kernel length mix them in.
- The interpolator drops the last tap of its kernel, whose length is not a multiple
  of the ratio.
- `ring_double_buffer.h:106-107` calls index 0 the most recent element; the
  buffer and its tests have the oldest one there.
- The soft start is reset by a change of modulation, not when only the AGC is
  enabled: it then starts at full volume, without charge.
- The generator makes one sample more than fits for a tone whose length is a whole
  number of samples (`generator.h`, the two functions disagree).
- `BufferedWAVWriter::Flush` ignores whether the write succeeded.

Vectors and kernels, none of which the tests reach:

- The rotator of eight lanes never writes its phase back
  (`rotator_vectorized.h:44-77`), so that the loops behind it, and the caller, go on
  from the phase of the first sample. That is `HalfComplex` on 64 bit Neon, with the
  frequency shifter as a user; the test takes 40 samples and does not look at
  the phase. It is among the kernels of `vector_math`: `KernelsAreTheirTemplates` says
  of it what it does (`BeginsAgain`); its template TLC finds violated from 8 samples on.
- `Min`, `Max` and `HorizontalMax` of unsigned lanes are instructions for signed ones
  on x86 (`uint4_x86.h:30`, `:43`), and `SetLane` of `UInt8` takes its lane as a `float`
  (`uint8_uint4x2.h:109`), which rounds above 24 bits. `ActsOnLanes` names both
  (`ComparesAsSigned`, `SetsThroughFloat`) and asks less of them when a lane is in the
  upper half of its range.
- The specialisations of `DotFlip` and `Norm` for Neon are in namespaces where no call
  looks for them (`dot_flip_neon.h:23`, `norm_neon.h:21`), so that the general
  kernels run; `DotFlipGUnreached` and `NormUnreached` check them as they stand.
- The loop of four in the kernels of dot products rounds the length to eight
  (`dot_vectorized.h:72`, and sixteen for the loop of eight in `dot_neon.h:138`): right,
  but up to seven samples go one by one.

`StaticVector`, none of which the repository's calls reach. The first three are
properties at the end of the module; no run has them, since TLC finds each violated
after a few calls.

- `erase` of an empty range before the end, and `insert` of one, relocate each element
  behind it onto itself and then destroy it (`tl_static_vector.h:580`, `:753`):
  `EmptyRangesChangeNothing`.
- `resize` throws when the *sum* of the old and the new size exceeds the capacity
  (`:635`, `:650`): `ThrowsOnlyIfTooLong`. `CallsAsVector` names this as the one other
  reason for which a call throws (`ThrowsTooSoon`).
- A move leaves the objects that were moved from without destruction (`:731`):
  `ObjectsEnd`. `ElementsLive` tells these from elements and raw memory.
- Inserting an element of the vector itself reads it after it was relocated (`:465`,
  `InsertOwn`): one behind the place of insertion is then the one before it, and the
  one at that place is gone.

## Proofs

All theorems hold for every value of the constants that satisfies the named
assumptions of the modules, which TLC evaluates in the runs. Most give the
constants their types. Those that ask for more say why the code meets them:

- `MessagesAssumption`: a message has at most `MaxNumRepeaters` repeaters, which is
  the size of the array in `Message` (`ax25/message.h:277`).
- `LineAssumption` and `ModesAssumption`: a line goes on for at least a sample after
  its pulse, a picture has at least four rows, and a VIS code seven bits, which all
  modes of the code do by far.
- `OptionsAssumption` of the signal path: the input rate is a multiple of the audio
  rate, which `StagesDecimation::Calculate` verifies.

Some theorems have a hypothesis of their own. `PairWaitsOnlyForTheOther` is about
one producer and one consumer (`OnePair`), as the class is meant to be used;
`CleanFramesArrive` about frames whose first bit is 0 (`FirstBitIsZero`), as that
of AX.25 is, since addresses are shifted left by one; `NoiselessMessagesArrive` about
a line without noise, the first message of an encoder, and every message only if there
are no empty frames (see Disagreements). Those of the static vector hold until a call
is made that the code gets wrong (`unsound`).

*FoldProofs.* The provers have no induction over a formula, but they have it over
a set: `NatSetInduction` takes the set of the numbers with a property. Folds and
loops are recursive functions solved by `CHOOSE`; that a solution exists is shown
once, by the same induction, and then what one more step of the fold does. The
proofs of AX.25, the signal path, SSTV and the static vector rest on these.

*RingBufferStreamProofs.* `StreamConsistent` alone is not inductive: that a
chunk fits needs the captured capacity to be the current one, and that the
subtractions do not wrap needs the capacity to be below `SizeModulus`. `StreamInv`
adds this (`CallsConsistent`). Lemmas about the ring prove that `WriteWrapped`
appends to, and `ReadWrapped` takes from the front of, the content of a
consistent ring, and keeps it consistent; `StreamInvariant` has one step per
action from these lemmas. `StreamImplementsQueue` maps each step to a step of
`BoundedStream` or a stutter. `NeverMutualWait` needs the reason why it holds:
a write that fills the ring wakes a reader who keeps running until it has read
(`FullWakesReader`), and the same for the writers (`EmptyWakesWriter`).
`PairWaitsOnlyForTheOther` is inductive with `StreamInv`: with one thread on each
side, whoever moves elements wakes the only thread that may wait for them.

*AsyncSinkProofs.* `SinkInv` says at which place of `Run` the worker may be when
the flag and the span have which values. `WaitMeansProcessed` and
`MemoryValidWhileRunning` follow from it; `ProcessedInOrder` is an action
property proved from it.

*DataLinkProofs*, about `HdlcLink`. `LinkTypeCorrect` gives the ranges of the counters;
`DecoderDelimitsFrames` proves `FramesAreDelimited`, which is inductive with
the types, over every branch of the decoder and every disturbance.
`MarkerAlwaysSynchronises` needs to know how far the first marker of a frame has come
on a clean line: `SyncInv` says that the last n bits in the decoder's window are
those of the marker and the rest of it is still with the sender (`Opening`).
`CleanFramesArrive` goes on with this through the frame (`CleanInv`): `Sending`
relates the bits that the sender still has, with the stuffed ones among them, to the
bits the decoder has collected and to the ones that each side has counted, and
`Closing` is the second marker, which enters the decoder as data until its last
bit shows what it was.

*DataLinkProofs*, about AX.25. `DecoderSpec` is the decoder with any bytes and any markers
in any order, whatever sends them. That the decoder compares the checksum with
the bytes it was computed from (`ChecksumIsLast`) depends on its two windows
side by side: bytes enter both, but leave them by different rules, the one for
the information four bytes late and not at all once the information is full
(`InformationDropped`). `WindowsAgree` says that one ends with the other as long
as that has not happened, and is what makes `DecoderInv` inductive with the types
of the fields. The proof has one step for each field of `ProcessByte`.

`LinkInv` is about the decoder and the line together. Its core is `FollowsTheBytes`:
for the bytes seen since the begin of the frame, it says in which field the decoder
is, which of these bytes are in `address`, in `message`, in the windows and in the
checksum, and which are lost because something was full. `ByteFollows` and
`EndFollows` keep it, with a lemma for each field; `DecodesTheFrame`
(`DecoderFollowsTheLayout`) is what it says at the end. The encoder is a recursion
over repeaters and information: by induction over both, what it writes has a layout
(`AreAddresses`, `IsContent`), no other layout fits these bytes, and the layout
parses to the message up to what AX.25 cannot carry (`DecoderInvertsEncoder`). The two
meet in `EncodedMessagesArrive`: a frame that nothing disturbs is the encoder's, seen
and to come (`CleanFrameOnItsWay`), so at its end the decoder returns its message.

*DataLinkProofs*, about `AprsLink`. A theorem about one specification cannot be used
for another that only instantiates it, so `AprsLink` extends the modules of both links,
and the lemmas about their actions are those of its own actions. What is new is between
the layers. `Handover` says what the HDLC decoder has returned and the AX.25 decoder
has not yet decoded: nothing, a begin with the first byte, one more byte, or an end;
with it the bytes that the frame markers enclose are at each point those that
`FollowsTheBytes` is about, whatever the line carries. `DecodersAlwaysAgree` is this
between two frames. `MessageInv` follows a message that nothing disturbs through its
frame: the bytes that the HDLC encoder was given and those still to be passed on are its
encoding (`MessageOnItsWay`), `CleanInv` takes them over the line, and `MessageReceived`
is the end of the frame. `CleanMessagesArrive` needs no hypothesis about the first bit:
that an encoded frame begins with a 0 is now a lemma (`EncodeBeginsWithZero`).
`NoiselessMessagesArrive` adds when a frame is not disturbed (`NoiselessInv`): both ends
start with the level 0 and the frame marker, sent as levels, ends with it, so the
first message meets the levels in step, and every message does if there are no empty
frames. For the second message behind empty frames this is false (see Disagreements): the
theorem says `FirstMessageArrives` of any, and `MessagesArrive` if there are none. This proof found a fault of the model: two
alternatives of `HdlcResult` overlapped, and which of them is meant was left to the
evaluation order of TLC.

*SignalPathProofs.* `OneConfiguration` needs to know where each thread is and who
holds the mutex (`Holders`), and, in the middle of `Configure`, which parts
already have the new options (`OneByOne`). `StartsQuiet` needs the reason why a
new modulation is quiet until it is heard, through batches without output and
further calls (`QuietUntilHeard`). `OutputFits` needs fewer samples than a group
to wait in each decimator (`Room`), and the arithmetic of rounded divisions, in
lemmas of its own. `PathInv` is their conjunction. `RemovedSinksAreNotCalled` has
an invariant of its own, `SinkInv`: who is inside of which call on which collection
(`CallsOfOwners`), and how often a collection, and the list that the radio thread
still goes through, hold a sink at that place of the call (`Attachments`). The proofs
hold for any number of controllers, any options with whole ratios and any sizes of
batches.

*SstvLinkProofs.* The processor of the results copies rows without checking the
height or the width of its image. `RowsAlwaysFit` needs the reason why it may: the
lines that the line decoder has counted are half of the rows of the image, in the
same mode (`LinesAreCounted`), whatever one sample does to both: a VIS code, the end
of an image and the begin of the next, rows, in the order in which they stand in
the result. `ResultAlwaysFits` needs that a sample which
ends a pulse cannot complete a line as well, which is `LineAssumption`. `LinkInv` is
both with the types, for any modes, any transmission and any fault.

*FilterChainProofs.* `OutputsOfLatestSamples` looks at the outputs of one batch only,
and says nothing of what the ring buffers hold for the next one. `ChainInv` adds it:
the window of each stage is its latest samples, as many as came since its size
changed (`KnownDecimator`, `KnownFilter`, `KnownPhases`), and the outputs stand in
that order. For `OutputsOnTime` it adds an equation which every batch keeps, unless it
was short: the samples taken are the ratio times the outputs given, plus those that
wait (`InTime`). Below it, `PushBackMultiple` of both ring buffers, in its two copies, is shown
to append to the window whatever the write index is; a batch is the phases of
`operator()`, and for each of them the proofs say which samples an output is of, in
place or not: an output is written only where the input has been used already.
`BatchesAlwaysAsSamples` compares this with the fold of `DecimateSample` over the
batch, of which it says the same: the outputs are the same sequence, and the samples
kept for the next call, and the number of them that wait, are the same. The
theorems hold for any options, any number of taps per ratio and batches of any
size, also empty ones, and say of a decimator with a short batch what is true of it: its
outputs are of the latest samples, but come late.

*StaticVectorProofs.* A memory is described by the slots with objects, for each vector
(`Layout`). A loop over elements is a run of single steps (`Run` of `DestroySteps`,
`RelocateSteps`, ...), and a lemma for each of them says which layout it takes to
which; each operation is then a chain of layouts. `ObjectsAreTheElements` follows for
any capacity, any number of vectors and any order of calls, moves with what they abandon
among them: no loop constructs over a living object or touches a slot without one,
also when ranges overlap, the vectors are the same, or a call throws. A mishandled call
sets `unsound`, and nothing is claimed from there on.

Only model-checked:

- liveness: TLAPS has no rules for fairness here;
- `CallsAsVector` and `ActsOnLanes`, whose actions compare the values of whole
  containers and registers;
- `ImplementsFrameChannel` and `ImplementsChannel`, which hold only for so few
  disturbances that the checksum tells all frames of the instance apart;
- `SingleErrorDetected` and `RowsKeepTheirLine` of SSTV, which depend on the
  durations of the tones;
- `KernelsAreTheirTemplates`, whose loops of eight, four and one lanes are folds that
  no proof has been written for.


## Not modelled

- *Numeric processing*: modems (FSK, AM, FM, SSB), filter and window design, the
  frequency demodulator, AGC, hysteresis, generators, FFT and colour conversion
  compute real numbers without control of their own. The values that control
  depends on are modelled where it is (edges and tones of SSTV, levels of the
  HDLC line, volume of the signal path).
- *Vector mathematics*: rounding, and the polynomials of sine, cosine, exponential and
  logarithm (`math_x86.h`, `math_neon.h`); conversions between halves and floats; the
  vectors of two and three, which are the plain loops; benchmarks.
- *APT codec*: a clock of pixels, a comparison with a pattern of 39 bits and a line
  that is filled; what is hard in it is the signal processing before. The one
  piece of control, the line that restarts at a synchronisation, is that of the SSTV
  line decoder with less state.
- *Tools*: command lines, WAV and image files. Of the SSTV tool the processor of
  the results is modelled.
- *Tables and values*: band plan, frequencies, formatting, results, MD5 (a
  function of long words).
- *Parts of modelled components*: the call of the HDLC decoder with a whole byte
  (no user); accessors, comparison and printing of AX.25 messages; iterators; the
  double ring buffer (only a benchmark uses it); constructors of elements that
  throw; construction and destruction of `AsyncSink`, and its `PushSamples`
  without `Wait`, which is a misuse; sinks that call back into their own path,
  which would wait for their own mutex; the memory order of the unguarded read of
  the stream's capacity.
- *Vendored code*: googletest, gflags, stb, pffft, tiny_lib's file and audio parts.

What could follow: the lemmas about folds of `FilterChainProofs`, used for
`KernelsAreTheirTemplates`; an ideal checksum under which `MessageChannel` can be proved of the decoder; the clock of
the line decoder, for `RowsKeepTheirLine`; the composition of `SignalPath` with
`AsyncSink`.
