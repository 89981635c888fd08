------------------------------- MODULE SignalPath ------------------------------
(***************************************************************************)
(* signal_path/: the radio thread pushes batches of IQ samples through a   *)
(* SimpleSignalPath while other threads configure it, and add and remove   *)
(* the sinks that are attached to its IF and AF stage.                     *)
(*                                                                         *)
(* A sample is only counted. What a batch is computed with is kept         *)
(* instead: each part of the path (decimation, frequency shifters, receive *)
(* filter, demodulator, audio) holds the options it was configured with,   *)
(* and a batch remembers the options of every part it went through.        *)
(*                                                                         *)
(* A step is one critical section of a SinkCollection, one part of         *)
(* Configure, the work of PushSamples between two locks, or one call of    *)
(* a sink: the collection holds its mutex while it calls them.             *)
(***************************************************************************)
EXTENDS Integers, Sequences, FiniteSets, FiniteSetsExt, SequencesExt

CONSTANTS
  Controllers, \* threads that configure the path ...
  Owners,      \* ... of which these own sinks, one for each stage
  Options,     \* configurations, see Configuration
  BatchSizes,  \* how many samples the radio thread pushes at once
  FullVolume,  \* bound: samples until soft_configure_volume_ is 1 again
  MaxAdds,     \* bound: a sink is added at most so often before it is removed
  Radio,       \* the radio thread
  Nobody       \* the holder of a free mutex

Stages == {"IF", "AF"}
Parts == {"decimation", "shifters", "filter", "demodulator", "audio"}
Threads == Controllers \union {Radio}

\* The options that matter here. Rates and bandwidth are in the same unit.
Configuration ==
  [input_rate : Nat \ {0}, audio_rate : Nat \ {0}, bandwidth : Nat \ {0},
   modulation : {"AM", "NFM", "WFM", "LSB", "USB", "CW"}, agc : BOOLEAN]

\* Verify in StagesDecimation::Calculate: only integer ratios are supported.
ASSUME OptionsAssumption ==
  \A o \in Options : o \in Configuration /\ o.input_rate % o.audio_rate = 0
ASSUME BoundsAssumption == FullVolume \in Nat /\ MaxAdds \in Nat
ASSUME BatchSizesAssumption == BatchSizes \subseteq Nat
ASSUME ThreadsAssumption ==
  /\ Owners \subseteq Controllers
  /\ Radio \notin Controllers /\ Nobody \notin Controllers \union {Radio}

VARIABLES
  mutex,       \* SimpleSignalPath::mutex_: who holds it
  collection,  \* SinkCollection::mutex_ of each stage: who holds it
  sinks,       \* SinkCollection::sinks_ of each stage: owners of the sinks
  path,        \* the options each part was configured with
  left,        \* num_unprocessed_samples_ of the three decimators
  volume,      \* soft_configure_volume_, in samples: FullVolume is 1
  charge,      \* current_charge_ of the AGC is not 0
  buffers,     \* sizes of if_buffer_ and af_buffer_
  radio,       \* where PushSamples is, its spans, and what the batch went through
  control,     \* where each controller is in its call
  attached,    \* how often each owner has added its sinks
  configured,  \* history: the options of the last Configure that returned
  heard,       \* history: the modulation of the last audio of the path
  asked        \* history: ResetSoftAudioStart returned, no audio since

vars == <<mutex, collection, sinks, path, left, volume, charge, buffers, radio,
          control, attached, configured, heard, asked>>

--------------------------------------------------------------------------------
(* Ratios and sizes.                                                        *)

Greater(a, b) == IF a > b THEN a ELSE b

\* bandwidth_accuracy: the IF rate may be 5% below the bandwidth.
Fits(if_rate, o) == 100 * if_rate >= 95 * o.bandwidth

\* StagesDecimation::Calculate: the lowest IF rate that is wide enough for the
\* receive filter.
IfToAf(o) ==
  LET whole == o.input_rate \div o.audio_rate
      suits == {r \in 2..whole : /\ Fits(o.audio_rate * r, o)
                                 /\ o.input_rate % (o.audio_rate * r) = 0}
  IN  IF 95 * o.bandwidth < 100 * o.audio_rate THEN 1
      ELSE IF suits # {} THEN Min(suits) ELSE whole

IqToIf(o) == o.input_rate \div (o.audio_rate * IfToAf(o))

IfRate(o) == o.input_rate \div IqToIf(o)

\* ReceiveFilter::GetDecimationRatio; RoundToInt rounds halves up.
FilterRatio(o) ==
  LET rate == 2 * o.bandwidth
  IN  IF IfRate(o) <= rate THEN 1
      ELSE Min({25, (2 * IfRate(o) + rate) \div (2 * rate)})

\* Mutant: the samples of a last incomplete group get no room.
NeededDown(ratio, n) == n \div ratio

\* Decimator::CalcNeededOutputBufferSize.
Needed(ratio, n) == (n + ratio - 1) \div ratio

\* Decimator::operator(): the number of outputs for n samples, l being
\* unprocessed. The count of a batch without output replaces that of the
\* samples which waited before it.
Decimated(ratio, l, n) == IF ratio = 1 THEN n ELSE (l + n) \div ratio
Unprocessed(ratio, l, n) ==
  IF ratio = 1 THEN l ELSE IF l + n < ratio THEN n ELSE (l + n) % ratio

\* ReceiveFilter::CalcNeededOutputBufferSize, and the interpolator in it.
FilterNeeded(ratio, n) == IF ratio = 1 THEN n ELSE Needed(ratio, n) * ratio + 1

--------------------------------------------------------------------------------
\* The arguments a call does not have are set to these.
AnyOptions == CHOOSE o \in Options : TRUE
Idle == [at |-> "idle", call |-> "none", options |-> AnyOptions, stage |-> "IF"]
Quiet == [at |-> "idle", stage |-> "IF", n |-> 0, written |-> 0, todo |-> <<>>,
          through |-> {}]

\* The path was configured once, and the radio thread has not started.
Init ==
  /\ mutex = Nobody
  /\ collection = [s \in Stages |-> Nobody]
  /\ sinks = [s \in Stages |-> <<>>]
  /\ \E o \in Options :
       /\ path = [p \in Parts |-> o]
       /\ configured = o
       /\ volume = IF o.modulation = "AM" THEN FullVolume ELSE 0
  /\ left = [iq |-> 0, filter |-> 0, af |-> 0]
  /\ charge = FALSE
  /\ buffers = [if |-> 0, af |-> 0]
  /\ radio = Quiet
  /\ control = [c \in Controllers |-> Idle]
  /\ attached = [c \in Owners |-> [s \in Stages |-> 0]]
  /\ heard = "AM"
  /\ asked = FALSE

\* Mutant: BaseSignalPath::Lock, which does nothing.
NoLock(t) == mutex' = t

\* SimpleSignalPath::Lock and Unlock.
Lock(t) == mutex = Nobody /\ mutex' = t
Unlock == mutex' = Nobody

--------------------------------------------------------------------------------
(* The calls of the controllers.                                            *)

Goto(c, at) == control' = [control EXCEPT ![c] = [@ EXCEPT !.at = at]]

Call(c, call, options, stage) ==
  /\ control[c] = Idle
  /\ control' = [control EXCEPT ![c] = [at |-> "lock", call |-> call,
                                       options |-> options, stage |-> stage]]
  /\ UNCHANGED <<mutex, collection, sinks, path, left, volume, charge, buffers,
                 radio, attached, configured, heard, asked>>

\* An owner adds its sinks, the same one more than once if it likes, and
\* removes one that it has added.
CallAny(c) ==
  \/ \E o \in Options : Call(c, "Configure", o, "IF")
  \/ Call(c, "ResetSoftAudioStart", AnyOptions, "IF")
  \/ c \in Owners /\ \E s \in Stages :
       \/ attached[c][s] < MaxAdds /\ Call(c, "AddSink", AnyOptions, s)
       \/ attached[c][s] > 0 /\ Call(c, "RemoveSink", AnyOptions, s)

\* NeedResetSoftAudioStart, evaluated before the demodulator is configured.
NeedReset(c) ==
  path["demodulator"].modulation # control[c].options.modulation

\* ResetSoftAudioStartUnsafe.
ResetSoftAudio == charge' = FALSE /\ volume' = 0

\* Mutant: the options are compared once the demodulator has them.
EnterLate(c) ==
  /\ control[c].at = "lock"
  /\ Lock(c)
  /\ Goto(c, CASE control[c].call = "Configure" -> "decimation"
               [] control[c].call = "ResetSoftAudioStart" -> "unlock"
               [] OTHER -> "collection")
  /\ IF control[c].call = "ResetSoftAudioStart"
       THEN ResetSoftAudio ELSE UNCHANGED <<volume, charge>>
  /\ UNCHANGED <<collection, sinks, path, left, buffers, radio, attached,
                 configured, heard, asked>>

\* Lock, and the soft start of Configure and ResetSoftAudioStart.
Enter(c) ==
  /\ control[c].at = "lock"
  /\ Lock(c)
  /\ Goto(c, CASE control[c].call = "Configure" -> "decimation"
               [] control[c].call = "ResetSoftAudioStart" -> "unlock"
               [] OTHER -> "collection")
  /\ IF \/ control[c].call = "ResetSoftAudioStart"
        \/ control[c].call = "Configure" /\ NeedReset(c)
       THEN ResetSoftAudio ELSE UNCHANGED <<volume, charge>>
  /\ UNCHANGED <<collection, sinks, path, left, buffers, radio, attached,
                 configured, heard, asked>>

\* The order of Configure.
After(part) ==
  CASE part = "decimation" -> "shifters" [] part = "shifters" -> "filter"
    [] part = "filter" -> "demodulator"  [] part = "demodulator" -> "audio"
    [] part = "audio" -> "unlock"

\* Decimator::SetRatio forgets what waits for a group only when the ratio changes.
Kept(l, old, new) == IF old = new THEN l ELSE 0

ConfigurePart(c) ==
  LET part == control[c].at
      old == path[part]
      new == control[c].options
  IN  /\ part \in Parts
      /\ path' = [path EXCEPT ![part] = new]
      /\ left' =
           CASE part = "decimation" ->
                  [iq |-> Kept(left.iq, IqToIf(old), IqToIf(new)),
                   filter |-> left.filter,
                   af |-> Kept(left.af, IfToAf(old), IfToAf(new))]
             [] part = "filter" ->
                  [iq |-> left.iq, af |-> left.af,
                   filter |-> Kept(left.filter, FilterRatio(old), FilterRatio(new))]
             [] OTHER -> left
      /\ Goto(c, After(part))
      /\ UNCHANGED <<mutex, collection, sinks, volume, charge, buffers, radio,
                     attached, configured, heard, asked>>

\* Mutant: std::find and erase, one element only.
EraseFirst(c, seq) ==
  IF \E i \in 1..Len(seq) : seq[i] = c
    THEN LET i == Min({j \in 1..Len(seq) : seq[j] = c})
         IN  SubSeq(seq, 1, i - 1) \o SubSeq(seq, i + 1, Len(seq))
    ELSE seq

\* std::erase of SinkCollection::RemoveSink: one pass that keeps the others.
KeepOther(c, kept, d) == IF d # c THEN Append(kept, d) ELSE kept
Erase(c, seq) == FoldLeft(LAMBDA kept, d : KeepOther(c, kept, d), <<>>, seq)

\* AddSink and RemoveSink of the collection, under its mutex.
ChangeCollection(c) ==
  LET s == control[c].stage
  IN  /\ control[c].at = "collection"
      /\ collection[s] = Nobody
      /\ sinks' = [sinks EXCEPT ![s] = IF control[c].call = "AddSink"
                                         THEN Append(@, c) ELSE Erase(c, @)]
      /\ Goto(c, "unlock")
      /\ UNCHANGED <<mutex, collection, path, left, volume, charge, buffers, radio,
                     attached, configured, heard, asked>>

\* Unlock, and the return to the caller.
Leave(c) ==
  LET call == control[c].call
      s == control[c].stage
  IN  /\ control[c].at = "unlock"
      /\ Unlock
      /\ control' = [control EXCEPT ![c] = Idle]
      /\ attached' =
           CASE call = "AddSink" ->
                  [attached EXCEPT ![c] = [@ EXCEPT ![s] = attached[c][s] + 1]]
             [] call = "RemoveSink" -> [attached EXCEPT ![c] = [@ EXCEPT ![s] = 0]]
             [] OTHER -> attached
      /\ configured' = IF call = "Configure" THEN control[c].options ELSE configured
      /\ asked' = (asked \/ call = "ResetSoftAudioStart")
      /\ UNCHANGED <<collection, sinks, path, left, volume, charge, buffers, radio,
                     heard>>

--------------------------------------------------------------------------------
(* PushSamples, on the radio thread.                                        *)

\* The batch went through these parts to the sinks of the stage s, where it
\* has n samples; the work buffer held up to `written` of them.
Through(parts, s, n, written) ==
  radio' = [at |-> "push", stage |-> s, n |-> n, written |-> written,
            todo |-> <<>>, through |-> radio.through \union {path[p] : p \in parts}]

StartBatch ==
  /\ radio.at = "idle"
  /\ \E n \in BatchSizes : radio' = [at |-> "lock", stage |-> "IF", n |-> n, written |-> 0,
                                       todo |-> <<>>, through |-> {}]
  /\ UNCHANGED <<mutex, collection, sinks, path, left, volume, charge, buffers,
                 control, attached, configured, heard, asked>>

\* soft_configure_volume_ after n samples.
Louder(v, n) == Min({FullVolume, v + n})

\* The size of the work buffers, frequency shift, decimation, receive filter.
ProcessIF ==
  LET iq == IqToIf(path["decimation"])
      f == FilterRatio(path["filter"])
      room == Needed(iq, radio.n)
      if_room == Greater(buffers.if, Greater(room, FilterNeeded(f, room)))
      decimated == Decimated(iq, left.iq, radio.n)
      filtered == f * Decimated(f, left.filter, decimated)
  IN  /\ radio.at = "lock"
      /\ Lock(Radio)
      /\ buffers' = [if |-> if_room, af |-> Greater(buffers.af, if_room)]
      /\ left' = [iq |-> Unprocessed(iq, left.iq, radio.n),
                  filter |-> Unprocessed(f, left.filter, decimated), af |-> left.af]
      /\ Through({"shifters", "decimation", "filter"}, "IF", filtered,
                 Greater(decimated, filtered))
      /\ UNCHANGED <<collection, sinks, path, volume, charge, control, attached,
                     configured, heard, asked>>

\* Demodulation, decimation to the audio rate, AGC and soft volume. The batch
\* is audible when there is a sample to output.
ProcessAF ==
  LET af == IfToAf(path["decimation"])
      n == Decimated(af, left.af, radio.n)
  IN  /\ radio.at = "demodulate"
      /\ left' = [left EXCEPT !.af = Unprocessed(af, @, radio.n)]
      /\ volume' = Louder(volume, n)
      /\ charge' = (charge \/ (n > 0 /\ path["audio"].agc))
      /\ heard' = IF n > 0 THEN path["demodulator"].modulation ELSE heard
      /\ asked' = (asked /\ n = 0)
      /\ Through({"demodulator", "decimation", "audio"}, "AF", n, radio.n)
      /\ UNCHANGED <<mutex, collection, sinks, path, buffers, control, attached,
                     configured>>

\* SinkCollection::PushSamples of the stage: the mutex ...
LockCollection ==
  /\ radio.at = "push"
  /\ collection[radio.stage] = Nobody
  /\ collection' = [collection EXCEPT ![radio.stage] = Radio]
  /\ radio' = [at |-> "sinks", stage |-> radio.stage, n |-> radio.n,
               written |-> radio.written, todo |-> sinks[radio.stage],
               through |-> radio.through]
  /\ UNCHANGED <<mutex, sinks, path, left, volume, charge, buffers, control,
                 attached, configured, heard, asked>>

\* Mutant: the iterator of the loop is not advanced.
PushToFirst ==
  /\ radio.at = "sinks"
  /\ radio.todo # <<>>
  /\ UNCHANGED vars

\* ... the call of each sink, which returns here ...
PushToSink ==
  /\ radio.at = "sinks"
  /\ radio.todo # <<>>
  /\ radio' = [radio EXCEPT !.todo = Tail(@)]
  /\ UNCHANGED <<mutex, collection, sinks, path, left, volume, charge, buffers,
                 control, attached, configured, heard, asked>>

AfterSinks == IF radio.stage = "IF" THEN "demodulate" ELSE "unlock"

\* ... and the end of the loop.
UnlockCollection ==
  /\ radio.at = "sinks"
  /\ radio.todo = <<>>
  /\ collection' = [collection EXCEPT ![radio.stage] = Nobody]
  /\ radio' = [radio EXCEPT !.at = AfterSinks]
  /\ UNCHANGED <<mutex, sinks, path, left, volume, charge, buffers, control,
                 attached, configured, heard, asked>>

EndBatch ==
  /\ radio.at = "unlock"
  /\ Unlock
  /\ radio' = Quiet
  /\ UNCHANGED <<collection, sinks, path, left, volume, charge, buffers, control,
                 attached, configured, heard, asked>>

--------------------------------------------------------------------------------
\* What a thread does inside a call, once it holds the mutex.
RadioInside ==
  \/ ProcessAF
  \/ LockCollection \/ PushToSink \/ UnlockCollection
  \/ EndBatch

ControlInside(c) == ConfigurePart(c) \/ ChangeCollection(c) \/ Leave(c)

Next ==
  \/ StartBatch \/ ProcessIF \/ RadioInside
  \/ \E c \in Controllers :
       CallAny(c) \/ Enter(c) \/ ControlInside(c)

Spec == Init /\ [][Next]_vars

\* Threads that hold the mutex keep running, and sinks return. Nothing is
\* assumed of a thread that waits for the mutex: std::mutex promises no order.
FairSpec ==
  /\ Spec
  /\ WF_vars(RadioInside)
  /\ \A c \in Controllers : WF_vars(ControlInside(c))
--------------------------------------------------------------------------------
(* Properties.                                                              *)

Places == {"idle", "lock", "push", "sinks", "demodulate", "unlock"}
Calls == {"none", "Configure", "ResetSoftAudioStart", "AddSink", "RemoveSink"}

\* What a controller can be doing.
Frames == [at : {"idle", "lock", "collection", "unlock"} \union Parts,
           call : Calls, options : Options, stage : Stages]

\* Every variable has its type.
TypeOK ==
  /\ mutex \in Threads \union {Nobody}
  /\ collection \in [Stages -> {Radio, Nobody}]
  /\ sinks \in [Stages -> Seq(Owners)]
  /\ path \in [Parts -> Options]
  /\ left \in [iq : Nat, filter : Nat, af : Nat]
  /\ volume \in 0..FullVolume
  /\ charge \in BOOLEAN
  /\ buffers \in [if : Nat, af : Nat]
  /\ radio \in [at : Places, stage : Stages, n : Nat, written : Nat,
                todo : Seq(Owners), through : SUBSET Options]
  /\ control \in [Controllers -> Frames]
  /\ attached \in [Owners -> [Stages -> Nat]]
  /\ configured \in Options
  /\ heard \in {"AM", "NFM", "WFM", "LSB", "USB", "CW"}
  /\ asked \in BOOLEAN

\* How often the sink of c is in a list.
Occurrences(seq, c) == Cardinality({i \in DOMAIN seq : seq[i] = c})

\* The samples a sink receives are all of one configuration: a batch goes
\* through the whole path with the options of the last Configure that
\* returned, although Configure changes the parts one after the other and the
\* sinks of the IF stage run in the middle of PushSamples.
OneConfiguration == radio.through \subseteq {configured}

\* "After this call the sink will no longer receive samples, and the
\* collection does not reference it", however often it was added: once
\* RemoveSink has returned the owner can destroy its sink. Until then it is
\* called as often as it was added.
SinksAsTheirOwnersLeftThem ==
  \A c \in Owners, s \in Stages : control[c] = Idle =>
    /\ Occurrences(sinks[s], c) = attached[c][s]
    /\ radio.stage = s /\ attached[c][s] = 0
         => \A i \in DOMAIN radio.todo : radio.todo[i] # c

\* No stage writes past the end of its work buffer, although the buffers are
\* sized from the size of the input only and the decimators also have samples
\* left from batches before.
OutputFits ==
  radio.at = "push" =>
    IF radio.stage = "IF" THEN radio.written <= buffers.if /\ radio.n <= buffers.af
                          ELSE radio.written <= buffers.af

\* "Avoid popping sound when modulation setting is changed": the first audio
\* after a change of the modulation, and after ResetSoftAudioStart, starts at
\* volume 0 with a fresh AGC, however many calls and batches without output
\* came in between.
StartsQuiet ==
  [][heard' # heard \/ (asked /\ ~asked') => volume = 0 /\ ~charge]_vars

\* Whoever holds the mutex of the path gives it back, so that Configure and
\* RemoveSink are not blocked by one batch forever.
MutexReleased == mutex # Nobody ~> mutex = Nobody

--------------------------------------------------------------------------------
(* The inductive invariant of the first properties, by parts.               *)

\* The types, but for the sinks: the queue of a batch is left open.
PathType ==
  /\ path \in [Parts -> Options]
  /\ left \in [iq : Nat, filter : Nat, af : Nat]
  /\ volume \in 0..FullVolume
  /\ charge \in BOOLEAN
  /\ buffers \in [if : Nat, af : Nat]
  /\ radio \in [at : Places, stage : Stages, n : Nat, written : Nat,
                todo : {radio.todo}, through : SUBSET Options]
  /\ control \in [Controllers -> Frames]
  /\ configured \in Options
  /\ asked \in BOOLEAN

\* A thread that is inside a call holds the mutex of the path.
Holders ==
  /\ radio.at \notin {"idle", "lock"} => mutex = Radio
  /\ \A c \in Controllers : control[c].at \notin {"idle", "lock"} => mutex = c

\* The parts that Configure has been through when it is at `at`.
Before(at) ==
  CASE at = "decimation" -> {}
    [] at = "shifters" -> {"decimation"}
    [] at = "filter" -> {"decimation", "shifters"}
    [] at = "demodulator" -> {"decimation", "shifters", "filter"}
    [] at = "audio" -> {"decimation", "shifters", "filter", "demodulator"}
    [] OTHER -> Parts

Configuring(c) ==
  control[c].at \in Parts \/ (control[c].at = "unlock" /\ control[c].call = "Configure")

\* The parts have the options of the last Configure, but for those which the
\* one that is under way has been through.
OneByOne ==
  /\ (\A c \in Controllers : ~Configuring(c)) => \A p \in Parts : path[p] = configured
  /\ \A c \in Controllers :
       /\ control[c].at \in Parts => control[c].call = "Configure"
       /\ control[c].at = "collection"
            => control[c].call \notin {"Configure", "ResetSoftAudioStart"}
  /\ \A c \in Controllers : Configuring(c) =>
       \A p \in Parts : path[p] = IF p \in Before(control[c].at)
                                    THEN control[c].options ELSE configured

\* Between two batches none has been through anything.
Batch ==
  /\ radio.at \in {"idle", "lock"} => radio.through = {}
  /\ OneConfiguration

IsQuiet == volume = 0 /\ ~charge

\* Whoever will have caused a new modulation has made the path quiet.
QuietUntilHeard ==
  /\ path["demodulator"].modulation # heard => IsQuiet
  /\ asked => IsQuiet
  /\ \A c \in Controllers :
       /\ control[c].at \in Parts /\ control[c].options.modulation # heard => IsQuiet
       /\ control[c].at = "unlock" /\ control[c].call = "ResetSoftAudioStart" => IsQuiet

\* Less than a group waits in each decimator, and the audio buffer holds what
\* goes on from the IF stage.
Room ==
  /\ left.iq < IqToIf(path["decimation"])
  /\ left.af < IfToAf(path["decimation"])
  /\ left.filter < FilterRatio(path["filter"])
  /\ radio.at = "demodulate" => radio.stage = "IF"
  /\ radio.stage = "IF" /\ radio.at \in {"sinks", "demodulate"} => radio.n <= buffers.af
  /\ OutputFits

SinkTypes ==
  /\ sinks \in [Stages -> Seq(Owners)]
  /\ attached \in [Owners -> [Stages -> Nat]]
  /\ radio.todo \in Seq(Owners)

\* A call knows what it is for, and only owners change the sinks.
CallsOfOwners ==
  \A c \in Controllers :
    /\ control[c].at # "idle" => control[c].call # "none"
    /\ control[c].call \in {"AddSink", "RemoveSink"} => c \in Owners

\* How often the sink of c is to be in the collection: once its owner has
\* changed the collection the call only has to return.
Expected(c, s) ==
  IF control[c].at = "unlock" /\ control[c].stage = s
    THEN CASE control[c].call = "AddSink" -> attached[c][s] + 1
           [] control[c].call = "RemoveSink" -> 0
           [] OTHER -> attached[c][s]
    ELSE attached[c][s]

\* The collection has the sinks it is to have, and a batch that is on its way
\* through a collection has no other ones before it.
Attachments ==
  /\ \A c \in Owners, s \in Stages : Occurrences(sinks[s], c) = Expected(c, s)
  /\ radio.todo # <<>> => radio.at = "sinks"
  /\ \A i \in DOMAIN radio.todo : \E j \in DOMAIN sinks[radio.stage] :
       sinks[radio.stage][j] = radio.todo[i]

SinkInv == SinkTypes /\ CallsOfOwners /\ Attachments

ConfigurationInv == Holders /\ OneByOne /\ Batch
PathInv == PathType /\ ConfigurationInv /\ QuietUntilHeard /\ Room
================================================================================
