------------------------------- MODULE AsyncSink -------------------------------
(***************************************************************************)
(* signal_path/async_sink.h: a sink that hands the samples of the radio    *)
(* thread to a worker thread of its own.                                   *)
(*                                                                         *)
(* The samples are a span: a pointer into memory of the radio thread, not  *)
(* a copy. The batches that are pushed are numbered 1, 2, ...; a span is   *)
(* the number of the batch it points at, NoSamples when it is empty. The   *)
(* radio thread calls Wait after each PushSamples, which is the way the    *)
(* class has to tell that the memory can be used again.                    *)
(*                                                                         *)
(* A step is one critical section, or one statement outside of them. Two   *)
(* threads may wait on a condition variable: the worker for input and the  *)
(* radio thread for output; pc "wait" says that they do.                   *)
(***************************************************************************)
EXTENDS Naturals

CONSTANTS
  Owners,      \* threads that call StopAndWait, the destructor among them
  MaxPushes    \* bound: the radio thread pushes this many batches

ASSUME MaxPushesAssumption == MaxPushes \in Nat

VARIABLES
  samples,     \* samples_: the batch it points at
  has_samples, \* has_samples_to_process_
  stop,        \* stop_requested_
  worker,      \* where the worker thread is in Run
  radio,       \* where the radio thread is in PushSamples and Wait
  owner,       \* where each owner is in StopAndWait
  working,     \* the span ProcessSamples was called with
  pushed,      \* history: how many batches were pushed
  processed    \* history: the last batch ProcessSamples finished

vars == <<samples, has_samples, stop, worker, radio, owner,
          working, pushed, processed>>

NoSamples == 0

--------------------------------------------------------------------------------
(* Condition variables: a notification puts the waiting thread back to the  *)
(* test of its predicate.                                                   *)

NotifyInput == worker' = IF worker = "wait" THEN "check" ELSE worker
NotifyOutput == radio' = IF radio = "wait" THEN "test" ELSE radio

\* Construction has finished; the worker is about to run.
Init ==
  /\ samples = NoSamples
  /\ has_samples = FALSE
  /\ stop = FALSE
  /\ worker = "start"
  /\ radio = "idle"
  /\ owner = [o \in Owners |-> "idle"]
  /\ working = NoSamples
  /\ pushed = 0
  /\ processed = 0

--------------------------------------------------------------------------------
(* The radio thread.                                                        *)

PushSamples ==
  /\ radio = "idle"
  /\ pushed < MaxPushes
  /\ pushed' = pushed + 1
  /\ samples' = pushed'
  /\ has_samples' = TRUE
  /\ radio' = "notify"
  /\ UNCHANGED <<stop, worker, owner, working, processed>>

\* Mutant: the worker is not notified.
PushSilently ==
  /\ radio = "notify"
  /\ radio' = "test"
  /\ UNCHANGED <<samples, has_samples, stop, worker, owner,
                 working, pushed, processed>>

PushNotify ==
  /\ radio = "notify"
  /\ NotifyInput
  /\ radio' = "test"
  /\ UNCHANGED <<samples, has_samples, stop, owner, working, pushed, processed>>

\* Wait may also be called when nothing was pushed.
CallWait ==
  /\ radio = "idle"
  /\ radio' = "test"
  /\ UNCHANGED <<samples, has_samples, stop, worker, owner,
                 working, pushed, processed>>

\* The predicate of Wait, under the mutex.
Wait ==
  /\ radio = "test"
  /\ radio' = IF stop \/ ~has_samples THEN "idle" ELSE "wait"
  /\ UNCHANGED <<samples, has_samples, stop, worker, owner,
                 working, pushed, processed>>

--------------------------------------------------------------------------------
(* StopAndWait.                                                             *)

RequestStop(o) ==
  /\ owner[o] = "idle"
  /\ stop' = TRUE
  /\ owner' = [owner EXCEPT ![o] = IF stop THEN "returned" ELSE "notify_input"]
  /\ UNCHANGED <<samples, has_samples, worker, radio, working, pushed, processed>>

StopNotifyInput(o) ==
  /\ owner[o] = "notify_input"
  /\ NotifyInput
  /\ owner' = [owner EXCEPT ![o] = "notify_output"]
  /\ UNCHANGED <<samples, has_samples, stop, radio, working, pushed, processed>>

StopNotifyOutput(o) ==
  /\ owner[o] = "notify_output"
  /\ NotifyOutput
  /\ owner' = [owner EXCEPT ![o] = "join"]
  /\ UNCHANGED <<samples, has_samples, stop, worker, working, pushed, processed>>

Join(o) ==
  /\ owner[o] = "join"
  /\ worker = "exited"
  /\ owner' = [owner EXCEPT ![o] = "returned"]
  /\ UNCHANGED <<samples, has_samples, stop, worker, radio,
                 working, pushed, processed>>

\* A later call, of the destructor for instance.
CallAgain(o) ==
  /\ owner[o] = "returned"
  /\ owner' = [owner EXCEPT ![o] = "idle"]
  /\ UNCHANGED <<samples, has_samples, stop, worker, radio,
                 working, pushed, processed>>

--------------------------------------------------------------------------------
(* Run, on the worker thread.                                               *)

ConfigureThread ==
  /\ worker = "start"
  /\ worker' = "check"
  /\ UNCHANGED <<samples, has_samples, stop, radio, owner,
                 working, pushed, processed>>

\* Mutant: the worker clears the flag when it takes the samples.
AwaitInputAndTake ==
  /\ worker = "check"
  /\ worker' = CASE stop -> "exited"
                 [] ~stop /\ has_samples -> "call"
                 [] OTHER -> "wait"
  /\ has_samples' = FALSE
  /\ UNCHANGED <<samples, stop, radio, owner, working, pushed, processed>>

\* The predicate of the wait for input and the test that follows it, under
\* the mutex.
AwaitInput ==
  /\ worker = "check"
  /\ worker' = CASE stop -> "exited"
                 [] ~stop /\ has_samples -> "call"
                 [] OTHER -> "wait"
  /\ UNCHANGED <<samples, has_samples, stop, radio, owner,
                 working, pushed, processed>>

\* From here on the mutex is not held: samples_ is read ...
CallProcessSamples ==
  /\ worker = "call"
  /\ working' = samples
  /\ worker' = "process"
  /\ UNCHANGED <<samples, has_samples, stop, radio, owner, pushed, processed>>

\* Mutant: the flag is cleared before samples_ is.
ProcessSamplesAndReport ==
  /\ worker = "process"
  /\ processed' = working
  /\ working' = NoSamples
  /\ has_samples' = FALSE
  /\ worker' = "clear"
  /\ UNCHANGED <<samples, stop, radio, owner, pushed>>

\* ... its memory is used until ProcessSamples returns ...
ProcessSamples ==
  /\ worker = "process"
  /\ processed' = working
  /\ working' = NoSamples
  /\ worker' = "clear"
  /\ UNCHANGED <<samples, has_samples, stop, radio, owner, pushed>>

\* ... and samples_ is emptied.
ClearSamples ==
  /\ worker = "clear"
  /\ samples' = NoSamples
  /\ worker' = "finish"
  /\ UNCHANGED <<has_samples, stop, radio, owner, working, pushed, processed>>

FinishProcessing ==
  /\ worker = "finish"
  /\ has_samples' = FALSE
  /\ worker' = "notify"
  /\ UNCHANGED <<samples, stop, radio, owner, working, pushed, processed>>

\* Mutant: the radio thread is not notified.
ProcessedSilently ==
  /\ worker = "notify"
  /\ worker' = "check"
  /\ UNCHANGED <<samples, has_samples, stop, radio, owner,
                 working, pushed, processed>>

NotifyProcessed ==
  /\ worker = "notify"
  /\ NotifyOutput
  /\ worker' = "check"
  /\ UNCHANGED <<samples, has_samples, stop, owner, working, pushed, processed>>

\* wait() may return without any notification.
SpuriousWakeup ==
  /\ \/ worker = "wait" /\ worker' = "check" /\ UNCHANGED radio
     \/ radio = "wait" /\ radio' = "test" /\ UNCHANGED worker
  /\ UNCHANGED <<samples, has_samples, stop, owner, working, pushed, processed>>

--------------------------------------------------------------------------------
RadioReturns == PushNotify \/ Wait

RadioStep == PushSamples \/ CallWait \/ RadioReturns

OwnerReturns(o) == StopNotifyInput(o) \/ StopNotifyOutput(o) \/ Join(o)

OwnerStep(o) == RequestStop(o) \/ CallAgain(o) \/ OwnerReturns(o)

WorkerStep ==
  \/ ConfigureThread \/ AwaitInput
  \/ CallProcessSamples \/ ProcessSamples \/ ClearSamples
  \/ FinishProcessing \/ NotifyProcessed

Next ==
  \/ RadioStep
  \/ \E o \in Owners : OwnerStep(o)
  \/ WorkerStep
  \/ SpuriousWakeup

Spec == Init /\ [][Next]_vars

\* Threads inside a call keep running, and ProcessSamples returns.
FairSpec ==
  /\ Spec
  /\ WF_vars(WorkerStep)
  /\ WF_vars(RadioReturns)
  /\ \A o \in Owners : WF_vars(OwnerReturns(o))

--------------------------------------------------------------------------------
(* Properties.                                                              *)

\* Every variable has its type.
TypeOK ==
  /\ samples \in Nat
  /\ has_samples \in BOOLEAN
  /\ stop \in BOOLEAN
  /\ worker \in {"start", "check", "wait", "call", "process", "clear",
                 "finish", "notify", "exited"}
  /\ radio \in {"idle", "notify", "test", "wait"}
  /\ owner \in [Owners -> {"idle", "notify_input", "notify_output",
                           "join", "returned"}]
  /\ working \in Nat
  /\ pushed \in Nat
  /\ processed \in Nat

\* "A way to wait for processing to finish": when Wait returns, every batch
\* that was pushed has been processed, unless the sink was stopped.
WaitMeansProcessed ==
  radio = "idle" /\ ~stop => processed = pushed

\* "The input samples are to be valid during the processing": a radio thread
\* that reuses its memory once Wait has returned never does so while
\* ProcessSamples reads it.
MemoryValid == radio = "idle" => worker \notin {"call", "process"}

\* The same, as long as the sink is not stopped.
MemoryValidWhileRunning == ~stop => MemoryValid

\* The worker never processes a batch a second time, nor an empty span.
Progress ==
  /\ processed <= pushed /\ samples <= pushed /\ working <= pushed
  /\ worker = "call" => samples > processed
  /\ worker = "process" => working > processed
  /\ worker = "exited" => stop

\* Until the sink is stopped at most one batch is under way, at the place of
\* Run the worker is at, and has_samples_to_process_ says so.
OneBatch ==
  /\ ~has_samples => processed = pushed
  /\ radio = "idle" => ~has_samples
  /\ worker \in {"call", "process", "clear", "finish"} => has_samples
  /\ worker \in {"clear", "finish"} => processed = pushed
  /\ worker \notin {"clear", "finish"} /\ has_samples
       => pushed = processed + 1
  /\ worker \notin {"process", "clear", "finish"} /\ has_samples
       => samples = pushed
  /\ worker = "process" => working = pushed

\* The flag, the span, and the places of the three kinds of threads agree,
\* although the worker changes the flag and the span in separate steps and
\* the span without the mutex. This is the inductive invariant of the proofs.
SinkInv == TypeOK /\ Progress /\ (~stop => OneBatch)

\* ProcessSamples sees every batch once and in order, although samples_ and
\* has_samples_to_process_ are reset in two steps with the mutex released:
\* never an empty span, never a batch again, and none skipped until the sink
\* is stopped.
ProcessedInOrder ==
  [][processed' # processed => /\ processed' > processed
                               /\ stop \/ processed' = processed + 1]_vars

\* Wait returns, whoever stops the sink meanwhile: no notification is missed.
\* "Signal worker thread to stop and wait for it to finish": the call that
\* requests the stop returns, so the worker leaves Run wherever it was.
CallsReturn ==
  /\ radio \in {"test", "wait"} ~> radio = "idle"
  /\ \A o \in Owners : (owner[o] = "notify_input") ~> (owner[o] = "returned")

\* A batch is processed unless the sink is stopped.
BatchesProcessed ==
  \A n \in 1..MaxPushes : (pushed = n) ~> (processed >= n \/ stop)
================================================================================
