---------------------------- MODULE AsyncSinkProofs ----------------------------
(***************************************************************************)
(* Proofs about AsyncSink, for any number of batches and of threads that   *)
(* stop the sink. The inductive invariant is SinkInv: it follows the one   *)
(* batch that is under way through the places of Run.                      *)
(***************************************************************************)
EXTENDS AsyncSink, TLAPS

\* The sink starts with nothing pushed and nothing processed.
LEMMA InitInv == Init => SinkInv
  <1> SUFFICES ASSUME Init PROVE SinkInv
    OBVIOUS
  <1>1. TypeOK
    BY DEF Init, TypeOK, NoSamples
  <1>2. Progress /\ OneBatch
    BY DEF Init, Progress, OneBatch, NoSamples
  <1> QED
    BY <1>1, <1>2 DEF SinkInv

\* The steps of the radio thread: a batch becomes outstanding only when none
\* is, and Wait does not return while one is.
LEMMA RadioKeepsInv ==
  ASSUME SinkInv, RadioStep
  PROVE  SinkInv'
  <1> USE DEF SinkInv, TypeOK, Progress, OneBatch
  <1>1. CASE PushSamples
    BY <1>1 DEF PushSamples
  <1>2. CASE PushNotify
    BY <1>2 DEF PushNotify, NotifyInput
  <1>3. CASE CallWait
    BY <1>3 DEF CallWait
  <1>4. CASE Wait
    BY <1>4 DEF Wait
  <1> QED
    BY <1>1, <1>2, <1>3, <1>4 DEF RadioStep, RadioReturns

\* The steps of StopAndWait: after the request only Progress is left to keep.
LEMMA OwnerKeepsInv ==
  ASSUME SinkInv, NEW o \in Owners, OwnerStep(o)
  PROVE  SinkInv'
  <1> USE DEF SinkInv, TypeOK, Progress, OneBatch
  <1>1. CASE RequestStop(o)
    BY <1>1 DEF RequestStop
  <1>2. CASE StopNotifyInput(o)
    BY <1>2 DEF StopNotifyInput, NotifyInput
  <1>3. CASE StopNotifyOutput(o)
    BY <1>3 DEF StopNotifyOutput, NotifyOutput
  <1>4. CASE Join(o)
    BY <1>4 DEF Join
  <1>5. CASE CallAgain(o)
    BY <1>5 DEF CallAgain
  <1> QED
    BY <1>1, <1>2, <1>3, <1>4, <1>5 DEF OwnerStep, OwnerReturns

\* The steps of the worker take the batch from one place to the next.
LEMMA WorkerKeepsInv ==
  ASSUME SinkInv, WorkerStep
  PROVE  SinkInv'
  <1> USE DEF SinkInv, TypeOK, Progress, OneBatch
  <1>1. CASE ConfigureThread
    BY <1>1 DEF ConfigureThread
  <1>2. CASE AwaitInput
    <2>1. CASE stop
      BY <1>2, <2>1 DEF AwaitInput
    <2>2. CASE ~stop /\ has_samples
      BY <1>2, <2>2 DEF AwaitInput
    <2>3. CASE ~stop /\ ~has_samples
      BY <1>2, <2>3 DEF AwaitInput
    <2> QED
      BY <2>1, <2>2, <2>3
  <1>3. CASE CallProcessSamples
    BY <1>3 DEF CallProcessSamples
  <1>4. CASE ProcessSamples
    BY <1>4 DEF ProcessSamples, NoSamples
  <1>5. CASE ClearSamples
    BY <1>5 DEF ClearSamples, NoSamples
  <1>6. CASE FinishProcessing
    BY <1>6 DEF FinishProcessing
  <1>7. CASE NotifyProcessed
    BY <1>7 DEF NotifyProcessed, NotifyOutput
  <1> QED
    BY <1>1, <1>2, <1>3, <1>4, <1>5, <1>6, <1>7 DEF WorkerStep

\* Every step keeps the invariant.
LEMMA NextKeepsInv == SinkInv /\ [Next]_vars => SinkInv'
  <1> SUFFICES ASSUME SinkInv, [Next]_vars PROVE SinkInv'
    OBVIOUS
  <1>1. CASE UNCHANGED vars
    BY <1>1 DEF vars, SinkInv, TypeOK, Progress, OneBatch
  <1>2. CASE SpuriousWakeup
    BY <1>2 DEF SpuriousWakeup, SinkInv, TypeOK, Progress, OneBatch
  <1> QED
    BY <1>1, <1>2, RadioKeepsInv, OwnerKeepsInv, WorkerKeepsInv DEF Next

\* In every reachable state the variables have their types and the worker has
\* done what its place in Run says.
THEOREM SinkInvariant == Spec => []SinkInv
  BY InitInv, NextKeepsInv, PTL DEF Spec

\* Wait is a way to wait for processing to finish: when it returns and the sink
\* is not stopped, every batch pushed so far has been processed.
THEOREM WaitAfterProcessing == Spec => []WaitMeansProcessed
  <1>1. SinkInv => WaitMeansProcessed
    BY DEF SinkInv, OneBatch, WaitMeansProcessed
  <1> QED
    BY <1>1, SinkInvariant, PTL

\* Until the sink is stopped, the worker never reads memory that the radio
\* thread may use again.
THEOREM MemoryStaysValid == Spec => []MemoryValidWhileRunning
  <1>1. SinkInv => MemoryValidWhileRunning
    BY DEF SinkInv, OneBatch, MemoryValidWhileRunning, MemoryValid
  <1> QED
    BY <1>1, SinkInvariant, PTL

\* The worker sees every batch once and in order.
THEOREM EveryBatchOnce == Spec => ProcessedInOrder
  <1> DEFINE InOrder == processed' # processed
                          => /\ processed' > processed
                             /\ stop \/ processed' = processed + 1
  <1>1. ASSUME SinkInv, [Next]_vars PROVE [InOrder]_vars
    <2>1. CASE ProcessSamples
      <3>1. processed' = working /\ worker = "process"
        BY <2>1 DEF ProcessSamples
      <3> QED
        BY <1>1, <3>1
        DEF SinkInv, TypeOK, Progress, OneBatch
    <2>2. CASE ~ProcessSamples
      <3>1. UNCHANGED processed
        BY <1>1, <2>2
        DEF Next, vars, RadioStep, RadioReturns, PushSamples, PushNotify,
            CallWait, Wait, OwnerStep, OwnerReturns, RequestStop,
            StopNotifyInput, StopNotifyOutput, Join, CallAgain, WorkerStep,
            ConfigureThread, AwaitInput, CallProcessSamples, ClearSamples,
            FinishProcessing, NotifyProcessed, SpuriousWakeup
      <3> QED
        BY <3>1
    <2> QED
      BY <2>1, <2>2
  <1> QED
    BY <1>1, SinkInvariant, PTL DEF Spec, ProcessedInOrder
================================================================================
