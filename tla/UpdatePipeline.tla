--------------------------- MODULE UpdatePipeline ---------------------------
(***************************************************************************)
(* The update pipeline in front of the event index: the bounded queue the *)
(* feed handlers enqueue into, the worker threads that take jobs from it  *)
(* and give them to BaseEventIndex::batch_update in batches, stop(), and  *)
(* the maintenance thread that calls apply().                             *)
(*                                                                         *)
(* batch_update and apply are those of module EventIndex, translated from *)
(* the source.  The pipeline class is not in the source tree: its queue,  *)
(* workers and stop() are written from section 4.5 of the design.  An     *)
(* enqueue that is rejected (queue full, or stopping) changes nothing and *)
(* is no step here.                                                       *)
(***************************************************************************)
EXTENDS EventIndex

CONSTANTS
    Workers,      \* the worker threads (update_thread_num of them)
    QueueSize,    \* update_queue_size: the capacity of the queue
    MaxJobs       \* bound: the jobs accepted in one run

(* MaxPending is no smaller than MaxJobs: the changeset has room for every *)
(* job of a run, so a worker waits for the mutex and never for an apply.  *)
ASSUME
    /\ Workers # {} /\ QueueSize \in Nat \ {0}
    /\ MaxJobs \in Nat /\ MaxBatch <= MaxPending /\ MaxJobs <= MaxPending

VARIABLES
    queue,      \* the jobs waiting, oldest first; a job is its number in `log`
    batch,      \* per worker: the jobs taken and not yet given to batch_update
    stopping,   \* stop() has closed the queue
    exited,     \* the workers that have returned
    log,        \* history: the EventTuple of every accepted job, in order
    handed      \* history: the jobs given to batch_update, in that order

pipeVars == <<vars, queue, batch, stopping, exited, log, handed>>

JobIds == 1 .. MaxJobs

PipeTypeOK ==
    /\ TypeOK
    /\ queue \in Seq(JobIds) /\ Len(queue) <= QueueSize
    /\ batch \in [Workers -> Seq(JobIds)] /\ \A w \in Workers : Len(batch[w]) <= MaxBatch
    /\ stopping \in BOOLEAN
    /\ exited \subseteq Workers
    /\ log \in Seq(EventTuples) /\ Len(log) <= MaxJobs
    /\ handed \in Seq(JobIds)

PipeInit ==
    /\ Init
    /\ queue = <<>>
    /\ batch = [w \in Workers |-> <<>>]
    /\ stopping = FALSE
    /\ exited = {}
    /\ log = <<>>
    /\ handed = <<>>

-----------------------------------------------------------------------------
(* enqueue(job), accepted: the queue is open and has room. *)
Enqueue(tuple) ==
    /\ ~stopping
    /\ Len(queue) < QueueSize /\ Len(log) < MaxJobs
    /\ log' = Append(log, tuple)
    /\ queue' = Append(queue, Len(log) + 1)
    /\ UNCHANGED <<vars, batch, stopping, exited, handed>>

(* A worker takes the oldest job into its batch, up to K = MaxBatch jobs. *)
Take(w) ==
    /\ w \notin exited
    /\ queue # <<>> /\ Len(batch[w]) < MaxBatch
    /\ batch' = [batch EXCEPT ![w] = Append(@, Head(queue))]
    /\ queue' = Tail(queue)
    /\ UNCHANGED <<vars, stopping, exited, log, handed>>

(* The worker calls batch_update once with the tuples of its batch. *)
Hand(w) ==
    /\ batch[w] # <<>>
    /\ BatchUpdate([i \in DOMAIN batch[w] |-> log[batch[w][i]]])
    /\ handed' = handed \o batch[w]
    /\ batch' = [batch EXCEPT ![w] = <<>>]
    /\ UNCHANGED <<queue, stopping, exited, log>>

(* stop(): the queue is closed; the workers are joined once they exit. *)
Stop ==
    /\ ~stopping
    /\ stopping' = TRUE
    /\ UNCHANGED <<vars, queue, batch, exited, log, handed>>

(* Mutant: a worker returns as soon as it sees the pipeline stopping. *)
ExitWithoutDrain(w) ==
    /\ stopping /\ w \notin exited
    /\ exited' = exited \cup {w}
    /\ UNCHANGED <<vars, queue, batch, stopping, log, handed>>

(* A worker returns when the pipeline is stopping and nothing is left to *)
(* drain.                                                                 *)
Exit(w) ==
    /\ stopping /\ w \notin exited
    /\ queue = <<>> /\ batch[w] = <<>>
    /\ exited' = exited \cup {w}
    /\ UNCHANGED <<vars, queue, batch, stopping, log, handed>>

Worker(w) == Take(w) \/ Hand(w) \/ Exit(w)

(* The maintenance thread: apply(now) at every tick. *)
MaintainApply ==
    /\ \E now \in Times : Apply(now)
    /\ UNCHANGED <<queue, batch, stopping, exited, log, handed>>

PipeNext ==
    \/ \E tuple \in EventTuples : Enqueue(tuple)
    \/ \E w \in Workers : Worker(w)
    \/ Stop
    \/ MaintainApply

(* The workers and the maintenance thread are threads of a running       *)
(* process: each takes its next step sooner or later.  Nothing obliges a *)
(* client to feed, nor anyone to stop the pipeline.                      *)
PipeFairness ==
    /\ \A w \in Workers : WF_pipeVars(Worker(w))
    /\ WF_pipeVars(MaintainApply)

PipeSpec == PipeInit /\ [][PipeNext]_pipeVars /\ PipeFairness

-----------------------------------------------------------------------------
(* Properties *)

(* Nothing is waiting between enqueue and batch_update. *)
AtRest == queue = <<>> /\ \A w \in Workers : batch[w] = <<>>

(* The last accepted job for a key. *)
LastJobOf(k) == log[SelectLastInSeq(log, LAMBDA tuple : Key(tuple[2], tuple[1]) = k)]

(* With a single worker the index ends up as if the accepted jobs had     *)
(* been applied one by one in the order of their acceptance (testable     *)
(* property 2 of the design): at rest, every key the table tracks holds   *)
(* the weight and the deadline of the last job accepted for it.  The      *)
(* queue, the batching of the worker and the loop of batch_update must    *)
(* all keep the order, whatever the batches are and wherever the applies  *)
(* fall between them.                                                     *)
InOrderAtRest ==
    AtRest => \A k \in DOMAIN expire :
                  /\ AcceptedWeight(k) = LastJobOf(k)[3]
                  /\ expire[k] = LastJobOf(k)[4]

(* The job given to batch_update last for a key. *)
LastHandedOf(k) ==
    log[handed[SelectLastInSeq(handed, LAMBDA job : Key(log[job][2], log[job][1]) = k)]]

(* With several workers the order of acceptance is not kept, and what is  *)
(* left to hold is that one job wins whole: at every moment, whichever    *)
(* workers' batches and applies came before, the weight the index has     *)
(* accepted for a tracked key and the deadline the table keeps for it are *)
(* both those of the job batch_update was given last for the key, never   *)
(* the weight of one worker's job under the deadline of another's.        *)
(* batch_update owes it to refreshing the table and staging the edit of   *)
(* every tuple under one hold of changeset_mutex_.                        *)
LastHandedJobWins ==
    \A k \in DOMAIN expire :
        /\ AcceptedWeight(k) = LastHandedOf(k)[3]
        /\ expire[k] = LastHandedOf(k)[4]

(* Zero loss (scenario S6 of the design): no job is given to the index   *)
(* twice, and when stop() has joined the workers every accepted job has  *)
(* been given to it, however the workers' takes and exits interleave     *)
(* with stop() and with each other.                                      *)
NoJobLostOrRepeated ==
    /\ Len(handed) = Cardinality(ToSet(handed))
    /\ exited = Workers => ToSet(handed) = 1 .. Len(log)

(* "All eventually applied" (scenario S6): an accepted job is given to   *)
(* batch_update and an apply publishes it, also when the pipeline is     *)
(* stopped while the job waits.                                           *)
AcceptedJobsArePublished ==
    \A job \in JobIds :
        Len(log) >= job ~> (job \in ToSet(handed) /\ changeset = <<>>)

-----------------------------------------------------------------------------
(* The pipeline as the rest of the process sees it, the jobs counted: the  *)
(* jobs published are those handed over less the edits still staged,      *)
(* since batch_update stages one edit per tuple and apply leaves none.    *)
Flow == INSTANCE JobFlow WITH
    pipeline <- IF ~stopping THEN "running"
                ELSE IF exited = Workers THEN "stopped" ELSE "closing",
    accepted <- Len(log),
    queued <- Len(queue),
    taken <- MapThenSumSet(LAMBDA w : Len(batch[w]), Workers),
    handed <- Len(handed),
    published <- Len(handed) - Len(changeset)

(* The queue, the workers and the event index together behave as the      *)
(* counted pipeline that server_main is modelled against (module          *)
(* JobFlow): stop() returns, that is the last worker exits, only when no  *)
(* job is left in the queue or in a worker's hands, every apply publishes *)
(* all that batch_update was given, and the workers keep going while      *)
(* there is work, whichever of them holds it.                              *)
ImplementsJobFlow == Flow!Spec

=============================================================================
