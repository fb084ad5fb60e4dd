------------------------------ MODULE JobFlow -------------------------------
(***************************************************************************)
(* What the update pipeline promises to the rest of the process (section  *)
(* 4.5 of the design), with the jobs counted and not named: a job is      *)
(* accepted into a bounded queue, taken out by a worker, handed to        *)
(* batch_update and published by the next apply; stop() closes the queue  *)
(* and returns once nothing is left between enqueue and batch_update.     *)
(*                                                                         *)
(* ServerMain takes the pipeline to be this; UpdatePipeline, with its     *)
(* queue, its workers and the event index of the source, implements it.   *)
(***************************************************************************)
EXTENDS Naturals

CONSTANTS
    QueueSize,   \* update_queue_size: the capacity of the queue
    MaxJobs      \* bound: the jobs accepted in one run

VARIABLES
    pipeline,    \* "none", "running", "closing" (stop called), "stopped"
    accepted,    \* jobs accepted by enqueue
    queued,      \* jobs in the queue
    taken,       \* jobs a worker holds between the queue and batch_update
    handed,      \* jobs given to batch_update (staged in the changeset)
    published    \* jobs the last apply had published

jobVars == <<accepted, queued, taken, handed, published>>
flowVars == <<pipeline, jobVars>>

Init ==
    /\ pipeline = "running"
    /\ accepted = 0 /\ queued = 0 /\ taken = 0 /\ handed = 0 /\ published = 0

(* enqueue, accepted: the queue is open and has room. *)
Accept ==
    /\ pipeline = "running"
    /\ queued < QueueSize /\ accepted < MaxJobs
    /\ accepted' = accepted + 1
    /\ queued' = queued + 1
    /\ UNCHANGED <<pipeline, taken, handed, published>>

Working == pipeline \in {"running", "closing"}

(* Workers take jobs from the queue ... *)
Take(n) ==
    /\ Working
    /\ n \in 1 .. queued
    /\ queued' = queued - n
    /\ taken' = taken + n
    /\ UNCHANGED <<pipeline, accepted, handed, published>>

(* ... and one of them gives its batch to batch_update. *)
Hand(n) ==
    /\ Working
    /\ n \in 1 .. taken
    /\ taken' = taken - n
    /\ handed' = handed + n
    /\ UNCHANGED <<pipeline, accepted, queued, published>>

(* apply() publishes what has been staged. *)
Publish ==
    /\ published' = handed
    /\ UNCHANGED <<pipeline, accepted, queued, taken, handed>>

(* stop() closes the queue ... *)
Stop ==
    /\ pipeline = "running"
    /\ pipeline' = "closing"
    /\ UNCHANGED jobVars

(* ... and returns when the workers have drained it and exited. *)
Join ==
    /\ pipeline = "closing"
    /\ queued = 0 /\ taken = 0
    /\ pipeline' = "stopped"
    /\ UNCHANGED jobVars

Worker == \E n \in 1 .. MaxJobs : Take(n) \/ Hand(n)

Next == Accept \/ Worker \/ Publish \/ Stop \/ Join

(* The workers keep taking and handing over while there is something to   *)
(* take or to hand over.                                                   *)
Spec == Init /\ [][Next]_flowVars /\ WF_flowVars(Worker)

=============================================================================
