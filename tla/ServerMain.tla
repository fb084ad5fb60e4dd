----------------------------- MODULE ServerMain -----------------------------
(***************************************************************************)
(* The life of the process (src/main/main.cc): main() and server_main().   *)
(*                                                                         *)
(* server_main installs the signal handlers, builds the index, starts the *)
(* maintenance thread, the update pipeline and the server, registering a  *)
(* ScopeGuard after each, then blocks SIGTERM/SIGINT, clears the flag     *)
(* g_exit_signal and waits in sigsuspend until a handler has set it.      *)
(* Every return and every exception leaves through the destructors of the *)
(* locals constructed so far, in reverse order of declaration; `scope` is *)
(* that stack.                                                            *)
(*                                                                         *)
(* The main thread is a program counter `pc`.  Beside it run the          *)
(* environment that sends signals, the server threads that accept feed    *)
(* requests, the pipeline workers and the maintenance thread.  The three  *)
(* started components are not in the source tree: what start, stop and    *)
(* the threads do is written from the design text; the pipeline is that   *)
(* of module JobFlow, with update jobs counted and not named.             *)
(***************************************************************************)
EXTENDS Integers, Sequences, FiniteSets, SequencesExt

CONSTANTS
    ExitSignals,      \* SIGTERM, SIGINT: given to exit_on_signal
    IgnoredSignals,   \* SIGPIPE, SIGHUP: given to ignore_signal
    ThreadsTakeSignals, \* TRUE: the threads started leave SIGTERM/SIGINT unblocked
    QueueSize,        \* update_queue_size: the capacity of the pipeline's queue
    MaxJobs           \* bound: the feed requests accepted in one run

ASSUME
    /\ ExitSignals \cup IgnoredSignals \subseteq Nat \ {0}
    /\ ExitSignals \cap IgnoredSignals = {}
    /\ ThreadsTakeSignals \in BOOLEAN
    /\ QueueSize \in Nat \ {0} /\ MaxJobs \in Nat

VARIABLES
    pc,             \* where the main thread is
    scope,          \* the locals of server_main with a destructor, oldest first
    ret,            \* `ret` of main()
    config,         \* restore_on_startup and dump_on_exit
    g_exit_signal,  \* the flag the handler sets
    blocked,        \* the main thread's mask holds SIGTERM and SIGINT
    pending,        \* exit signals held back for the main thread
    maintain,       \* the maintenance thread runs
    pipeline,       \* "none", "running", "closing" (stop called), "stopped"
    server,         \* "none", "ready", "running", "stopped"
    accepted,       \* feed requests the pipeline accepted
    queued,         \* jobs in the queue
    taken,          \* jobs a worker holds between the queue and batch_update
    handed,         \* jobs given to batch_update (staged in the changeset)
    published,      \* jobs the last apply had published
    exitDump,       \* what the dump of feed_index_guard wrote, or NoDump
    sent,           \* history: an exit signal was sent to the handlers
    caught          \* history: one reached the main thread after the reset

Flow == INSTANCE JobFlow

sigVars == <<g_exit_signal, blocked, pending>>
threadVars == <<maintain, pipeline, server>>
jobVars == <<accepted, queued, taken, handed, published>>
histVars == <<sent, caught>>
vars == <<pc, scope, ret, config, sigVars, threadVars, jobVars, exitDump, histVars>>

(* All but the pipeline and its jobs. *)
aside == <<pc, scope, ret, config, sigVars, maintain, server, exitDump, histVars>>

-----------------------------------------------------------------------------
Locals == {"index", "feed_index_guard", "pipeline", "pipeline_guard",
           "index_view", "model", "server", "server_guard"}

InitSteps == {"main", "read_config", "init_log", "install", "features", "index_config", "create_index",
              "start_maintain", "create_pipeline", "start_pipeline", "create_model",
              "init_server", "start_server", "block"}
WaitSteps == {"reset", "check", "suspend", "suspended", "return"}
ExitSteps == {"unwind", "join_pipeline", "stop_maintain", "exited"}

NoDump == [written |-> FALSE]

TypeOK ==
    /\ pc \in InitSteps \cup WaitSteps \cup ExitSteps
    /\ scope \in Seq(Locals) /\ Len(scope) = Cardinality(ToSet(scope))
    /\ ret \in {-1, 0}
    /\ config \in [restore_on_startup : BOOLEAN, dump_on_exit : BOOLEAN]
    /\ g_exit_signal \in ExitSignals \cup {0}
    /\ blocked \in BOOLEAN
    /\ pending \subseteq ExitSignals
    /\ maintain \in BOOLEAN
    /\ pipeline \in {"none", "running", "closing", "stopped"}
    /\ server \in {"none", "ready", "running", "stopped"}
    /\ accepted \in 0..MaxJobs /\ queued \in 0..QueueSize
    /\ taken \in 0..MaxJobs /\ handed \in 0..MaxJobs /\ published \in 0..MaxJobs
    /\ exitDump \in {NoDump} \cup [written : {TRUE}, handed : 0..MaxJobs, published : 0..MaxJobs]
    /\ sent \in BOOLEAN /\ caught \in BOOLEAN

Init ==
    /\ pc = "main"
    /\ scope = <<>>
    /\ ret = -1
    /\ config = [restore_on_startup |-> FALSE, dump_on_exit |-> FALSE]
    /\ g_exit_signal = 0
    /\ blocked = FALSE
    /\ pending = {}
    /\ maintain = FALSE /\ pipeline = "none" /\ server = "none"
    /\ accepted = 0 /\ queued = 0 /\ taken = 0 /\ handed = 0 /\ published = 0
    /\ exitDump = NoDump
    /\ sent = FALSE /\ caught = FALSE

-----------------------------------------------------------------------------
(* The main thread *)

Alive(local) == local \in ToSet(scope)

(* `return value` of server_main, and an exception leaving it: both run    *)
(* the destructors; main() turns the exception into -1.                    *)
Return(value) == pc' = "unwind" /\ ret' = value
Throw == Return(-1)

(* The steps of startup leave everything but pc, scope, ret alone unless  *)
(* they say otherwise.                                                     *)
Quiet == UNCHANGED <<sigVars, jobVars, exitDump, histVars>>

(* main(): set_new_handler, then `argc != 2` is return -1. *)
Main ==
    /\ pc = "main"
    /\ pc' \in {"read_config", "exited"}
    /\ UNCHANGED <<scope, ret, config, threadVars>> /\ Quiet

(* read_config_file, the value of each of its returns: the file cannot be *)
(* opened; it does not parse (and is left open); it is parsed and closed. *)
(* The function touches nothing but its file and the document it fills.   *)
read_config_file == [cannot_open |-> -1, parse_error |-> -1, parsed |-> 0]

(* What init_logger returns; it is not in the source tree. *)
init_logger == {-1, 0}

(* init_log_config, the value of each of its returns: that of init_logger, *)
(* called with NULL when no logger is configured and else with the path   *)
(* of the configured file beside the configuration.                        *)
init_log_config == [by_default |-> init_logger, configured |-> init_logger]

(* main(): `if (read_config_file(...) < 0) return -1`. *)
ReadConfigFile ==
    /\ pc = "read_config"
    /\ \E path \in DOMAIN read_config_file :
           pc' = IF read_config_file[path] < 0 THEN "exited" ELSE "init_log"
    /\ UNCHANGED <<scope, ret, config, threadVars>> /\ Quiet

(* main(): `if (init_log_config(...) < 0) return -1`. *)
InitLogConfig ==
    /\ pc = "init_log"
    /\ \E path \in DOMAIN init_log_config : \E r \in init_log_config[path] :
           pc' = IF r < 0 THEN "exited" ELSE "install"
    /\ UNCHANGED <<scope, ret, config, threadVars>> /\ Quiet

(* signal(...) four times. *)
InstallHandlers ==
    /\ pc = "install" /\ pc' = "features"
    /\ UNCHANGED <<scope, ret, config, threadVars>> /\ Quiet

(* The feature spaces: missing or unparsable is return -1. *)
InitFeatures ==
    /\ pc = "features"
    /\ \/ pc' = "index_config" /\ ret' = ret
       \/ Return(-1)
    /\ UNCHANGED <<scope, config, threadVars>> /\ Quiet

(* The index configuration: missing is return -1; the two switches are    *)
(* whatever the file says.                                                 *)
IndexConfig ==
    /\ pc = "index_config"
    /\ \/ /\ pc' = "create_index" /\ ret' = ret
          /\ config' \in [restore_on_startup : BOOLEAN, dump_on_exit : BOOLEAN]
       \/ Return(-1) /\ config' = config
    /\ UNCHANGED <<scope, threadVars>> /\ Quiet

(* The index: restored, or empty when restoring is off or fails with an   *)
(* ios_base::failure.  Any other exception of the restoring constructor   *)
(* leaves server_main with no index built.                                 *)
CreateIndex ==
    /\ pc = "create_index"
    /\ \/ pc' = "start_maintain" /\ ret' = ret /\ scope' = Append(scope, "index")
       \/ config.restore_on_startup /\ Throw /\ scope' = scope
    /\ UNCHANGED <<config, threadVars>> /\ Quiet

(* Mutant: the maintenance thread is started and no guard registered. *)
StartMaintainNoGuard ==
    /\ pc = "start_maintain" /\ pc' = "create_pipeline"
    /\ maintain' = TRUE
    /\ UNCHANGED <<scope, ret, config, pipeline, server>> /\ Quiet

(* start_maintain and the guard that will dump and stop it; a thread that *)
(* cannot be created is an exception, thrown ahead of the guard.          *)
StartMaintain ==
    /\ pc = "start_maintain"
    /\ \/ /\ pc' = "create_pipeline" /\ ret' = ret
          /\ maintain' = TRUE
          /\ scope' = Append(scope, "feed_index_guard")
       \/ Throw /\ UNCHANGED <<maintain, scope>>
    /\ UNCHANGED <<config, pipeline, server>> /\ Quiet

(* The three sizes are read, defaults standing in for what is missing,    *)
(* and the pipeline is constructed; the constructor may throw.            *)
CreatePipeline ==
    /\ pc = "create_pipeline"
    /\ \/ pc' = "start_pipeline" /\ ret' = ret /\ scope' = Append(scope, "pipeline")
       \/ Throw /\ scope' = scope
    /\ UNCHANGED <<config, threadVars>> /\ Quiet

(* Mutant: the guard of the pipeline is declared ahead of the guard of    *)
(* the index, which then runs first on the way out.                        *)
StartPipelineBelowIndexGuard ==
    /\ pc = "start_pipeline"
    /\ pc' = "create_model" /\ ret' = ret
    /\ pipeline' = "running"
    /\ scope' = SelectSeq(scope, LAMBDA local : local # "feed_index_guard")
                    \o <<"pipeline_guard", "index_view", "feed_index_guard">>
    /\ UNCHANGED <<config, maintain, server>> /\ Quiet

(* start(), the guard that will stop the pipeline, and the index view.    *)
(* start() creates the workers and may throw with some of them running;   *)
(* the pipeline exists by then and its guard does not.                     *)
StartPipeline ==
    /\ pc = "start_pipeline"
    /\ \/ /\ pc' = "create_model" /\ ret' = ret
          /\ pipeline' = "running"
          /\ scope' = scope \o <<"pipeline_guard", "index_view">>
       \/ Throw /\ pipeline' \in {"none", "running"} /\ scope' = scope
    /\ UNCHANGED <<config, maintain, server>> /\ Quiet

(* The ranking model: no configuration or no model is return -1. *)
CreateModel ==
    /\ pc = "create_model"
    /\ \/ pc' = "init_server" /\ ret' = ret /\ scope' = Append(scope, "model")
       \/ Return(-1) /\ scope' = scope
    /\ UNCHANGED <<config, threadVars>> /\ Quiet

(* The server, its handlers and initialize(). *)
InitServer ==
    /\ pc = "init_server"
    /\ scope' = Append(scope, "server")
    /\ server' = "ready"
    /\ \/ pc' = "start_server" /\ ret' = ret
       \/ Return(-1)
    /\ UNCHANGED <<config, maintain, pipeline>> /\ Quiet

(* start() and, if it succeeded, the guard that will stop the server.  A  *)
(* start() that fails may have started some of its threads.               *)
StartServer ==
    /\ pc = "start_server"
    /\ \/ /\ pc' = "block" /\ ret' = ret
          /\ server' = "running"
          /\ scope' = Append(scope, "server_guard")
       \/ Return(-1) /\ server' \in {"ready", "running"} /\ scope' = scope
    /\ UNCHANGED <<config, maintain, pipeline>> /\ Quiet

(* Mutant: the mask is built and never installed. *)
BlockSignalsNot ==
    /\ pc = "block" /\ pc' = "reset"
    /\ UNCHANGED <<scope, ret, config, threadVars>> /\ Quiet

(* sigprocmask(SIG_BLOCK, {SIGTERM, SIGINT}). *)
BlockSignals ==
    /\ pc = "block" /\ pc' = "reset"
    /\ blocked' = TRUE
    /\ UNCHANGED <<scope, ret, config, threadVars, g_exit_signal, pending,
                   jobVars, exitDump, histVars>>

(* g_exit_signal = 0. *)
ResetFlag ==
    /\ pc = "reset" /\ pc' = "check"
    /\ g_exit_signal' = 0
    /\ UNCHANGED <<scope, ret, config, threadVars, blocked, pending,
                   jobVars, exitDump, histVars>>

(* while (!g_exit_signal) *)
CheckFlag ==
    /\ pc = "check"
    /\ pc' = IF g_exit_signal # 0 THEN "return" ELSE "suspend"
    /\ UNCHANGED <<scope, ret, config, threadVars>> /\ Quiet

(* sigsuspend(&orig_mask): the pending signals are handled at once and    *)
(* the call returns; with none pending the thread sleeps.                 *)
Suspend ==
    /\ pc = "suspend"
    /\ \/ /\ pending # {}
          /\ g_exit_signal' \in pending
          /\ pending' = {}
          /\ pc' = "check"
       \/ /\ pending = {}
          /\ pc' = "suspended"
          /\ UNCHANGED <<g_exit_signal, pending>>
    /\ UNCHANGED <<scope, ret, config, threadVars, blocked, jobVars, exitDump, histVars>>

(* return 0 *)
ReturnOk ==
    /\ pc = "return"
    /\ Return(0)
    /\ UNCHANGED <<scope, config, threadVars>> /\ Quiet

-----------------------------------------------------------------------------
(* Leaving server_main: the destructors, the newest local first *)

Unwinding(local) == pc = "unwind" /\ scope # <<>> /\ Last(scope) = local

(* server_guard: server.stop(). *)
ServerGuard ==
    /\ Unwinding("server_guard")
    /\ server' = "stopped"
    /\ scope' = Front(scope)
    /\ UNCHANGED <<pc, ret, config, maintain, pipeline>> /\ Quiet

(* ~Server: the threads that still run are stopped; after a start() that  *)
(* failed no guard has done it.                                            *)
DestroyServer ==
    /\ Unwinding("server")
    /\ server' = "stopped"
    /\ scope' = Front(scope)
    /\ UNCHANGED <<pc, ret, config, maintain, pipeline>> /\ Quiet

(* ~DocumentUpdatePipeline: the workers that still run are stopped; after *)
(* a start() that failed no guard has done it, and nothing was enqueued.  *)
DestroyPipeline ==
    /\ Unwinding("pipeline")
    /\ pipeline' = IF pipeline = "running" THEN "stopped" ELSE pipeline
    /\ scope' = Front(scope)
    /\ UNCHANGED <<pc, ret, config, maintain, server>> /\ Quiet

(* The locals whose destructor stops nothing: the model, the index view   *)
(* and the index.                                                          *)
Destroy ==
    /\ \E local \in {"model", "index_view", "index"} : Unwinding(local)
    /\ scope' = Front(scope)
    /\ UNCHANGED <<pc, ret, config, threadVars>> /\ Quiet

(* Mutant: the guard of the pipeline goes without calling stop(). *)
PipelineGuardNoStop ==
    /\ Unwinding("pipeline_guard")
    /\ scope' = Front(scope)
    /\ UNCHANGED <<pc, ret, config, threadVars>> /\ Quiet

(* document_update_pipeline_guard: stop() closes the queue ... *)
PipelineGuard ==
    /\ Unwinding("pipeline_guard")
    /\ Flow!Stop
    /\ pc' = "join_pipeline"
    /\ UNCHANGED <<scope, ret, config, maintain, server>> /\ Quiet

(* ... and returns when the workers have drained it and exited. *)
JoinPipeline ==
    /\ pc = "join_pipeline"
    /\ Flow!Join
    /\ scope' = Front(scope)
    /\ pc' = "unwind"
    /\ UNCHANGED <<ret, config, maintain, server>> /\ Quiet

(* feed_index_guard, first half: with dump_on_exit the index is dumped;   *)
(* an ios_base::failure of the dump is logged and nothing is written.     *)
FeedIndexGuard ==
    /\ Unwinding("feed_index_guard")
    /\ pc' = "stop_maintain"
    /\ \/ /\ config.dump_on_exit
          /\ exitDump' = [written |-> TRUE, handed |-> handed, published |-> published]
       \/ exitDump' = exitDump
    /\ UNCHANGED <<scope, ret, config, sigVars, threadVars, jobVars, histVars>>

(* feed_index_guard, second half: stop_maintain(). *)
StopMaintain ==
    /\ pc = "stop_maintain"
    /\ maintain' = FALSE
    /\ scope' = Front(scope)
    /\ pc' = "unwind"
    /\ UNCHANGED <<ret, config, pipeline, server>> /\ Quiet

(* Back in main(): ret is logged and returned. *)
MainReturn ==
    /\ pc = "unwind" /\ scope = <<>>
    /\ pc' = "exited"
    /\ UNCHANGED <<scope, ret, config, threadVars>> /\ Quiet

MainThread ==
    \/ Main \/ ReadConfigFile \/ InitLogConfig \/ InstallHandlers \/ InitFeatures \/ IndexConfig \/ CreateIndex
    \/ StartMaintain \/ CreatePipeline \/ StartPipeline \/ CreateModel \/ InitServer \/ StartServer
    \/ BlockSignals \/ ResetFlag \/ CheckFlag \/ Suspend \/ ReturnOk
    \/ ServerGuard \/ DestroyServer \/ DestroyPipeline \/ Destroy \/ PipelineGuard \/ JoinPipeline
    \/ FeedIndexGuard \/ StopMaintain \/ MainReturn

-----------------------------------------------------------------------------
(* Signals *)

Installed == pc \notin {"main", "read_config", "init_log", "install", "exited"}

(* A thread other than the main one exists to take a signal: the threads  *)
(* are created with the mask the main thread has at that moment, which    *)
(* holds nothing, and keep it unless their own code blocks the signals.   *)
OtherThreads ==
    /\ ThreadsTakeSignals
    /\ maintain \/ pipeline \in {"running", "closing"} \/ server = "running"

(* The main thread takes a signal it does not block; inside sigsuspend    *)
(* it blocks none.                                                         *)
MainTakes(sig) == sig \in IgnoredSignals \/ ~blocked \/ pc = "suspended"

(* Mutant: every signal is given to exit_on_signal. *)
HandlerAlwaysExits(sig) == sig

(* g_exit_signal after the handler installed for `sig` has run:           *)
(* exit_on_signal stores the signal, ignore_signal does nothing.          *)
Handler(sig) == IF sig \in ExitSignals THEN sig ELSE g_exit_signal

(* A signal is sent to the process.  Before the handlers are installed it *)
(* ends the process.  After, the handler runs on the main thread if that  *)
(* thread does not block the signal, which also ends a sigsuspend; a      *)
(* signal the main thread blocks is handled by another thread that does   *)
(* not block it, or stays pending.                                         *)
Signal(sig) ==
    /\ pc # "exited"
    /\ \/ /\ ~Installed
          /\ pc' = "exited"
          /\ UNCHANGED <<g_exit_signal, pending, caught>>
       \/ /\ Installed /\ MainTakes(sig)
          /\ g_exit_signal' = Handler(sig)
          /\ pc' = IF pc = "suspended" THEN "check" ELSE pc
          /\ caught' = (caught \/ (sig \in ExitSignals /\ pc \in {"check", "suspend", "suspended"}))
          /\ UNCHANGED pending
       \/ /\ Installed /\ ~MainTakes(sig) /\ OtherThreads
          /\ g_exit_signal' = Handler(sig)
          /\ UNCHANGED <<pc, pending, caught>>
       \/ /\ Installed /\ ~MainTakes(sig)
          /\ pending' = pending \cup {sig}
          /\ caught' = (caught \/ pc \in {"check", "suspend"})
          /\ UNCHANGED <<pc, g_exit_signal>>
    /\ sent' = (sent \/ (Installed /\ sig \in ExitSignals))
    /\ UNCHANGED <<scope, ret, config, blocked, threadVars, jobVars, exitDump>>

-----------------------------------------------------------------------------
(* The threads of the started components *)

(* A server thread: a feed request the pipeline accepts. *)
Feed == pc # "exited" /\ server = "running" /\ Flow!Accept /\ UNCHANGED aside

(* A pipeline worker takes a batch from the queue ... *)
Take == pc # "exited" /\ (\E n \in 1 .. QueueSize : Flow!Take(n)) /\ UNCHANGED aside

(* ... and gives it to batch_update. *)
Hand == pc # "exited" /\ (\E n \in 1 .. MaxJobs : Flow!Hand(n)) /\ UNCHANGED aside

Worker == Take \/ Hand

(* The maintenance thread: apply() publishes what has been staged. *)
MaintainApply == pc # "exited" /\ maintain /\ Flow!Publish /\ UNCHANGED aside

(* new_handler_abort: an allocation that fails, in any thread, is          *)
(* std::abort(): the process ends where it stands, no destructor runs.    *)
NewHandlerAbort ==
    /\ pc # "exited"
    /\ pc' = "exited"
    /\ UNCHANGED <<scope, ret, config, threadVars>> /\ Quiet

(* The process has exited. *)
Terminated == pc = "exited" /\ UNCHANGED vars

Next ==
    \/ MainThread
    \/ \E sig \in ExitSignals \cup IgnoredSignals : Signal(sig)
    \/ Feed \/ Worker \/ MaintainApply
    \/ NewHandlerAbort
    \/ Terminated

(* The main thread and the workers are threads the operating system keeps *)
(* scheduling; nothing obliges anyone to send a signal or a request, nor  *)
(* the maintenance thread to wake up before the process ends.             *)
Fairness == WF_vars(MainThread) /\ WF_vars(Worker)

Spec == Init /\ [][Next]_vars /\ Fairness

-----------------------------------------------------------------------------
(* Properties *)

(* No thread outlives what it works on: while the maintenance thread runs *)
(* the index exists, while the pipeline runs the index and the pipeline   *)
(* exist, while the server runs so do the index, the pipeline, the view,  *)
(* the model and the server object.  With the scope empty at the exit it  *)
(* says that every exit path of server_main (its six `return -1`, an      *)
(* exception, `return 0`) has stopped whatever it had started; it rests   *)
(* on each ScopeGuard being declared right after the start it undoes.     *)
UsesOnlyLiveObjects ==
    /\ maintain => Alive("index")
    /\ pipeline \in {"running", "closing"} => Alive("index") /\ Alive("pipeline")
    /\ server = "running" =>
           {"index", "pipeline", "index_view", "model", "server"} \subseteq ToSet(scope)

(* The dump of feed_index_guard is taken when every request the pipeline  *)
(* ever accepts has been given to batch_update: the server has stopped    *)
(* accepting and the pipeline has drained before the index is dumped,     *)
(* because the guards run in reverse order of their declaration.          *)
ExitDumpAfterDrain ==
    exitDump.written => exitDump.handed = accepted

(* The process was ended by abort(), its locals never destroyed. *)
Aborted == pc = "exited" /\ scope # <<>>

(* No accepted request is lost on the way to the index: a request the     *)
(* pipeline accepted is given to batch_update, also when the process is   *)
(* told to exit while it is queued (stop() drains before it joins).  Only *)
(* new_handler_abort ends the process with requests in the queue.         *)
AcceptedJobsReachIndex ==
    \A n \in 1..MaxJobs : (accepted >= n) ~> (handed >= n \/ Aborted)

(* An exit signal that reaches the main thread once the wait has begun    *)
(* (handled inside sigsuspend, or held pending by the mask until          *)
(* sigsuspend lets it in) ends the process: the block of SIGTERM/SIGINT   *)
(* ahead of the loop closes the window between the test of g_exit_signal  *)
(* and the sleep.                                                         *)
CaughtSignalEndsProcess == caught ~> (pc = "exited")

(* "Main loop: wait for exit signal": an exit signal sent once            *)
(* exit_on_signal is installed ends the process.                          *)
SignalEndsProcess == sent ~> (pc = "exited")

=============================================================================
