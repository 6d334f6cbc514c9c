------------------------------ MODULE NodeLauncher ------------------------------
(***************************************************************************)
(* The program of a local node (desktop_app/node_launcher.py and           *)
(* node_runtime.py): a launcher serves the console and supervises one      *)
(* worker process. The user may start it twice, leave it by the tray menu  *)
(* while the supervising thread looks at the worker, or kill it; a worker  *)
(* may crash, and one whose launcher is gone leaves by itself. Launchers   *)
(* and workers share files: the port of the console, what the supervisor   *)
(* says of the worker, and the worker's heartbeat.                         *)
(*                                                                         *)
(* Process ids are not reused here. The port file names the console that   *)
(* wrote it; the window in which crashes count is a clock that may pass at *)
(* any time.                                                               *)
(***************************************************************************)
EXTENDS Integers, FiniteSets, Sequences

CONSTANTS
    Launchers,      \* starts of the program by the user or by Windows
    MaxRestarts,    \* WorkerSupervisor: max_restarts
    MaxProbes,      \* STARTUP_WAIT_SECONDS
    Disturbances,   \* what may go wrong: "start", "spawn", "crash", "kill"
    MaxEvents,      \* bound on how often
    None

ASSUME BoundAssumption == MaxRestarts \in Nat /\ MaxProbes \in Nat \ {0} /\ MaxEvents \in Nat
ASSUME DisturbanceAssumption == Disturbances \subseteq {"start", "spawn", "crash", "kill"}
ASSUME NoneAssumption == None \notin Launchers

VARIABLES
    launcher,       \* each start: what its main thread does
    supervisor,     \* its WorkerSupervisor and the thread that polls it
    workers,        \* worker processes, in the order they were started
    files,          \* the port, worker.state and worker.heartbeat files
    events          \* disturbances so far

vars == <<launcher, supervisor, workers, files, events>>

Alive(l) == launcher[l].pc \notin {"off", "gone"}
Closing == {"terminating", "unlinking", "closing", "silent", "leaving"}
Holding == {"starting", "bound", "started", "serving"} \union Closing

\* The lock is held until its process ends.
Holders == {l \in Launchers : launcher[l].pc \in Holding}

Stopping(l) == launcher[l].pc \in Closing
Answers(l) == launcher[l].pc \in {"serving", "terminating", "unlinking", "closing"}

WorkerAlive(w) == workers[w].pc # "gone"
Spawned(l) == [parent |-> l, pc |-> "booting"]
Leaves(w) == workers' = [workers EXCEPT ![w].pc = "gone"]

Goto(l, pc) == launcher' = [launcher EXCEPT ![l].pc = pc]
ThreadAt(l, pc) == supervisor[l].thread = pc

Disturb(kind) == kind \in Disturbances /\ events < MaxEvents /\ events' = events + 1

(***************************************************************************)
(* Starting                                                                *)
(***************************************************************************)

Launch(l) ==
    /\ launcher[l].pc = "off"
    /\ Goto(l, IF Holders = {} THEN "starting" ELSE "probing")
    /\ UNCHANGED <<supervisor, workers, files, events>>

\* A second launcher shows the first one's console, or gives up.
Probe(l) ==
    /\ launcher[l].pc = "probing"
    /\ LET found == files.port # None /\ Answers(files.port)
           tries == launcher[l].probes + 1
       IN  launcher' = [launcher EXCEPT
               ![l].probes = tries,
               ![l].pc = IF found \/ tries = MaxProbes THEN "gone" ELSE "probing"]
    /\ UNCHANGED <<supervisor, workers, files, events>>

\* The schema is migrated, outdated results are queued, the server is bound.
Bind(l) ==
    /\ launcher[l].pc = "starting"
    /\ files' = [files EXCEPT !.port = l]
    /\ Goto(l, "bound")
    /\ UNCHANGED <<supervisor, workers, events>>

StartSupervisor(l) ==
    /\ launcher[l].pc = "bound"
    /\ workers' = Append(workers, Spawned(l))
    /\ supervisor' = [supervisor EXCEPT
           ![l] = [@ EXCEPT !.process = Len(workers) + 1, !.stopped = FALSE, !.crashes = 0]]
    /\ files' = [files EXCEPT !.state = "running"]
    /\ Goto(l, "started")
    /\ UNCHANGED events

StartThreads(l) ==
    /\ launcher[l].pc = "started"
    /\ supervisor' = [supervisor EXCEPT ![l].thread = "waiting"]
    /\ Goto(l, "serving")
    /\ UNCHANGED <<workers, files, events>>

\* No free port, or the worker cannot be started: the launcher ends with an exception.
StartFails(l) ==
    /\ launcher[l].pc \in {"starting", "bound"} /\ Disturb("start")
    /\ Goto(l, "gone")
    /\ UNCHANGED <<supervisor, workers, files>>

(***************************************************************************)
(* The supervising thread: WorkerSupervisor.poll                           *)
(***************************************************************************)

Wake(l) ==
    /\ Alive(l) /\ ThreadAt(l, "waiting")
    /\ \/ Stopping(l)
       \/ ~supervisor[l].stopped /\ supervisor[l].process # 0
    /\ supervisor' = [supervisor EXCEPT ![l].thread = IF Stopping(l) THEN "ended" ELSE "polling"]
    /\ UNCHANGED <<launcher, workers, files, events>>

\* The process is read again: it may be none by now, which ends the thread.
Look(l) ==
    /\ Alive(l) /\ ThreadAt(l, "polling")
    /\ LET s == supervisor[l]
           crashed == s.process # 0 /\ ~WorkerAlive(s.process)
           limit == s.crashes + 1 > MaxRestarts
       IN  supervisor' = [supervisor EXCEPT ![l] =
               [s EXCEPT !.thread = CASE s.process = 0 -> "ended"
                                      [] crashed -> IF limit THEN "giving up" ELSE "restarting"
                                      [] s.process # 0 /\ ~crashed -> "waiting",
                         !.crashes = IF crashed THEN @ + 1 ELSE @,
                         !.stopped = crashed /\ limit]]
    /\ UNCHANGED <<launcher, workers, files, events>>

\* Mutant: the limit is logged and not written.
GiveUpSilently(l) ==
    /\ Alive(l) /\ ThreadAt(l, "giving up")
    /\ supervisor' = [supervisor EXCEPT ![l].thread = "waiting"]
    /\ UNCHANGED <<launcher, workers, files, events>>

GiveUp(l) ==
    /\ Alive(l) /\ ThreadAt(l, "giving up")
    /\ files' = [files EXCEPT !.state = "stopped"]
    /\ supervisor' = [supervisor EXCEPT ![l].thread = "waiting"]
    /\ UNCHANGED <<launcher, workers, events>>

Restart(l) ==
    /\ Alive(l) /\ ThreadAt(l, "restarting")
    /\ workers' = Append(workers, Spawned(l))
    /\ supervisor' = [supervisor EXCEPT
           ![l] = [@ EXCEPT !.process = Len(workers) + 1, !.thread = "waiting"]]
    /\ UNCHANGED <<launcher, files, events>>

\* An exception of the restart ends the thread, which nothing replaces.
RestartFails(l) ==
    /\ Alive(l) /\ ThreadAt(l, "restarting") /\ Disturb("spawn")
    /\ supervisor' = [supervisor EXCEPT ![l].thread = "ended"]
    /\ UNCHANGED <<launcher, workers, files>>

\* The oldest crash leaves the window.
WindowPasses(l) ==
    /\ Alive(l) /\ supervisor[l].crashes > 0 /\ ~supervisor[l].stopped
    /\ supervisor' = [supervisor EXCEPT ![l].crashes = @ - 1]
    /\ UNCHANGED <<launcher, workers, files, events>>

(***************************************************************************)
(* Leaving: shutdown                                                       *)
(***************************************************************************)

\* The tray's exit, or an exception of the tray: stop is set and the process taken.
Exit(l) ==
    /\ launcher[l].pc = "serving"
    /\ launcher' = [launcher EXCEPT ![l].pc = "terminating", ![l].victim = supervisor[l].process]
    /\ supervisor' = [supervisor EXCEPT ![l].process = 0]
    /\ UNCHANGED <<workers, files, events>>

Terminate(l) ==
    /\ launcher[l].pc = "terminating"
    /\ Leaves(launcher[l].victim)
    /\ Goto(l, "unlinking")
    /\ UNCHANGED <<supervisor, files, events>>

UnlinkState(l) ==
    /\ launcher[l].pc = "unlinking"
    /\ files' = [files EXCEPT !.state = None]
    /\ Goto(l, "closing")
    /\ UNCHANGED <<supervisor, workers, events>>

StopServer(l) ==
    /\ launcher[l].pc = "closing"
    /\ Goto(l, "silent")
    /\ UNCHANGED <<supervisor, workers, files, events>>

UnlinkPort(l) ==
    /\ launcher[l].pc = "silent"
    /\ files' = [files EXCEPT !.port = None]
    /\ Goto(l, "leaving")
    /\ UNCHANGED <<supervisor, workers, events>>

\* The process ends with its threads and its lock.
Gone(l) ==
    /\ Goto(l, "gone")
    /\ supervisor' = [supervisor EXCEPT ![l].thread = "ended"]
    /\ UNCHANGED <<workers, files>>

Leave(l) == launcher[l].pc = "leaving" /\ Gone(l) /\ UNCHANGED events

KillLauncher(l) == Alive(l) /\ Disturb("kill") /\ Gone(l)

(***************************************************************************)
(* The worker                                                              *)
(***************************************************************************)

\* A heartbeat before each poll of the queue and at each job.
Beat(w, from, to) ==
    /\ workers[w].pc = from
    /\ workers' = [workers EXCEPT ![w].pc = to]
    /\ files' = [files EXCEPT !.heartbeat = to, !.fresh = TRUE]
    /\ UNCHANGED <<launcher, supervisor, events>>

Boot(w) == Beat(w, "booting", "idle")
Poll(w) == ~files.fresh /\ Beat(w, "idle", "idle")
Claim(w) == Beat(w, "idle", "busy")
Finish(w) == Beat(w, "busy", "idle")

\* WORKER_STALE_SECONDS pass without a heartbeat.
GrowStale ==
    /\ files.fresh
    /\ files' = [files EXCEPT !.fresh = FALSE]
    /\ UNCHANGED <<launcher, supervisor, workers, events>>

Crash(w) ==
    /\ WorkerAlive(w) /\ Disturb("crash")
    /\ Leaves(w)
    /\ UNCHANGED <<launcher, supervisor, files>>

\* Mutant: a worker looks for its launcher between two jobs only.
OrphanLeavesWhenIdle(w) ==
    /\ workers[w].pc = "idle" /\ ~Alive(workers[w].parent)
    /\ Leaves(w)
    /\ UNCHANGED <<launcher, supervisor, files, events>>

OrphanLeaves(w) ==
    /\ WorkerAlive(w) /\ ~Alive(workers[w].parent)
    /\ Leaves(w)
    /\ UNCHANGED <<launcher, supervisor, files, events>>

\* What the console shows: worker_status. A busy worker is well, however old its heartbeat.
WorkerStatus ==
    CASE files.state = "stopped" -> "warn"
      [] files.state # "stopped" /\ files.heartbeat = None -> "off"
      [] files.state # "stopped" /\ (files.heartbeat = "busy" \/ (files.heartbeat = "idle" /\ files.fresh)) -> "ok"
      [] files.state # "stopped" /\ files.heartbeat = "idle" /\ ~files.fresh -> "warn"

-----------------------------------------------------------------------------

Init ==
    /\ launcher = [l \in Launchers |-> [pc |-> "off", probes |-> 0, victim |-> 0]]
    /\ supervisor = [l \in Launchers |->
           [process |-> 0, stopped |-> FALSE, crashes |-> 0, thread |-> "off"]]
    /\ workers = <<>>
    /\ files = [port |-> None, state |-> None, heartbeat |-> None, fresh |-> FALSE]
    /\ events = 0

Start(l) == Probe(l) \/ Bind(l) \/ StartSupervisor(l) \/ StartThreads(l)
Supervise(l) == Wake(l) \/ Look(l) \/ GiveUp(l) \/ Restart(l)
Shutdown(l) == Terminate(l) \/ UnlinkState(l) \/ StopServer(l) \/ UnlinkPort(l) \/ Leave(l)

Next ==
    \/ \E l \in Launchers :
          \/ Launch(l) \/ Start(l) \/ StartFails(l)
          \/ Supervise(l) \/ RestartFails(l) \/ WindowPasses(l)
          \/ Exit(l) \/ Shutdown(l) \/ KillLauncher(l)
    \/ \E w \in DOMAIN workers :
          Boot(w) \/ Poll(w) \/ Claim(w) \/ Finish(w) \/ Crash(w) \/ OrphanLeaves(w)
    \/ GrowStale

Spec == Init /\ [][Next]_vars

\* Each launcher starts one worker, and each restart follows a crash.
MaxWorkers == Cardinality(Launchers) + MaxEvents
Lives(w) == w \in DOMAIN workers /\ (Boot(w) \/ OrphanLeaves(w))

\* The threads and processes run on, and an orphan looks for its launcher every five seconds;
\* nobody must launch, leave, kill or crash anything, and no job must come or end.
FairSpec ==
    /\ Spec
    /\ \A l \in Launchers : WF_vars(Start(l)) /\ WF_vars(Supervise(l)) /\ WF_vars(Shutdown(l))
    /\ \A w \in 1 .. MaxWorkers : WF_vars(Lives(w))

-----------------------------------------------------------------------------

\* The state has the types of the processes' variables and of the files' contents.
TypeOK ==
    /\ \A l \in Launchers :
          /\ launcher[l].pc \in {"off", "probing", "gone"} \union Holding
          /\ launcher[l].probes \in 0 .. MaxProbes /\ launcher[l].victim \in 0 .. Len(workers)
          /\ supervisor[l].process \in 0 .. Len(workers) /\ supervisor[l].stopped \in BOOLEAN
          /\ supervisor[l].crashes \in 0 .. MaxRestarts + 1
          /\ supervisor[l].thread \in {"off", "waiting", "polling", "giving up", "restarting", "ended"}
    /\ \A w \in DOMAIN workers :
          workers[w].parent \in Launchers /\ workers[w].pc \in {"booting", "idle", "busy", "gone"}
    /\ files.port \in Launchers \union {None} /\ files.state \in {None, "running", "stopped"}
    /\ files.heartbeat \in {None, "idle", "busy"} /\ files.fresh \in BOOLEAN
    /\ events \in 0 .. MaxEvents

\* While a console is served, the port file leads to it and the state file says what its own
\* supervisor found: no other launcher, one that leaves late included, writes or unlinks them.
FilesAreOwn ==
    \A l \in Launchers : launcher[l].pc = "serving" =>
        /\ files.port = l
        /\ files.state = IF supervisor[l].stopped /\ ~ThreadAt(l, "giving up") THEN "stopped" ELSE "running"

\* At most one worker has a launcher that is there: a restart never adds a second one.
OneSupervisedWorker ==
    \A v, w \in DOMAIN workers :
        v # w /\ WorkerAlive(v) /\ WorkerAlive(w) =>
            ~Alive(workers[v].parent) \/ ~Alive(workers[w].parent)

Supervises(l) == launcher[l].pc = "serving" /\ ~ThreadAt(l, "ended")
HasWorker(l) == \E w \in DOMAIN workers : workers[w].parent = l /\ WorkerAlive(w)

\* A worker that died under a launcher is replaced, or the console stops showing it as well:
\* also one that died busy, whose last heartbeat never grows stale. (A failed restart ends the
\* supervising thread, and with it what this says.)
CrashIsDetected ==
    \A l \in Launchers :
        Supervises(l) /\ ~HasWorker(l) ~> ~Supervises(l) \/ HasWorker(l) \/ WorkerStatus # "ok"

\* A worker never stays on the database without a launcher, however its launcher ended and
\* even when it was started by the supervisor during the exit.
OrphansLeave ==
    \A w \in 1 .. MaxWorkers :
        (w \in DOMAIN workers /\ ~Alive(workers[w].parent)) ~> (w \in DOMAIN workers /\ ~WorkerAlive(w))

=============================================================================
