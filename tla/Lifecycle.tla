------------------------------ MODULE Lifecycle ------------------------------
(***************************************************************************)
(* The life of the process: main (main.c), the signal handlers and         *)
(* run_once of event_loop.c, zedis_create, zedis_run and zedis_destroy of  *)
(* server.c, with the metrics writer called from the run loop.  SIGTERM    *)
(* and SIGINT arrive between any two steps; clients cause events; the      *)
(* process may be killed, lose the machine under it, and be started again. *)
(* The handlers of an event are one step that may open or close a          *)
(* connection and run a command (Server has them in detail).               *)
(***************************************************************************)
EXTENDS Metrics, Integers, Sequences, FiniteSets

CONSTANTS
  BusyPoll,    \* values of config.busy_poll in the instance
  MaxSignals,  \* bound: signals sent to one life
  MaxLives     \* bound: starts of the process

ASSUME LifecycleAssumption ==
  BusyPoll \subseteq BOOLEAN /\ MaxSignals \in Nat /\ MaxLives \in Nat \ {0}

VARIABLES
  busy_poll,
  pc,
  stage,            \* index in Stages or in DestroyOrder
  held,             \* what the process has acquired and not released
  conns,            \* server->conn_count
  ready,            \* epoll has an event to report
  disposition,      \* of SIGTERM and SIGINT
  signal_received,
  signals,          \* signals sent to this life
  batches,          \* batches dispatched since the flag was set
  ran,              \* zedis_run was entered
  status            \* exit status

vars == <<mvars, busy_poll, pc, stage, held, conns, ready, disposition,
          signal_received, signals, batches, ran, status>>
pvars == <<busy_poll, stage, held, conns, ready, disposition,
           signal_received, signals, batches, ran, status>>

Sigs == {"SIGTERM", "SIGINT"}

Init ==
  /\ MetricsInit /\ busy_poll \in BusyPoll
  /\ pc = "sigterm" /\ stage = 1 /\ held = {} /\ conns = 0 /\ ready = FALSE
  /\ disposition = [s \in Sigs |-> "default"] /\ signal_received = FALSE
  /\ signals = 0 /\ batches = 0 /\ ran = FALSE /\ status = None

Over == pc \in {"exited", "killed"}
-----------------------------------------------------------------------------
(* event_loop_install_signal_handlers *)

InstallTerm ==
  /\ pc = "sigterm"
  /\ \/ /\ pc' = "sigint" /\ disposition' = [disposition EXCEPT !["SIGTERM"] = "flag"]
        /\ UNCHANGED <<mvars, status>>
     \/ /\ Fault /\ pc' = "exited" /\ status' = "failure"
        /\ UNCHANGED <<metrics, elapsed, snap, temp, final, left, life, disposition>>
  /\ UNCHANGED <<busy_poll, stage, held, conns, ready, signal_received, signals, batches, ran>>

InstallInt ==
  /\ pc = "sigint"
  /\ \/ /\ pc' = "reset" /\ disposition' = [disposition EXCEPT !["SIGINT"] = "flag"]
        /\ UNCHANGED <<mvars, status>>
     \/ /\ Fault /\ pc' = "exited" /\ status' = "failure"
        /\ disposition' = [disposition EXCEPT !["SIGTERM"] = "default"]
        /\ UNCHANGED <<metrics, elapsed, snap, temp, final, left, life>>
  /\ UNCHANGED <<busy_poll, stage, held, conns, ready, signal_received, signals, batches, ran>>

\* A signal that came since the handlers were installed is forgotten here.
ResetFlag ==
  /\ pc = "reset" /\ pc' = "args" /\ signal_received' = FALSE
  /\ UNCHANGED <<mvars, busy_poll, stage, held, conns, ready, disposition, signals, batches, ran, status>>

(* main: the arguments, then the server *)

ParseArgs ==
  /\ pc = "args"
  /\ \/ pc' = "create" /\ UNCHANGED status
     \/ pc' = "restore_term" /\ status' \in {"failure", "success"}  \* usage, --help
     \/ pc' = "exited" /\ status' = "failure"                       \* --book-max
  /\ UNCHANGED <<mvars, busy_poll, stage, held, conns, ready, disposition,
                 signal_received, signals, batches, ran>>
-----------------------------------------------------------------------------
(* zedis_create *)

\* What each step acquires.  Structures that lie in the arena go with it.
Stages == <<"server", "arena", "slab", "kv", "book", "ring", "aol", "zsets", "lists", "loop", "listen", "add">>
Owned == {"server", "arena", "aol", "loop", "listen"}

\* Mutant: a failure to register the listening descriptor leaves it open.
Cleanup_NoClose(k) ==
  CASE Stages[k] = "server"                               -> <<>>
    [] Stages[k] = "arena"                                -> <<"server">>
    [] Stages[k] \in {"slab", "kv", "book", "ring", "aol", "loop"} -> <<"arena", "server">>
    [] Stages[k] \in {"zsets", "lists"}                   -> <<"aol", "arena", "server">>
    [] Stages[k] \in {"listen", "add"}                    -> <<"loop", "arena", "server">>

\* What a failure at a stage releases, in this order.
Cleanup(k) ==
  CASE Stages[k] = "server"                               -> <<>>
    [] Stages[k] = "arena"                                -> <<"server">>
    [] Stages[k] \in {"slab", "kv", "book", "ring", "aol", "loop"} -> <<"arena", "server">>
    [] Stages[k] \in {"zsets", "lists"}                   -> <<"aol", "arena", "server">>
    [] Stages[k] = "listen"                               -> <<"loop", "arena", "server">>
    [] Stages[k] = "add"                                  -> <<"listen", "loop", "arena", "server">>

CreateStep ==
  /\ pc = "create" /\ stage <= Len(Stages)
  /\ held' = held \cup ({Stages[stage]} \cap Owned)
  /\ stage' = stage + 1
  /\ UNCHANGED <<mvars, pc, busy_poll, conns, ready, disposition, signal_received, signals, batches, ran, status>>

CreateFails ==
  /\ pc = "create" /\ stage <= Len(Stages) /\ Fault
  /\ held' = held \ {Cleanup(stage)[i] : i \in 1..Len(Cleanup(stage))}
  /\ pc' = "restore_term" /\ status' = "failure"
  /\ UNCHANGED <<metrics, elapsed, snap, temp, final, left, life, busy_poll, stage, conns,
                 ready, disposition, signal_received, signals, batches, ran>>

CreateDone ==
  /\ pc = "create" /\ stage > Len(Stages)
  /\ zedis_metrics_init
  /\ pc' = "run" /\ ran' = TRUE
  /\ UNCHANGED <<busy_poll, stage, held, conns, ready, disposition, signal_received, signals, batches, status>>
-----------------------------------------------------------------------------
(* zedis_run: a metrics write, then a loop of a metrics write and run_once *)

InWrite == pc \in {"run", "loop"}

MetricsStep ==
  /\ InWrite /\ write_snapshot
  /\ UNCHANGED <<pc, pvars>>

MetricsReturn ==
  /\ InWrite /\ (NotDue \/ WriteDone)
  /\ pc' = IF pc = "run" THEN "loop" ELSE "test"
  /\ UNCHANGED pvars

(* event_loop_run_once *)

\* Mutant: the flag is looked at only when epoll_wait fails.
TestSignal_Skip ==
  /\ pc = "test" /\ pc' = "wait"
  /\ UNCHANGED <<mvars, pvars>>

TestSignal ==
  /\ pc = "test"
  /\ IF signal_received THEN pc' = "destroy" /\ stage' = 1 ELSE pc' = "wait" /\ UNCHANGED stage
  /\ UNCHANGED <<mvars, busy_poll, held, conns, ready, disposition, signal_received, signals, batches, ran, status>>

\* epoll_wait returns what is ready; with timeout -1 and nothing ready it waits.
EpollWait ==
  /\ pc = "wait"
  /\ pc' = CASE ready -> "dispatch" [] ~ready /\ busy_poll -> "loop" [] OTHER -> "blocked"
  /\ ready' = FALSE
  /\ UNCHANGED <<mvars, busy_poll, stage, held, conns, disposition, signal_received, signals, batches, ran, status>>

Wake ==
  /\ pc = "blocked" /\ ready
  /\ pc' = "dispatch" /\ ready' = FALSE
  /\ UNCHANGED <<mvars, busy_poll, stage, held, conns, disposition, signal_received, signals, batches, ran, status>>

\* EINTR without a shutdown signal (a stop and a continue): back to the loop.
Interrupted ==
  /\ pc = "blocked" /\ ~signal_received
  /\ pc' = "loop"
  /\ UNCHANGED <<mvars, pvars>>

\* Any other error ends the run.
WaitFails ==
  /\ pc \in {"wait", "blocked"} /\ Fault
  /\ pc' = "destroy" /\ stage' = 1
  /\ UNCHANGED <<metrics, elapsed, snap, temp, final, left, life, busy_poll, held, conns, ready,
                 disposition, signal_received, signals, batches, ran, status>>

\* The batch: a connection comes or goes, or a command is handled.
DispatchBatch ==
  /\ pc = "dispatch" /\ pc' = "loop"
  /\ batches' = IF signal_received THEN batches + 1 ELSE batches
  /\ \/ conns' \in {0, 1} /\ UNCHANGED mvars
     \/ /\ conns = 1 /\ UNCHANGED conns
        /\ metrics # None => metrics.count < MaxCommands
        /\ zedis_metrics_record_command
  /\ held' = IF conns' = 0 THEN held \ {"conns"} ELSE held \cup {"conns"}
  /\ UNCHANGED <<busy_poll, stage, ready, disposition, signal_received, signals, ran, status>>

\* A write to a connection the peer has reset: SIGPIPE has its default action.
DispatchSigpipe ==
  /\ pc = "dispatch" /\ conns = 1
  /\ pc' = "killed" /\ LoseProcess(FALSE)
  /\ UNCHANGED pvars
-----------------------------------------------------------------------------
(* zedis_destroy and the end of main *)

\* Mutant: the loop's descriptor is closed before the connections are destroyed.
DestroyOrder_LoopFirst == <<"metrics", "loop", "conns", "listen", "aol", "arena", "server">>

DestroyOrder == <<"metrics", "conns", "listen", "loop", "aol", "arena", "server">>

\* What the step reads or writes: handlers, connections and slab lie in the
\* arena, and epoll_ctl needs the loop's descriptor.
Touches(r) ==
  CASE r = "conns"  -> {"server", "arena", "loop"}
    [] r = "listen" -> {"server", "arena", "loop", "listen"}
    [] r = "loop"   -> {"server", "arena", "loop"}
    [] r \in {"metrics", "server"} -> {"server"}
    [] OTHER -> {"server", r}

DestroyStep ==
  /\ pc = "destroy" /\ stage <= Len(DestroyOrder)
  /\ IF DestroyOrder[stage] = "metrics" THEN zedis_metrics_destroy ELSE UNCHANGED mvars
  /\ held' = held \ {DestroyOrder[stage]}
  /\ conns' = IF DestroyOrder[stage] = "conns" THEN 0 ELSE conns
  /\ stage' = stage + 1
  /\ UNCHANGED <<pc, busy_poll, ready, disposition, signal_received, signals, batches, ran, status>>

DestroyDone ==
  /\ pc = "destroy" /\ stage > Len(DestroyOrder)
  /\ pc' = "restore_term"
  /\ UNCHANGED <<mvars, pvars>>

\* event_loop_restore_signal_handlers
RestoreTerm ==
  /\ pc = "restore_term" /\ pc' = "restore_int"
  /\ disposition' = [disposition EXCEPT !["SIGTERM"] = "default"]
  /\ UNCHANGED <<mvars, busy_poll, stage, held, conns, ready, signal_received, signals, batches, ran, status>>

RestoreInt ==
  /\ pc = "restore_int" /\ pc' = "return"
  /\ disposition' = [disposition EXCEPT !["SIGINT"] = "default"]
  /\ UNCHANGED <<mvars, busy_poll, stage, held, conns, ready, signal_received, signals, batches, ran, status>>

\* Mutant: the status is what zedis_run returned.
MainReturn_Rc ==
  /\ pc = "return" /\ pc' = "exited"
  /\ status' = IF status # None THEN status ELSE "failure"
  /\ UNCHANGED <<mvars, busy_poll, stage, held, conns, ready, disposition, signal_received, signals, batches, ran>>

\* zedis_run returns -1 always; after a signal that is success.
MainReturn ==
  /\ pc = "return" /\ pc' = "exited"
  /\ status' = CASE status # None -> status [] signal_received -> "success" [] OTHER -> "failure"
  /\ UNCHANGED <<mvars, busy_poll, stage, held, conns, ready, disposition, signal_received, signals, batches, ran>>
-----------------------------------------------------------------------------
(* Signals, clients, the machine, and whoever starts the process again *)

\* handle_shutdown_signal, which also interrupts a blocked epoll_wait, whose
\* n < 0 ends the run; or the default action.
Signal(s) ==
  /\ ~Over /\ signals < MaxSignals /\ signals' = signals + 1
  /\ \/ /\ disposition[s] = "flag" /\ signal_received' = TRUE
        /\ IF pc = "blocked" THEN pc' = "destroy" /\ stage' = 1 ELSE UNCHANGED <<pc, stage>>
        /\ UNCHANGED mvars
     \/ /\ disposition[s] = "default" /\ pc' = "killed" /\ LoseProcess(FALSE)
        /\ UNCHANGED <<signal_received, stage>>
  /\ UNCHANGED <<busy_poll, held, conns, ready, disposition, batches, ran, status>>

Event ==
  /\ ran /\ ~Over /\ ~ready /\ "loop" \in held /\ ready' = TRUE
  /\ UNCHANGED <<mvars, pc, busy_poll, stage, held, conns, disposition, signal_received, signals, batches, ran, status>>

Clock == ran /\ ~Over /\ Tick /\ UNCHANGED <<pc, pvars>>

Crash ==
  /\ ~Over /\ pc' = "killed"
  /\ \E machine \in BOOLEAN : LoseProcess(machine)
  /\ UNCHANGED pvars

Restart ==
  /\ Over /\ life < MaxLives /\ life' = life + 1
  /\ pc' = "sigterm" /\ stage' = 1 /\ held' = {} /\ conns' = 0 /\ ready' = FALSE
  /\ disposition' = [s \in Sigs |-> "default"] /\ signal_received' = FALSE
  /\ signals' = 0 /\ batches' = 0 /\ ran' = FALSE /\ status' = None
  /\ UNCHANGED <<busy_poll, metrics, elapsed, snap, temp, final, left, faults>>

Process ==
  \/ InstallTerm \/ InstallInt \/ ResetFlag \/ ParseArgs
  \/ CreateStep \/ CreateFails \/ CreateDone
  \/ MetricsStep \/ MetricsReturn \/ TestSignal
  \/ EpollWait \/ Wake \/ DispatchBatch \/ DispatchSigpipe
  \/ DestroyStep \/ DestroyDone \/ RestoreTerm \/ RestoreInt \/ MainReturn

Next ==
  \/ Process \/ Interrupted \/ WaitFails
  \/ (\E s \in Sigs : Signal(s)) \/ Event \/ Clock \/ Crash \/ Restart

Spec == Init /\ [][Next]_vars

\* The only thread keeps running and the clock keeps ticking.  Nobody has to
\* send a signal, cause an event, interrupt a wait or make it fail.
FairSpec == Spec /\ WF_vars(Process) /\ WF_vars(Clock)
-----------------------------------------------------------------------------
\* Types of the process's state and of the files.
TypeOK ==
  /\ busy_poll \in BOOLEAN /\ stage \in 1..(Len(Stages) + 1) /\ conns \in {0, 1}
  /\ held \subseteq Owned \cup {"conns"} /\ disposition \in [Sigs -> {"default", "flag"}]
  /\ signals \in 0..MaxSignals /\ status \in {None, "success", "failure"}
  /\ pc \in {"sigterm", "sigint", "reset", "args", "create", "run", "loop", "test", "wait", "blocked",
             "dispatch", "destroy", "restore_term", "restore_int", "return", "exited", "killed"}
  /\ snap \in {"none", "mkstemp", "fdopen", "print", "fsync", "fclose", "fclose_failed",
               "rename", "unlink", "done"} /\ (snap # "none" => InWrite)
  /\ elapsed \in 0..Interval /\ faults \in 0..MaxFaults /\ life \in 1..MaxLives

\* The collector never reads part of a snapshot: whatever call of
\* write_snapshot fails, and wherever the process or the machine dies, the
\* file under the final name is whole.  No path of write_snapshot leaves a
\* temporary file; only a process killed in the middle of it does, one each.
SnapshotSafe ==
  /\ final # None => final.whole
  /\ left <= life - 1 + (IF pc = "killed" THEN 1 ELSE 0)
  /\ temp # None => snap \notin {"none", "mkstemp", "done"}

\* Everything main and zedis_create acquired is released on every way out of
\* main, but for the append log when creation fails from the event loop on.
ReleasedAtExit ==
  pc = "exited" => held \subseteq (IF ran THEN {} ELSE {"aol"})

\* No step of zedis_destroy, and no clean-up of zedis_create, touches what was
\* released before: connections, handlers and the loop lie in the arena.
\* Types included.
UsesHeld ==
  /\ TypeOK
  /\ pc = "destroy" /\ stage <= Len(DestroyOrder) => Touches(DestroyOrder[stage]) \subseteq held
  /\ pc = "create" /\ stage <= Len(Stages) =>
       \A i \in 1..Len(Cleanup(stage)) :
         Touches(Cleanup(stage)[i]) \subseteq held \ {Cleanup(stage)[j] : j \in 1..(i - 1)}

\* After SIGTERM or SIGINT set the flag, at most one more batch of events is
\* handled, the one epoll_wait was about to return; and a server that ran and
\* came back from zedis_run exits with success exactly when a signal asked
\* for it.
SignalObeyed ==
  /\ batches <= 1
  /\ pc = "exited" /\ ran => (status = "success") = signal_received

\* A signal that set the flag for good ends the process, through zedis_destroy
\* or a second signal; with blocking epoll_wait, unless the signal came after
\* the test of the flag and the thread waits for an event.
StopsOnSignal ==
  (signal_received /\ pc \notin {"sigint", "reset"}) ~> (Over \/ (~busy_poll /\ pc = "blocked"))

\* With busy polling every counted command reaches the collector's file,
\* although a snapshot may fail and is not retried before the interval is over.
Published ==
  \A n \in 1..MaxCommands :
    (busy_poll /\ metrics # None /\ metrics.count >= n) ~>
      (metrics = None \/ (final # None /\ final.life = life /\ final.count >= n))
=============================================================================
