------------------------------- MODULE Metrics -------------------------------
(***************************************************************************)
(* The metrics writer (metrics.c): counters in memory, and a snapshot that *)
(* is written to a temporary file, flushed, synced, closed and renamed     *)
(* over the file the collector reads.  Each call that can fail is a step,  *)
(* so that the process may die between any two of them.  All counters are  *)
(* one counter; a snapshot carries it with the life (incarnation of the    *)
(* process) that wrote it.                                                 *)
(***************************************************************************)
EXTENDS Naturals

CONSTANTS
  Interval,     \* interval_ms, in ticks of the clock
  MaxCommands,  \* bound: commands counted in one life
  MaxFaults,    \* bound: system calls that fail
  None

ASSUME MetricsAssumption ==
  Interval \in Nat \ {0} /\ MaxCommands \in Nat /\ MaxFaults \in Nat

VARIABLES
  metrics,  \* server->metrics: None, or whether last_write_ms # 0, and the counter
  elapsed,  \* now - last_write_ms, up to Interval
  snap,     \* what write_snapshot does next
  temp,     \* the temporary file being written, None if there is none
  final,    \* zedis.prom in the collector's directory
  left,     \* temporary files nobody will remove
  faults,   \* system calls that failed
  life

mvars == <<metrics, elapsed, snap, temp, final, left, faults, life>>

MetricsInit ==
  /\ metrics = None /\ elapsed = 0 /\ snap = "none"
  /\ temp = None /\ final = None /\ left = 0 /\ faults = 0 /\ life = 1

\* A call that fails, within the bound.
Fault == faults < MaxFaults /\ faults' = faults + 1
-----------------------------------------------------------------------------
\* Its result is ignored: without memory the server runs without metrics.
zedis_metrics_init ==
  /\ \/ metrics' = [written |-> FALSE, count |-> 0] /\ UNCHANGED faults
     \/ metrics' = None /\ Fault
  /\ UNCHANGED <<elapsed, snap, temp, final, left, life>>

zedis_metrics_record_command ==
  /\ metrics' = IF metrics = None THEN None ELSE [metrics EXCEPT !.count = @ + 1]
  /\ UNCHANGED <<elapsed, snap, temp, final, left, faults, life>>

\* Mutant: only the first write is ever due.
Due_Once == metrics # None /\ ~metrics.written

Due == metrics # None /\ (metrics.written => elapsed >= Interval)

\* zedis_metrics_maybe_write without a write.
NotDue == snap = "none" /\ ~Due /\ UNCHANGED mvars

\* A write is due: now is read here, and last_write_ms gets it whatever
\* becomes of the write; nobody looks at it before.  Without a clock now is 0,
\* which counts as never written.
StartWrite ==
  /\ snap = "none" /\ Due
  /\ \/ metrics' = [metrics EXCEPT !.written = TRUE] /\ UNCHANGED faults
     \/ metrics' = [metrics EXCEPT !.written = FALSE] /\ Fault
  /\ elapsed' = 0 /\ snap' = "mkstemp"
  /\ UNCHANGED <<temp, final, left, life>>

\* The paths are allocated and the file is made; if not, the write is over.
MakeTemp ==
  /\ snap = "mkstemp"
  /\ \/ /\ temp' = [count |-> metrics.count, life |-> life, whole |-> FALSE, synced |-> FALSE]
        /\ snap' = "fdopen" /\ UNCHANGED faults
     \/ Fault /\ snap' = "done" /\ UNCHANGED temp
  /\ UNCHANGED <<metrics, elapsed, final, left, life>>

\* fchmod and fdopen
OpenTemp ==
  /\ snap = "fdopen"
  /\ \/ snap' = "print" /\ UNCHANGED faults
     \/ Fault /\ snap' = "unlink"
  /\ UNCHANGED <<metrics, elapsed, temp, final, left, life>>

\* Mutant: the result of the printing is not looked at.
PrintLines_Unchecked ==
  /\ snap = "print"
  /\ \/ temp' = [temp EXCEPT !.whole = TRUE] /\ UNCHANGED faults
     \/ Fault /\ UNCHANGED temp
  /\ snap' = "fsync"
  /\ UNCHANGED <<metrics, elapsed, final, left, life>>

\* The lines and fflush: a failure is remembered, the calls that follow are
\* made all the same.  It leaves part of the lines in the file.
PrintLines ==
  /\ snap = "print"
  /\ \/ temp' = [temp EXCEPT !.whole = TRUE] /\ snap' = "fsync" /\ UNCHANGED faults
     \/ Fault /\ snap' = "fclose_failed" /\ UNCHANGED temp
  /\ UNCHANGED <<metrics, elapsed, final, left, life>>

SyncTemp ==
  /\ snap = "fsync"
  /\ \/ temp' = [temp EXCEPT !.synced = TRUE] /\ snap' = "fclose" /\ UNCHANGED faults
     \/ Fault /\ snap' = "fclose_failed" /\ UNCHANGED temp
  /\ UNCHANGED <<metrics, elapsed, final, left, life>>

CloseTemp ==
  /\ \/ snap = "fclose" /\ snap' = "rename" /\ UNCHANGED faults
     \/ snap = "fclose" /\ Fault /\ snap' = "unlink"
     \/ snap = "fclose_failed" /\ snap' = "unlink" /\ UNCHANGED faults
  /\ UNCHANGED <<metrics, elapsed, temp, final, left, life>>

RenameTemp ==
  /\ snap = "rename"
  /\ \/ final' = temp /\ temp' = None /\ snap' = "done" /\ UNCHANGED faults
     \/ Fault /\ snap' = "unlink" /\ UNCHANGED <<final, temp>>
  /\ UNCHANGED <<metrics, elapsed, left, life>>

UnlinkTemp ==
  /\ snap = "unlink"
  /\ temp' = None /\ snap' = "done"
  /\ UNCHANGED <<metrics, elapsed, final, left, faults, life>>

write_snapshot ==
  \/ StartWrite \/ MakeTemp \/ OpenTemp \/ PrintLines \/ SyncTemp
  \/ CloseTemp \/ RenameTemp \/ UnlinkTemp

\* Back from zedis_metrics_maybe_write after a write.
WriteDone ==
  /\ snap = "done" /\ snap' = "none"
  /\ UNCHANGED <<metrics, elapsed, temp, final, left, faults, life>>

zedis_metrics_destroy ==
  /\ metrics' = None
  /\ UNCHANGED <<elapsed, snap, temp, final, left, faults, life>>

Tick ==
  /\ metrics # None /\ metrics.written /\ elapsed < Interval
  /\ elapsed' = elapsed + 1
  /\ UNCHANGED <<metrics, snap, temp, final, left, faults, life>>

\* The memory of the process is gone, its files stay.  When the machine goes
\* down with it, a file that was not synced keeps any part of its lines.
LoseProcess(machine) ==
  /\ metrics' = None /\ elapsed' = 0 /\ snap' = "none" /\ temp' = None
  /\ left' = IF temp = None THEN left ELSE left + 1
  /\ \/ UNCHANGED final
     \/ /\ machine /\ final # None /\ ~final.synced
        /\ final' = [final EXCEPT !.whole = FALSE]
  /\ UNCHANGED <<faults, life>>
=============================================================================
