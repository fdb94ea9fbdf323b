-------------------------- MODULE LifecycleProofs --------------------------
(***************************************************************************)
(* For every number of lives, signals, failing calls and commands: the     *)
(* collector's file is whole, what the process acquired is released on     *)
(* every way out and never used after that, and a signal is obeyed.        *)
(***************************************************************************)
EXTENDS Lifecycle, TLAPS

\* The temporary file and the collector's; the counters.
File == [count : Nat, life : Nat, whole : BOOLEAN, synced : BOOLEAN]
Counters == [written : BOOLEAN, count : Nat]

\* Where a temporary file exists.
Writing == {"fdopen", "print", "fsync", "fclose", "fclose_failed", "rename", "unlink"}

Starting == {"sigterm", "sigint", "reset", "args"}
Running == {"run", "loop", "test", "wait", "blocked", "dispatch"}
Leaving == {"restore_term", "restore_int", "return"}

\* What write_snapshot has done to the temporary file by each step.  A file
\* is whole and synced before it gets the final name.
Files ==
  /\ metrics \in {None} \cup Counters /\ (snap # "none" => metrics \in Counters)
  /\ elapsed \in 0..Interval /\ faults \in 0..MaxFaults /\ life \in 1..MaxLives
  /\ snap \in {"none", "mkstemp", "done"} \cup Writing
  /\ snap \in Writing => temp \in File
  /\ snap \notin Writing => temp = None
  /\ snap \in {"fsync", "fclose", "rename"} => temp.whole
  /\ snap \in {"fclose", "rename"} => temp.synced
  /\ final # None => final \in File /\ final.whole /\ final.synced
  /\ left \in Nat /\ left <= life - 1 + (IF pc = "killed" THEN 1 ELSE 0)

\* What is held by each stage of zedis_create and of zedis_destroy.
Holding ==
  /\ held \subseteq Owned \cup {"conns"}
  /\ pc \in Starting => held = {}
  /\ pc = "create" =>
       /\ "server" \in held <=> stage > 1
       /\ "arena" \in held <=> stage > 2
       /\ "aol" \in held <=> stage > 7
       /\ "loop" \in held <=> stage > 10
       /\ "listen" \in held <=> stage > 11
       /\ "conns" \notin held
  /\ pc \in Running => Owned \subseteq held
  /\ pc = "destroy" =>
       /\ "conns" \in held => stage <= 2
       /\ "listen" \in held <=> stage <= 3
       /\ "loop" \in held <=> stage <= 4
       /\ "aol" \in held <=> stage <= 5
       /\ "arena" \in held <=> stage <= 6
       /\ "server" \in held <=> stage <= 7
  /\ pc \in Leaving \cup {"exited"} => held \subseteq (IF ran THEN {} ELSE {"aol"})

\* Where the process is, and what it has seen of signals.
Control ==
  /\ pc \in Starting \cup {"create", "destroy", "exited", "killed"} \cup Running \cup Leaving
  /\ stage \in 1..13 /\ (pc \in Starting => stage = 1) /\ (pc = "destroy" => stage <= 8)
  /\ snap # "none" => pc \in {"run", "loop"}
  /\ ran \in BOOLEAN /\ signal_received \in BOOLEAN
  /\ pc \in Starting \cup {"create"} => ~ran /\ status = None
  /\ pc \in Running \cup {"destroy"} => ran
  /\ ran /\ pc # "exited" => status = None
  /\ pc = "exited" /\ ran => (status = "success") = signal_received
  /\ batches \in {0, 1} /\ (~signal_received => batches = 0)
  /\ pc \in Starting \cup {"create", "run", "wait", "blocked", "dispatch"} => batches = 0

Types ==
  /\ busy_poll \in BOOLEAN /\ conns \in {0, 1} /\ signals \in 0..MaxSignals
  /\ disposition \in [Sigs -> {"default", "flag"}] /\ status \in {None, "success", "failure"}

LifeInv == Types /\ Control /\ Files /\ Holding
-----------------------------------------------------------------------------
(* The files *)

\* Nothing but a failing call, or nothing at all, happened to them.
LEMMA FilesKept ==
  ASSUME Files, UNCHANGED <<metrics, elapsed, snap, temp, final, left, life>>,
         faults' \in 0..MaxFaults, pc # "killed"
  PROVE  Files'
<1>1. left \in Nat /\ life \in Nat /\ left <= life - 1
  BY MetricsAssumption, LifecycleAssumption DEF Files
<1>2. left' \in Nat /\ left' <= life' - 1 + (IF pc' = "killed" THEN 1 ELSE 0)
  BY <1>1
<1> QED BY <1>2 DEF Files

\* Failing calls are counted within their bound.
LEMMA FaultCounted ==
  ASSUME Files, Fault \/ UNCHANGED faults
  PROVE  faults' \in 0..MaxFaults
BY MetricsAssumption DEF Files, Fault

\* A step that leaves the metrics and the files alone.
LEMMA SameFiles ==
  ASSUME Files, UNCHANGED mvars, pc # "killed"
  PROVE  Files'
<1>1. UNCHANGED <<metrics, elapsed, snap, temp, final, left, life, faults>>
  BY DEF mvars
<1>2. faults' \in 0..MaxFaults
  BY <1>1 DEF Files
<1> QED BY <1>1, <1>2, FilesKept

\* The process dies: its temporary file stays behind.  The collector's file
\* was synced before it was renamed, so nothing happens to it.
LEMMA LostFiles ==
  ASSUME Files, NEW machine \in BOOLEAN, LoseProcess(machine), pc # "killed", pc' = "killed"
  PROVE  Files'
<1>1. /\ metrics' = None /\ elapsed' = 0 /\ snap' = "none" /\ temp' = None /\ faults' = faults /\ life' = life
      /\ final' = final
  BY DEF LoseProcess, Files
<1>2. left \in Nat /\ life \in Nat /\ left <= life - 1 /\ left' \in {left, left + 1}
  BY LifecycleAssumption DEF Files, LoseProcess
<1>3. left' \in Nat /\ left' <= life' - 1 + 1 /\ 0 \in 0..Interval
  BY <1>1, <1>2, MetricsAssumption
<1> QED BY <1>1, <1>3 DEF Files, Writing

\* write_snapshot, call by call.
LEMMA WriteKeepsFiles ==
  ASSUME Files, write_snapshot, pc # "killed", pc' = pc
  PROVE  Files'
<1>0. /\ left \in Nat /\ left <= life - 1 + (IF pc' = "killed" THEN 1 ELSE 0)
      /\ life \in 1..MaxLives /\ life \in Nat /\ 0 \in 0..Interval
  BY MetricsAssumption, LifecycleAssumption DEF Files
<1>1. CASE StartWrite
  <2>1. metrics' \in Counters
    <3>1. metrics \in Counters
      BY <1>1 DEF Files, StartWrite, Due
    <3> QED BY <1>1, <3>1 DEF StartWrite, Counters
  <2>2. faults' \in 0..MaxFaults
    BY <1>1, FaultCounted DEF StartWrite
  <2> QED BY <1>0, <1>1, <2>1, <2>2 DEF StartWrite, Files, Writing
<1>2. CASE MakeTemp
  <2>1. faults' \in 0..MaxFaults
    BY <1>2, FaultCounted DEF MakeTemp
  <2>2. CASE snap' = "fdopen" /\ temp' = [count |-> metrics.count, life |-> life,
                                          whole |-> FALSE, synced |-> FALSE]
    <3>1. metrics \in Counters
      BY <1>2 DEF Files, MakeTemp
    <3>2. temp' \in File
      BY <1>0, <2>2, <3>1 DEF File, Counters
    <3> QED BY <1>0, <1>2, <2>1, <2>2, <3>1, <3>2 DEF MakeTemp, Files, Writing
  <2>3. CASE snap' = "done" /\ temp' = temp
    BY <1>0, <1>2, <2>1, <2>3 DEF MakeTemp, Files, Writing
  <2> QED BY <1>2, <2>2, <2>3 DEF MakeTemp
<1>3. CASE OpenTemp
  <2>1. faults' \in 0..MaxFaults
    BY <1>3, FaultCounted DEF OpenTemp
  <2> QED BY <1>0, <1>3, <2>1 DEF OpenTemp, Files, Writing
<1>4. CASE PrintLines
  <2>1. faults' \in 0..MaxFaults /\ temp \in File /\ snap # "none"
    BY <1>4, FaultCounted DEF PrintLines, Files, Writing
  <2>2. CASE snap' = "fsync" /\ temp' = [temp EXCEPT !.whole = TRUE]
    <3>1. temp' \in File /\ temp'.whole
      BY <2>1, <2>2 DEF File
    <3> QED BY <1>0, <1>4, <2>1, <2>2, <3>1 DEF PrintLines, Files, Writing
  <2>3. CASE snap' = "fclose_failed" /\ temp' = temp
    BY <1>0, <1>4, <2>1, <2>3 DEF PrintLines, Files, Writing
  <2> QED BY <1>4, <2>2, <2>3 DEF PrintLines
<1>5. CASE SyncTemp
  <2>1. faults' \in 0..MaxFaults /\ temp \in File /\ temp.whole /\ snap # "none"
    BY <1>5, FaultCounted DEF SyncTemp, Files, Writing
  <2>2. CASE snap' = "fclose" /\ temp' = [temp EXCEPT !.synced = TRUE]
    <3>1. temp' \in File /\ temp'.whole /\ temp'.synced
      BY <2>1, <2>2 DEF File
    <3> QED BY <1>0, <1>5, <2>1, <2>2, <3>1 DEF SyncTemp, Files, Writing
  <2>3. CASE snap' = "fclose_failed" /\ temp' = temp
    BY <1>0, <1>5, <2>1, <2>3 DEF SyncTemp, Files, Writing
  <2> QED BY <1>5, <2>2, <2>3 DEF SyncTemp
<1>6. CASE CloseTemp
  <2>1. faults' \in 0..MaxFaults
    BY <1>6, FaultCounted DEF CloseTemp
  <2> QED BY <1>0, <1>6, <2>1 DEF CloseTemp, Files, Writing
<1>7. CASE RenameTemp
  <2>1. faults' \in 0..MaxFaults
    BY <1>7, FaultCounted DEF RenameTemp
  <2> QED BY <1>0, <1>7, <2>1 DEF RenameTemp, Files, Writing
<1>8. CASE UnlinkTemp
  BY <1>0, <1>8 DEF UnlinkTemp, Files, Writing
<1> QED BY <1>1, <1>2, <1>3, <1>4, <1>5, <1>6, <1>7, <1>8 DEF write_snapshot
-----------------------------------------------------------------------------
(* What is acquired and released *)

\* The stages of zedis_create, in order.
LEMMA StagesAre ==
  /\ Len(Stages) = 12
  /\ Stages[1] = "server" /\ Stages[2] = "arena" /\ Stages[3] = "slab" /\ Stages[4] = "kv"
  /\ Stages[5] = "book" /\ Stages[6] = "ring" /\ Stages[7] = "aol" /\ Stages[8] = "zsets"
  /\ Stages[9] = "lists" /\ Stages[10] = "loop" /\ Stages[11] = "listen" /\ Stages[12] = "add"
BY DEF Stages

\* The stages of zedis_destroy, in order.
LEMMA DestroyOrderIs ==
  /\ Len(DestroyOrder) = 7
  /\ DestroyOrder[1] = "metrics" /\ DestroyOrder[2] = "conns" /\ DestroyOrder[3] = "listen"
  /\ DestroyOrder[4] = "loop" /\ DestroyOrder[5] = "aol" /\ DestroyOrder[6] = "arena"
  /\ DestroyOrder[7] = "server"
BY DEF DestroyOrder

\* What each error path of zedis_create releases, in order.
LEMMA CleanupIs ==
  /\ Cleanup(1) = <<>> /\ Cleanup(2) = <<"server">>
  /\ \A k \in {3, 4, 5, 6, 7, 10} : Cleanup(k) = <<"arena", "server">>
  /\ \A k \in {8, 9} : Cleanup(k) = <<"aol", "arena", "server">>
  /\ Cleanup(11) = <<"loop", "arena", "server">>
  /\ Cleanup(12) = <<"listen", "loop", "arena", "server">>
<1>1. Cleanup(1) = <<>> /\ Cleanup(2) = <<"server">>
  BY StagesAre DEF Cleanup
<1>2. \A k \in {3, 4, 5, 6, 7, 10} : Cleanup(k) = <<"arena", "server">>
  BY StagesAre DEF Cleanup
<1>3. \A k \in {8, 9} : Cleanup(k) = <<"aol", "arena", "server">>
  BY StagesAre DEF Cleanup
<1>4. Cleanup(11) = <<"loop", "arena", "server">> /\ Cleanup(12) = <<"listen", "loop", "arena", "server">>
  BY StagesAre DEF Cleanup
<1> QED BY <1>1, <1>2, <1>3, <1>4

\* The set a failing stage releases.
LEMMA CleanupReleases ==
  LET R(k) == {Cleanup(k)[i] : i \in 1..Len(Cleanup(k))}
  IN  /\ R(1) = {} /\ R(2) = {"server"}
      /\ \A k \in {3, 4, 5, 6, 7, 10} : R(k) = {"arena", "server"}
      /\ \A k \in {8, 9} : R(k) = {"aol", "arena", "server"}
      /\ R(11) = {"loop", "arena", "server"} /\ R(12) = {"listen", "loop", "arena", "server"}
<1> DEFINE R(k) == {Cleanup(k)[i] : i \in 1..Len(Cleanup(k))}
<1>1. 1..0 = {} /\ 1..1 = {1} /\ 1..2 = {1, 2} /\ 1..3 = {1, 2, 3} /\ 1..4 = {1, 2, 3, 4}
  OBVIOUS
<1>2. R(1) = {} /\ R(2) = {"server"}
  BY <1>1, CleanupIs
<1>3. ASSUME NEW k, Cleanup(k) = <<"arena", "server">> PROVE R(k) = {"arena", "server"}
  BY <1>1, <1>3
<1>4. ASSUME NEW k, NEW a, Cleanup(k) = <<a, "arena", "server">> PROVE R(k) = {a, "arena", "server"}
  BY <1>1, <1>4
<1>5. ASSUME NEW k, Cleanup(k) = <<"listen", "loop", "arena", "server">>
      PROVE  R(k) = {"listen", "loop", "arena", "server"}
  BY <1>1, <1>5
<1> HIDE DEF R
<1>6. R(11) = {"loop", "arena", "server"} /\ R(12) = {"listen", "loop", "arena", "server"}
  BY <1>4, <1>5, CleanupIs
<1>7. /\ \A k \in {3, 4, 5, 6, 7, 10} : R(k) = {"arena", "server"}
      /\ \A k \in {8, 9} : R(k) = {"aol", "arena", "server"}
  BY <1>3, <1>4, CleanupIs
<1> QED BY <1>2, <1>6, <1>7 DEF R
-----------------------------------------------------------------------------
(* The steps of the process *)

\* The first life starts with nothing acquired.
LEMMA LifeInit == Init => LifeInv
<1> SUFFICES ASSUME Init PROVE LifeInv
  OBVIOUS
<1>1. Types
  <2>1. busy_poll \in BOOLEAN
    BY LifecycleAssumption, Zenon DEF Init
  <2> QED BY <2>1, LifecycleAssumption DEF Init, Types
<1>2. Control
  <2>1. /\ pc = "sigterm" /\ stage = 1 /\ snap = "none" /\ batches = 0 /\ ~ran /\ ran \in BOOLEAN
        /\ signal_received \in BOOLEAN /\ status = None
    BY DEF Init, MetricsInit
  <2> QED BY <2>1 DEF Control, Starting, Running, Leaving
<1>3. Files
  BY MetricsAssumption, LifecycleAssumption DEF Init, MetricsInit, Files, Writing
<1>4. Holding
  BY DEF Init, Holding, Starting, Running, Leaving
<1> QED BY <1>1, <1>2, <1>3, <1>4 DEF LifeInv

\* event_loop_install_signal_handlers sets the one of SIGTERM.
LEMMA InstallTermKeeps == LifeInv /\ InstallTerm => LifeInv'
<1> SUFFICES ASSUME LifeInv, InstallTerm PROVE LifeInv'
  OBVIOUS
<1>1. Types'
  BY DEF InstallTerm, pvars, LifeInv, Types, Sigs
<1>2. Control'
  BY DEF InstallTerm, pvars, mvars, LifeInv, Control, Starting, Running, Leaving
<1>3. Files'
  BY FilesKept, FaultCounted DEF InstallTerm, mvars, LifeInv
<1>4. Holding'
  BY DEF InstallTerm, pvars, LifeInv, Holding, Control, Starting, Running, Leaving
<1> QED BY <1>1, <1>2, <1>3, <1>4 DEF LifeInv

\* event_loop_install_signal_handlers sets the one of SIGINT.
LEMMA InstallIntKeeps == LifeInv /\ InstallInt => LifeInv'
<1> SUFFICES ASSUME LifeInv, InstallInt PROVE LifeInv'
  OBVIOUS
<1>1. Types'
  BY DEF InstallInt, pvars, LifeInv, Types, Sigs
<1>2. Control'
  BY DEF InstallInt, pvars, mvars, LifeInv, Control, Starting, Running, Leaving
<1>3. Files'
  BY FilesKept, FaultCounted DEF InstallInt, mvars, LifeInv
<1>4. Holding'
  BY DEF InstallInt, pvars, LifeInv, Holding, Control, Starting, Running, Leaving
<1> QED BY <1>1, <1>2, <1>3, <1>4 DEF LifeInv

\* main clears the flag after the handlers are installed.
LEMMA ResetFlagKeeps == LifeInv /\ ResetFlag => LifeInv'
<1> SUFFICES ASSUME LifeInv, ResetFlag PROVE LifeInv'
  OBVIOUS
<1>1. Types'
  BY DEF ResetFlag, pvars, LifeInv, Types, Sigs
<1>2. Control'
  BY DEF ResetFlag, pvars, mvars, LifeInv, Control, Starting, Running, Leaving
<1>3. Files'
  BY SameFiles DEF ResetFlag, LifeInv
<1>4. Holding'
  BY DEF ResetFlag, pvars, LifeInv, Holding, Control, Starting, Running, Leaving
<1> QED BY <1>1, <1>2, <1>3, <1>4 DEF LifeInv

\* main parses its arguments, or leaves.
LEMMA ParseArgsKeeps == LifeInv /\ ParseArgs => LifeInv'
<1> SUFFICES ASSUME LifeInv, ParseArgs PROVE LifeInv'
  OBVIOUS
<1>1. Types'
  BY DEF ParseArgs, pvars, LifeInv, Types, Sigs
<1>2. Control'
  BY DEF ParseArgs, pvars, mvars, LifeInv, Control, Starting, Running, Leaving
<1>3. Files'
  BY SameFiles DEF ParseArgs, LifeInv
<1>4. Holding'
  BY DEF ParseArgs, pvars, LifeInv, Holding, Control, Starting, Running, Leaving
<1> QED BY <1>1, <1>2, <1>3, <1>4 DEF LifeInv

\* A stage of zedis_create acquires its resource.
LEMMA CreateStepKeeps == LifeInv /\ CreateStep => LifeInv'
<1> SUFFICES ASSUME LifeInv, CreateStep PROVE LifeInv'
  OBVIOUS
<1>1. Types'
  BY DEF CreateStep, pvars, LifeInv, Types, Sigs
<1>2. Control'
  BY StagesAre DEF CreateStep, mvars, LifeInv, Control, Starting, Running, Leaving
<1>3. Files'
  BY SameFiles DEF CreateStep, LifeInv
<1>4. Holding'
  <2>1. /\ pc = "create" /\ pc' = pc /\ stage \in 1..12 /\ stage' = stage + 1
        /\ held' = held \cup ({Stages[stage]} \cap Owned)
    BY StagesAre DEF CreateStep, LifeInv, Control
  <2>2. ASSUME NEW x \in Owned \cup {"conns"}
        PROVE  x \in held' <=> x \in held \/ (x = Stages[stage] /\ x # "conns")
    BY <2>1 DEF Owned
  <2>3. /\ "server" = Stages[stage] <=> stage = 1
        /\ "arena" = Stages[stage] <=> stage = 2
        /\ "aol" = Stages[stage] <=> stage = 7
        /\ "loop" = Stages[stage] <=> stage = 10
        /\ "listen" = Stages[stage] <=> stage = 11
    BY <2>1, StagesAre
  <2>4. held' \subseteq Owned \cup {"conns"}
    BY <2>1 DEF LifeInv, Holding
  <2>5. /\ "server" \in held' <=> stage' > 1
        /\ "arena" \in held' <=> stage' > 2
        /\ "aol" \in held' <=> stage' > 7
        /\ "loop" \in held' <=> stage' > 10
        /\ "listen" \in held' <=> stage' > 11
        /\ "conns" \notin held'
    BY <2>1, <2>2, <2>3 DEF LifeInv, Holding, Owned
  <2> QED BY <2>1, <2>4, <2>5 DEF Holding, Starting, Running, Leaving
<1> QED BY <1>1, <1>2, <1>3, <1>4 DEF LifeInv

\* A stage of zedis_create fails and releases what came before it.
LEMMA CreateFailsKeeps == LifeInv /\ CreateFails => LifeInv'
<1> SUFFICES ASSUME LifeInv, CreateFails PROVE LifeInv'
  OBVIOUS
<1>1. Types'
  BY DEF CreateFails, pvars, LifeInv, Types, Sigs
<1>2. Control'
  BY DEF CreateFails, pvars, mvars, LifeInv, Control, Starting, Running, Leaving
<1>3. Files'
  BY FilesKept, FaultCounted DEF CreateFails, mvars, LifeInv
<1>4. Holding'
  <2> DEFINE R(k) == {Cleanup(k)[i] : i \in 1..Len(Cleanup(k))}
  <2>1. /\ pc = "create" /\ pc' = "restore_term" /\ stage \in 1..12 /\ held' = held \ R(stage)
        /\ ran' = ran /\ ~ran
    BY StagesAre DEF CreateFails, LifeInv, Control, Starting
  <2>2. /\ R(1) = {} /\ R(2) = {"server"}
        /\ \A k \in {3, 4, 5, 6, 7, 10} : R(k) = {"arena", "server"}
        /\ \A k \in {8, 9} : R(k) = {"aol", "arena", "server"}
        /\ R(11) = {"loop", "arena", "server"} /\ R(12) = {"listen", "loop", "arena", "server"}
    BY CleanupReleases, Zenon
  <2> HIDE DEF R
  <2>3. /\ held \subseteq {"server", "arena", "aol", "loop", "listen"}
        /\ "server" \in held <=> stage > 1
        /\ "arena" \in held <=> stage > 2
        /\ "aol" \in held <=> stage > 7
        /\ "loop" \in held <=> stage > 10
        /\ "listen" \in held <=> stage > 11
    BY <2>1 DEF LifeInv, Holding, Owned
  <2>4. /\ R(stage) \subseteq {"listen", "loop", "aol", "arena", "server"}
        /\ "server" \in R(stage) <=> stage > 1
        /\ "arena" \in R(stage) <=> stage > 2
        /\ "loop" \in R(stage) <=> stage > 10
        /\ "listen" \in R(stage) <=> stage > 11
    <3>1. CASE stage \in {1, 2}
      BY <2>2, <3>1
    <3>2. CASE stage \in {3, 4, 5, 6, 7, 10}
      <4>1. R(stage) = {"arena", "server"}
        BY <2>2, <3>2, Zenon
      <4> QED BY <3>2, <4>1
    <3>3. CASE stage \in {8, 9}
      <4>1. R(stage) = {"aol", "arena", "server"}
        BY <2>2, <3>3, Zenon
      <4> QED BY <3>3, <4>1
    <3>4. CASE stage \in {11, 12}
      BY <2>2, <3>4
    <3> QED BY <2>1, <3>1, <3>2, <3>3, <3>4
  <2>5. held' \subseteq {"aol"}
    BY <2>1, <2>3, <2>4
  <2> QED BY <2>1, <2>5 DEF Holding, Owned, Starting, Running, Leaving
<1> QED BY <1>1, <1>2, <1>3, <1>4 DEF LifeInv

\* zedis_create returns.
LEMMA CreateDoneKeeps == LifeInv /\ CreateDone => LifeInv'
<1> SUFFICES ASSUME LifeInv, CreateDone PROVE LifeInv'
  OBVIOUS
<1>1. Types'
  BY DEF CreateDone, pvars, LifeInv, Types, Sigs
<1>2. Control'
  <2>1. /\ pc = "create" /\ pc' = "run" /\ UNCHANGED <<stage, signal_received, batches, status>> /\ ran' = TRUE
    BY DEF CreateDone
  <2>2. snap' = snap
    BY DEF CreateDone, zedis_metrics_init
  <2> QED BY <2>1, <2>2 DEF LifeInv, Control, Starting, Running, Leaving
<1>3. Files'
  <2>1. pc = "create" /\ pc' = "run"
    BY DEF CreateDone
  <2>2. snap = "none"
    BY <2>1 DEF LifeInv, Control
  <2>3. UNCHANGED <<elapsed, snap, temp, final, left, life>>
    BY DEF CreateDone, zedis_metrics_init
  <2>4. metrics' \in {None} \cup Counters
    <3>1. [written |-> FALSE, count |-> 0] \in Counters
      BY DEF Counters
    <3> QED BY <3>1, Zenon DEF CreateDone, zedis_metrics_init
  <2>5. faults' \in 0..MaxFaults
    BY FaultCounted DEF CreateDone, zedis_metrics_init, LifeInv
  <2> QED BY <2>1, <2>2, <2>3, <2>4, <2>5 DEF LifeInv, Files
<1>4. Holding'
  <2>1. stage = 13 /\ pc = "create" /\ pc' = "run" /\ held' = held
    BY StagesAre DEF CreateDone, LifeInv, Control
  <2> QED BY <2>1 DEF LifeInv, Holding, Owned, Starting, Running, Leaving
<1> QED BY <1>1, <1>2, <1>3, <1>4 DEF LifeInv

\* One call of write_snapshot.
LEMMA MetricsStepKeeps == LifeInv /\ MetricsStep => LifeInv'
<1> SUFFICES ASSUME LifeInv, MetricsStep PROVE LifeInv'
  OBVIOUS
<1>1. Types'
  BY DEF MetricsStep, pvars, LifeInv, Types, Sigs
<1>2. Control'
  BY DEF MetricsStep, InWrite, pvars, LifeInv, Control, Starting, Running, Leaving
<1>3. Files'
  BY WriteKeepsFiles DEF MetricsStep, InWrite, LifeInv
<1>4. Holding'
  BY DEF MetricsStep, pvars, LifeInv, Holding, Control, Starting, Running, Leaving
<1> QED BY <1>1, <1>2, <1>3, <1>4 DEF LifeInv

\* write_snapshot returns to the loop.
LEMMA MetricsReturnKeeps == LifeInv /\ MetricsReturn => LifeInv'
<1> SUFFICES ASSUME LifeInv, MetricsReturn PROVE LifeInv'
  OBVIOUS
<1>1. Types'
  BY DEF MetricsReturn, pvars, LifeInv, Types, Sigs
<1>2. Control'
  <2>1. snap' = "none"
    BY DEF MetricsReturn, NotDue, WriteDone, mvars
  <2> QED BY <2>1 DEF MetricsReturn, InWrite, pvars, LifeInv, Control, Starting, Running, Leaving
<1>3. Files'
  <2>1. pc # "killed" /\ pc' # "killed"
    BY DEF MetricsReturn, InWrite
  <2>2. CASE NotDue
    BY <2>1, <2>2, SameFiles DEF NotDue, LifeInv
  <2>3. CASE WriteDone
    BY <2>1, <2>3 DEF WriteDone, LifeInv, Files, Writing
  <2> QED BY <2>2, <2>3 DEF MetricsReturn
<1>4. Holding'
  BY DEF MetricsReturn, InWrite, pvars, LifeInv, Holding, Starting, Running, Leaving
<1> QED BY <1>1, <1>2, <1>3, <1>4 DEF LifeInv

\* The loop tests the flag.
LEMMA TestSignalKeeps == LifeInv /\ TestSignal => LifeInv'
<1> SUFFICES ASSUME LifeInv, TestSignal PROVE LifeInv'
  OBVIOUS
<1>1. Types'
  BY DEF TestSignal, pvars, LifeInv, Types, Sigs
<1>2. Control'
  BY DEF TestSignal, pvars, mvars, LifeInv, Control, Starting, Running, Leaving
<1>3. Files'
  BY SameFiles DEF TestSignal, LifeInv
<1>4. Holding'
  BY DEF TestSignal, LifeInv, Holding, Owned, Starting, Running, Leaving
<1> QED BY <1>1, <1>2, <1>3, <1>4 DEF LifeInv

\* epoll_wait returns at once or blocks.
LEMMA EpollWaitKeeps == LifeInv /\ EpollWait => LifeInv'
<1> SUFFICES ASSUME LifeInv, EpollWait PROVE LifeInv'
  OBVIOUS
<1>1. Types'
  BY DEF EpollWait, pvars, LifeInv, Types, Sigs
<1>2. Control'
  BY DEF EpollWait, pvars, mvars, LifeInv, Control, Starting, Running, Leaving
<1>3. Files'
  BY SameFiles DEF EpollWait, LifeInv
<1>4. Holding'
  BY DEF EpollWait, pvars, LifeInv, Holding, Control, Starting, Running, Leaving
<1> QED BY <1>1, <1>2, <1>3, <1>4 DEF LifeInv

\* An event ends a blocking epoll_wait.
LEMMA WakeKeeps == LifeInv /\ Wake => LifeInv'
<1> SUFFICES ASSUME LifeInv, Wake PROVE LifeInv'
  OBVIOUS
<1>1. Types'
  BY DEF Wake, pvars, LifeInv, Types, Sigs
<1>2. Control'
  BY DEF Wake, pvars, mvars, LifeInv, Control, Starting, Running, Leaving
<1>3. Files'
  BY SameFiles DEF Wake, LifeInv
<1>4. Holding'
  BY DEF Wake, pvars, LifeInv, Holding, Control, Starting, Running, Leaving
<1> QED BY <1>1, <1>2, <1>3, <1>4 DEF LifeInv

\* A stop and a continue interrupt epoll_wait.
LEMMA InterruptedKeeps == LifeInv /\ Interrupted => LifeInv'
<1> SUFFICES ASSUME LifeInv, Interrupted PROVE LifeInv'
  OBVIOUS
<1>1. Types'
  BY DEF Interrupted, pvars, LifeInv, Types, Sigs
<1>2. Control'
  BY DEF Interrupted, pvars, mvars, LifeInv, Control, Starting, Running, Leaving
<1>3. Files'
  BY SameFiles DEF Interrupted, LifeInv
<1>4. Holding'
  BY DEF Interrupted, pvars, LifeInv, Holding, Control, Starting, Running, Leaving
<1> QED BY <1>1, <1>2, <1>3, <1>4 DEF LifeInv

\* epoll_wait fails and the loop ends.
LEMMA WaitFailsKeeps == LifeInv /\ WaitFails => LifeInv'
<1> SUFFICES ASSUME LifeInv, WaitFails PROVE LifeInv'
  OBVIOUS
<1>1. Types'
  BY DEF WaitFails, pvars, LifeInv, Types, Sigs
<1>2. Control'
  BY DEF WaitFails, pvars, mvars, LifeInv, Control, Starting, Running, Leaving
<1>3. Files'
  BY FilesKept, FaultCounted DEF WaitFails, mvars, LifeInv
<1>4. Holding'
  BY DEF WaitFails, LifeInv, Holding, Owned, Starting, Running, Leaving
<1> QED BY <1>1, <1>2, <1>3, <1>4 DEF LifeInv

\* A batch of events is handled.
LEMMA DispatchBatchKeeps == LifeInv /\ DispatchBatch => LifeInv'
<1> SUFFICES ASSUME LifeInv, DispatchBatch PROVE LifeInv'
  OBVIOUS
<1>1. Types'
  BY DEF DispatchBatch, pvars, LifeInv, Types, Sigs
<1>2. Control'
  <2>1. snap' = snap
    BY DEF DispatchBatch, mvars, zedis_metrics_record_command
  <2> QED BY <2>1 DEF DispatchBatch, LifeInv, Control, Starting, Running, Leaving
<1>3. Files'
  <2>1. pc # "killed" /\ pc' # "killed" /\ snap = "none"
    BY DEF DispatchBatch, LifeInv, Control
  <2>2. CASE UNCHANGED mvars
    BY <2>1, <2>2, SameFiles DEF LifeInv
  <2>3. CASE zedis_metrics_record_command
    <3>1. metrics' \in {None} \cup Counters
      BY <2>3 DEF zedis_metrics_record_command, LifeInv, Files, Counters
    <3> QED BY <2>1, <2>3, <3>1 DEF zedis_metrics_record_command, LifeInv, Files
  <2> QED BY <2>2, <2>3 DEF DispatchBatch
<1>4. Holding'
  <2>1. pc = "dispatch" /\ pc' = "loop" /\ held' \in {held \ {"conns"}, held \cup {"conns"}}
    BY DEF DispatchBatch
  <2> QED BY <2>1 DEF LifeInv, Holding, Owned, Starting, Running, Leaving
<1> QED BY <1>1, <1>2, <1>3, <1>4 DEF LifeInv

\* A write to a closed socket kills the process.
LEMMA DispatchSigpipeKeeps == LifeInv /\ DispatchSigpipe => LifeInv'
<1> SUFFICES ASSUME LifeInv, DispatchSigpipe PROVE LifeInv'
  OBVIOUS
<1>1. Types'
  BY DEF DispatchSigpipe, pvars, LifeInv, Types, Sigs
<1>2. Control'
  BY DEF DispatchSigpipe, LoseProcess, pvars, LifeInv, Control, Starting, Running, Leaving
<1>3. Files'
  BY LostFiles DEF DispatchSigpipe, LifeInv
<1>4. Holding'
  BY DEF DispatchSigpipe, pvars, LifeInv, Holding, Control, Starting, Running, Leaving
<1> QED BY <1>1, <1>2, <1>3, <1>4 DEF LifeInv

\* A stage of zedis_destroy releases its resource.
LEMMA DestroyStepKeeps == LifeInv /\ DestroyStep => LifeInv'
<1> SUFFICES ASSUME LifeInv, DestroyStep PROVE LifeInv'
  OBVIOUS
<1>1. Types'
  BY DEF DestroyStep, pvars, LifeInv, Types, Sigs
<1>2. Control'
  <2>1. snap' = snap
    BY DEF DestroyStep, mvars, zedis_metrics_destroy
  <2> QED BY <2>1, DestroyOrderIs DEF DestroyStep, LifeInv, Control, Starting, Running, Leaving
<1>3. Files'
  <2>1. pc # "killed" /\ pc' # "killed" /\ snap = "none"
    BY DEF DestroyStep, LifeInv, Control
  <2>2. CASE UNCHANGED mvars
    BY <2>1, <2>2, SameFiles DEF LifeInv
  <2>3. CASE zedis_metrics_destroy
    BY <2>1, <2>3 DEF zedis_metrics_destroy, LifeInv, Files
  <2> QED BY <2>2, <2>3 DEF DestroyStep
<1>4. Holding'
  <2>1. /\ pc = "destroy" /\ pc' = pc /\ stage \in 1..7 /\ stage' = stage + 1
        /\ held' = held \ {DestroyOrder[stage]}
    BY DestroyOrderIs DEF DestroyStep, LifeInv, Control
  <2>2. /\ "conns" = DestroyOrder[stage] <=> stage = 2
        /\ "listen" = DestroyOrder[stage] <=> stage = 3
        /\ "loop" = DestroyOrder[stage] <=> stage = 4
        /\ "aol" = DestroyOrder[stage] <=> stage = 5
        /\ "arena" = DestroyOrder[stage] <=> stage = 6
        /\ "server" = DestroyOrder[stage] <=> stage = 7
    BY <2>1, DestroyOrderIs
  <2>3. /\ "conns" \in held' => stage' <= 2
        /\ "listen" \in held' <=> stage' <= 3
        /\ "loop" \in held' <=> stage' <= 4
        /\ "aol" \in held' <=> stage' <= 5
        /\ "arena" \in held' <=> stage' <= 6
        /\ "server" \in held' <=> stage' <= 7
    BY <2>1, <2>2 DEF LifeInv, Holding
  <2> QED BY <2>1, <2>3 DEF LifeInv, Holding, Starting, Running, Leaving
<1> QED BY <1>1, <1>2, <1>3, <1>4 DEF LifeInv

\* zedis_destroy returns.
LEMMA DestroyDoneKeeps == LifeInv /\ DestroyDone => LifeInv'
<1> SUFFICES ASSUME LifeInv, DestroyDone PROVE LifeInv'
  OBVIOUS
<1>1. Types'
  BY DEF DestroyDone, pvars, LifeInv, Types, Sigs
<1>2. Control'
  BY DEF DestroyDone, pvars, mvars, LifeInv, Control, Starting, Running, Leaving
<1>3. Files'
  BY SameFiles DEF DestroyDone, LifeInv
<1>4. Holding'
  <2>1. stage = 8 /\ pc = "destroy" /\ pc' = "restore_term" /\ UNCHANGED <<held, ran>>
    BY DestroyOrderIs DEF DestroyDone, pvars, LifeInv, Control
  <2> QED BY <2>1 DEF LifeInv, Holding, Owned, Starting, Running, Leaving
<1> QED BY <1>1, <1>2, <1>3, <1>4 DEF LifeInv

\* event_loop_restore_signal_handlers restores that of SIGTERM.
LEMMA RestoreTermKeeps == LifeInv /\ RestoreTerm => LifeInv'
<1> SUFFICES ASSUME LifeInv, RestoreTerm PROVE LifeInv'
  OBVIOUS
<1>1. Types'
  BY DEF RestoreTerm, pvars, LifeInv, Types, Sigs
<1>2. Control'
  BY DEF RestoreTerm, pvars, mvars, LifeInv, Control, Starting, Running, Leaving
<1>3. Files'
  BY SameFiles DEF RestoreTerm, LifeInv
<1>4. Holding'
  BY DEF RestoreTerm, pvars, LifeInv, Holding, Control, Starting, Running, Leaving
<1> QED BY <1>1, <1>2, <1>3, <1>4 DEF LifeInv

\* event_loop_restore_signal_handlers restores that of SIGINT.
LEMMA RestoreIntKeeps == LifeInv /\ RestoreInt => LifeInv'
<1> SUFFICES ASSUME LifeInv, RestoreInt PROVE LifeInv'
  OBVIOUS
<1>1. Types'
  BY DEF RestoreInt, pvars, LifeInv, Types, Sigs
<1>2. Control'
  BY DEF RestoreInt, pvars, mvars, LifeInv, Control, Starting, Running, Leaving
<1>3. Files'
  BY SameFiles DEF RestoreInt, LifeInv
<1>4. Holding'
  BY DEF RestoreInt, pvars, LifeInv, Holding, Control, Starting, Running, Leaving
<1> QED BY <1>1, <1>2, <1>3, <1>4 DEF LifeInv

\* main returns its status.
LEMMA MainReturnKeeps == LifeInv /\ MainReturn => LifeInv'
<1> SUFFICES ASSUME LifeInv, MainReturn PROVE LifeInv'
  OBVIOUS
<1>1. Types'
  BY DEF MainReturn, pvars, LifeInv, Types, Sigs
<1>2. Control'
  BY DEF MainReturn, pvars, mvars, LifeInv, Control, Starting, Running, Leaving
<1>3. Files'
  BY SameFiles DEF MainReturn, LifeInv
<1>4. Holding'
  BY DEF MainReturn, pvars, LifeInv, Holding, Control, Starting, Running, Leaving
<1> QED BY <1>1, <1>2, <1>3, <1>4 DEF LifeInv
-----------------------------------------------------------------------------
(* Signals, clients, the machine *)

\* A signal sets the flag, or kills the process where its handler is not installed.
LEMMA SignalKeeps ==
  ASSUME LifeInv, NEW s \in Sigs, Signal(s)
  PROVE  LifeInv'
<1>1. /\ pc \notin {"exited", "killed"} /\ signals' = signals + 1 /\ signals < MaxSignals
      /\ UNCHANGED <<busy_poll, held, conns, ready, disposition, batches, ran, status>>
  BY DEF Signal, Over
<1>2. Types'
  BY <1>1, LifecycleAssumption DEF LifeInv, Types
<1>3. CASE /\ signal_received' = TRUE /\ UNCHANGED mvars
           /\ IF pc = "blocked" THEN pc' = "destroy" /\ stage' = 1 ELSE UNCHANGED <<pc, stage>>
  <2>1. Control'
    <3>1. snap' = snap
      BY <1>3 DEF mvars
    <3>2. CASE pc = "blocked"
      BY <1>1, <1>3, <3>1, <3>2 DEF LifeInv, Control, Starting, Running, Leaving
    <3>3. CASE pc # "blocked"
      BY <1>1, <1>3, <3>1, <3>3 DEF LifeInv, Control, Starting, Running, Leaving
    <3> QED BY <3>2, <3>3
  <2>2. Files'
    BY <1>1, <1>3, SameFiles DEF LifeInv
  <2>3. Holding'
    BY <1>1, <1>3 DEF LifeInv, Holding, Owned, Starting, Running, Leaving
  <2> QED BY <1>2, <2>1, <2>2, <2>3 DEF LifeInv
<1>4. CASE pc' = "killed" /\ LoseProcess(FALSE) /\ UNCHANGED <<signal_received, stage>>
  <2>1. snap' = "none"
    BY <1>4 DEF LoseProcess
  <2>2. Control'
    BY <1>1, <1>4, <2>1 DEF LifeInv, Control, Starting, Running, Leaving
  <2>3. Files'
    BY <1>1, <1>4, LostFiles DEF LifeInv
  <2>4. Holding'
    BY <1>1, <1>4 DEF LifeInv, Holding, Starting, Running, Leaving
  <2> QED BY <1>2, <2>2, <2>3, <2>4 DEF LifeInv
<1> QED BY <1>3, <1>4 DEF Signal

\* A client gives epoll_wait something to return.
LEMMA EventKeeps == LifeInv /\ Event => LifeInv'
<1> SUFFICES ASSUME LifeInv, Event PROVE LifeInv'
  OBVIOUS
<1>1. /\ UNCHANGED <<mvars, pc, busy_poll, stage, held, conns, disposition, signal_received, signals>>
      /\ UNCHANGED <<batches, ran, status>> /\ pc # "killed"
  BY DEF Event, Over
<1>2. Types'
  BY <1>1 DEF LifeInv, Types
<1>3. Control'
  BY <1>1 DEF mvars, LifeInv, Control
<1>4. Files'
  BY <1>1, SameFiles DEF LifeInv
<1>5. Holding'
  BY <1>1 DEF LifeInv, Holding
<1> QED BY <1>2, <1>3, <1>4, <1>5 DEF LifeInv

\* Time passes towards the next snapshot.
LEMMA ClockKeeps == LifeInv /\ Clock => LifeInv'
<1> SUFFICES ASSUME LifeInv, Clock PROVE LifeInv'
  OBVIOUS
<1>1. UNCHANGED <<pc, busy_poll, stage, held, conns, ready, disposition, signal_received, signals,
                  batches, ran, status>>
  BY DEF Clock, pvars
<1>2. /\ elapsed < Interval /\ elapsed' = elapsed + 1
      /\ UNCHANGED <<metrics, snap, temp, final, left, faults, life>>
  BY DEF Clock, Tick
<1>3. Types'
  BY <1>1 DEF LifeInv, Types
<1>4. Control'
  BY <1>1, <1>2 DEF LifeInv, Control
<1>5. Files'
  BY <1>1, <1>2, MetricsAssumption DEF LifeInv, Files
<1>6. Holding'
  BY <1>1 DEF LifeInv, Holding
<1> QED BY <1>3, <1>4, <1>5, <1>6 DEF LifeInv

\* The process or the machine dies.
LEMMA CrashKeeps == LifeInv /\ Crash => LifeInv'
<1> SUFFICES ASSUME LifeInv, Crash PROVE LifeInv'
  OBVIOUS
<1>1. /\ pc \notin {"exited", "killed"} /\ pc' = "killed"
      /\ UNCHANGED <<busy_poll, stage, held, conns, disposition, signal_received, signals, batches, ran, status>>
  BY DEF Crash, Over, pvars
<1>2. PICK machine \in BOOLEAN : LoseProcess(machine)
  BY DEF Crash
<1>3. Types'
  BY <1>1 DEF LifeInv, Types
<1>4. Control'
  <2>1. snap' = "none"
    BY <1>2 DEF LoseProcess
  <2> QED BY <1>1, <2>1 DEF LifeInv, Control, Starting, Running, Leaving
<1>5. Files'
  BY <1>1, <1>2, LostFiles DEF LifeInv
<1>6. Holding'
  BY <1>1 DEF LifeInv, Holding, Starting, Running, Leaving
<1> QED BY <1>3, <1>4, <1>5, <1>6 DEF LifeInv

\* The next life begins over the files of the last.
LEMMA RestartKeeps == LifeInv /\ Restart => LifeInv'
<1> SUFFICES ASSUME LifeInv, Restart PROVE LifeInv'
  OBVIOUS
<1>1. Types'
  BY LifecycleAssumption DEF Restart, LifeInv, Types
<1>2. Control'
  <2>1. /\ pc \in {"exited", "killed"} /\ pc' = "sigterm" /\ stage' = 1 /\ ~ran' /\ ran' \in BOOLEAN
        /\ signal_received' \in BOOLEAN /\ batches' = 0 /\ status' = None /\ snap' = snap
    BY DEF Restart, Over
  <2>2. snap = "none"
    BY <2>1 DEF LifeInv, Control
  <2> QED BY <2>1, <2>2 DEF Control, Starting, Running, Leaving
<1>3. Files'
  <2>1. /\ life < MaxLives /\ life' = life + 1 /\ pc' = "sigterm"
        /\ UNCHANGED <<metrics, elapsed, snap, temp, final, left, faults>>
    BY DEF Restart
  <2>2. life' \in 1..MaxLives /\ left' \in Nat /\ left' <= life' - 1
    BY <2>1, LifecycleAssumption DEF LifeInv, Files
  <2> QED BY <2>1, <2>2 DEF LifeInv, Files
<1>4. Holding'
  BY DEF Restart, Holding, Starting, Running, Leaving
<1> QED BY <1>1, <1>2, <1>3, <1>4 DEF LifeInv

\* Every step of the process and of its surroundings preserves the invariant.
LEMMA LifeStep == LifeInv /\ [Next]_vars => LifeInv'
<1> SUFFICES ASSUME LifeInv, [Next]_vars PROVE LifeInv'
  OBVIOUS
<1>1. CASE Process
  BY <1>1, InstallTermKeeps, InstallIntKeeps, ResetFlagKeeps, ParseArgsKeeps, CreateStepKeeps, CreateFailsKeeps, CreateDoneKeeps, MetricsStepKeeps, MetricsReturnKeeps, TestSignalKeeps,
     EpollWaitKeeps, WakeKeeps, DispatchBatchKeeps, DispatchSigpipeKeeps, DestroyStepKeeps, DestroyDoneKeeps, RestoreTermKeeps, RestoreIntKeeps, MainReturnKeeps
  DEF Process
<1>2. CASE Interrupted \/ WaitFails
  BY <1>2, InterruptedKeeps, WaitFailsKeeps
<1>3. CASE \E s \in Sigs : Signal(s)
  BY <1>3, SignalKeeps
<1>4. CASE Event \/ Clock
  BY <1>4, EventKeeps, ClockKeeps
<1>5. CASE Crash \/ Restart
  BY <1>5, CrashKeeps, RestartKeeps
<1>6. CASE UNCHANGED vars
  <2>1. /\ UNCHANGED <<metrics, elapsed, snap, temp, final, left, faults, life>>
        /\ UNCHANGED <<pc, busy_poll, stage, held, conns, disposition, signal_received, signals>>
        /\ UNCHANGED <<batches, ran, status>>
    BY <1>6 DEF vars, mvars
  <2>2. Types' /\ Control' /\ Holding'
    BY <2>1 DEF LifeInv, Types, Control, Holding
  <2>3. Files'
    BY <2>1 DEF LifeInv, Files
  <2> QED BY <2>2, <2>3 DEF LifeInv
<1> QED BY <1>1, <1>2, <1>3, <1>4, <1>5, <1>6 DEF Next

\* The invariant holds in every reachable state.
LEMMA LifeInvariant == Spec => []LifeInv
BY LifeInit, LifeStep, PTL DEF Spec
-----------------------------------------------------------------------------
(* What the run checks, for every instance *)

\* The collector never reads part of a snapshot, whatever call of
\* write_snapshot fails and wherever the process or the machine dies; and only
\* a killed process leaves a temporary file, one each.
THEOREM SnapshotsWhole == Spec => []SnapshotSafe
<1>1. LifeInv => SnapshotSafe
  BY DEF LifeInv, Files, SnapshotSafe, Writing
<1> QED BY <1>1, LifeInvariant, PTL

\* Everything main and zedis_create acquired is released on every way out of
\* main, but for the append log when creation fails from the event loop on.
THEOREM ExitReleases == Spec => []ReleasedAtExit
<1>1. LifeInv => ReleasedAtExit
  BY DEF LifeInv, Holding, ReleasedAtExit, Leaving
<1> QED BY <1>1, LifeInvariant, PTL

\* No step of zedis_destroy and no clean-up of zedis_create touches what was
\* released before it.
THEOREM NothingUsedAfterRelease == Spec => []UsesHeld
<1>1. ASSUME LifeInv PROVE UsesHeld
  <2>1. TypeOK
    BY <1>1, StagesAre DEF LifeInv, Types, Control, Files, Holding, TypeOK, InWrite, Writing,
       Starting, Running, Leaving
  <2>2. ASSUME pc = "destroy", stage <= Len(DestroyOrder)
        PROVE  Touches(DestroyOrder[stage]) \subseteq held
    <3>1. stage \in 1..7
      BY <1>1, <2>2, DestroyOrderIs DEF LifeInv, Control
    <3>2. /\ "listen" \in held <=> stage <= 3
          /\ "loop" \in held <=> stage <= 4
          /\ "aol" \in held <=> stage <= 5
          /\ "arena" \in held <=> stage <= 6
          /\ "server" \in held <=> stage <= 7
      BY <1>1, <2>2 DEF LifeInv, Holding
    <3> QED BY <3>1, <3>2, DestroyOrderIs DEF Touches
  <2>3. ASSUME pc = "create", stage <= Len(Stages), NEW i \in 1..Len(Cleanup(stage))
        PROVE  Touches(Cleanup(stage)[i]) \subseteq held \ {Cleanup(stage)[j] : j \in 1..(i - 1)}
    <3>1. stage \in 1..12
      BY <1>1, <2>3, StagesAre DEF LifeInv, Control
    <3>2. /\ "server" \in held <=> stage > 1
          /\ "arena" \in held <=> stage > 2
          /\ "aol" \in held <=> stage > 7
          /\ "loop" \in held <=> stage > 10
          /\ "listen" \in held <=> stage > 11
      BY <1>1, <2>3 DEF LifeInv, Holding
    <3> DEFINE c == Cleanup(stage)
               before == {c[j] : j \in 1..(i - 1)}
    <3>3. /\ i = 1 => before = {}
          /\ i = 2 => before = {c[1]}
          /\ i = 3 => before = {c[1], c[2]}
          /\ i = 4 => before = {c[1], c[2], c[3]}
      <4>1. 1..(1 - 1) = {} /\ 1..(2 - 1) = {1} /\ 1..(3 - 1) = {1, 2} /\ 1..(4 - 1) = {1, 2, 3}
        OBVIOUS
      <4> HIDE DEF c
      <4> QED BY <4>1
    <3>4. CASE stage \in {1, 2}
      <4>1. Cleanup(1) = <<>> /\ Cleanup(2) = <<"server">>
        BY CleanupIs, Zenon
      <4>2. stage = 2 /\ c = <<"server">>
        BY <2>3, <3>4, <4>1
      <4>3. i = 1
        <5>1. Len(c) = 1
          BY <4>2
        <5> HIDE DEF c
        <5>2. i \in 1..Len(c)
          BY <2>3 DEF c
        <5> QED BY <5>1, <5>2
      <4> HIDE DEF c, before
      <4>4. Touches(c[i]) \subseteq held \ before
        BY <3>2, <3>3, <4>2, <4>3 DEF Touches
      <4> QED BY <4>4 DEF c, before
    <3>5. CASE stage \in {3, 4, 5, 6, 7, 10}
      <4>1. c = <<"arena", "server">>
        BY <3>5, CleanupIs
      <4>2. i \in {1, 2}
        BY <2>3, <4>1
      <4> HIDE DEF c, before
      <4>3. Touches(c[i]) \subseteq held \ before
        BY <3>2, <3>3, <3>5, <4>1, <4>2 DEF Touches
      <4> QED BY <4>3 DEF c, before
    <3>6. CASE stage \in {8, 9}
      <4>1. c = <<"aol", "arena", "server">>
        BY <3>6, CleanupIs
      <4>2. i \in {1, 2, 3}
        BY <2>3, <4>1
      <4> HIDE DEF c, before
      <4>3. Touches(c[i]) \subseteq held \ before
        BY <3>2, <3>3, <3>6, <4>1, <4>2 DEF Touches
      <4> QED BY <4>3 DEF c, before
    <3>7. CASE stage = 11
      <4>1. c = <<"loop", "arena", "server">>
        BY <3>7, CleanupIs
      <4>2. i \in {1, 2, 3}
        BY <2>3, <4>1
      <4> HIDE DEF c, before
      <4>3. Touches(c[i]) \subseteq held \ before
        BY <3>2, <3>3, <3>7, <4>1, <4>2 DEF Touches
      <4> QED BY <4>3 DEF c, before
    <3>8. CASE stage = 12
      <4>1. c = <<"listen", "loop", "arena", "server">>
        BY <3>8, CleanupIs
      <4>2. i \in {1, 2, 3, 4}
        BY <2>3, <4>1
      <4> HIDE DEF c, before
      <4>3. Touches(c[i]) \subseteq held \ before
        BY <3>2, <3>3, <3>8, <4>1, <4>2 DEF Touches
      <4> QED BY <4>3 DEF c, before
    <3> QED BY <3>1, <3>4, <3>5, <3>6, <3>7, <3>8
  <2> QED BY <2>1, <2>2, <2>3 DEF UsesHeld
<1> QED BY <1>1, LifeInvariant, PTL

\* After a signal set the flag run_once handles at most one more batch, and
\* main's status after zedis_run is success exactly when a signal came.
THEOREM SignalsObeyed == Spec => []SignalObeyed
<1>1. LifeInv => SignalObeyed
  BY DEF LifeInv, Control, SignalObeyed
<1> QED BY <1>1, LifeInvariant, PTL
=============================================================================
