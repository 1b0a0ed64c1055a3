------------------------------ MODULE HermesLog ------------------------------
(***************************************************************************)
(* The log of common/hermes_log.c: every thread of the program writes      *)
(* entries into one bounded queue, one worker prints them.  All share one  *)
(* condition: the worker sleeps on it when there is nothing to print, who  *)
(* logs when there is no room.  The main program shuts the log down while  *)
(* other threads still run and log.                                        *)
(*                                                                         *)
(* A step is what a thread does under the lock, up to the unlock or the    *)
(* wait.  An entry is the file it goes to, or "none" when it is for stderr *)
(* only; calls below the level of stderr and of the file change nothing.   *)
(***************************************************************************)
EXTENDS Integers, Sequences, FiniteSets

CONSTANTS
    Loggers,      \* threads that call hermes_logf
    LogFiles,     \* the FILE pointers that fopen returns, one after the other
    LogCapacity

Worker == "worker"
LogThreads == Loggers \cup {Worker}

\* main.c gives the queue 1024 places; the program has some ten threads.
ASSUME LogAssumption ==
    /\ IsFiniteSet(Loggers) /\ Worker \notin Loggers
    /\ LogCapacity \in Nat \ {0} /\ Cardinality(Loggers) <= LogCapacity
    /\ "none" \notin LogFiles

VARIABLES
    entries,            \* the queue
    initialized, running,
    place,              \* where a thread is
    entry,              \* the entry a thread has in hand
    file,               \* file_fp, or "none"
    deferred,           \* file_fp_to_close, or "none"
    open                \* the files that fclose has not seen

logVars == <<entries, initialized, running, place, entry, file, deferred, open>>

\* locking: on the way to the lock; asleep: in pthread_cond_wait; woken: on the
\* way out of it; printing: behind the unlock; exited: not there (the worker).
LogPlaces == {"idle", "locking", "asleep", "woken", "printing", "exited"}

Sleepers(S) == {t \in S : place[t] = "asleep"}
AtLock(t) == place[t] \in {"locking", "woken"}

\* pthread_cond_signal, by a thread that goes on to p: anyone may be woken.
SignalAny(t, p) ==
    IF Sleepers(LogThreads) = {} THEN place' = [place EXCEPT ![t] = p]
    ELSE \E u \in Sleepers(LogThreads) : place' = [place EXCEPT ![t] = p, ![u] = "woken"]

\* Wrong: only a full queue can have somebody waiting for room.
WakeIfFull(t, p) ==
    IF Len(entries) < LogCapacity THEN place' = [place EXCEPT ![t] = p] ELSE SignalAny(t, p)

\* log_worker, at the end of taking an entry
WakeLogger(t, p) == SignalAny(t, p)

WaitOnLog(t) == place' = [place EXCEPT ![t] = "asleep"]

-----------------------------------------------------------------------------

LogFull == Len(entries) >= LogCapacity

\* hermes_logf, once the entry is complete: from the lock or from the wait
Enqueue(t, e) ==
    IF LogFull
    THEN WaitOnLog(t) /\ entry' = [entry EXCEPT ![t] = e] /\ UNCHANGED entries
    ELSE /\ entries' = Append(entries, e) /\ SignalAny(t, "idle")
         /\ entry' = [entry EXCEPT ![t] = "none"]

\* hermes_logf: the file is the one of now, however long the wait for room is.
Logf(t) ==
    /\ place[t] = "idle" /\ initialized /\ running
    /\ \E e \in {"none", file} : Enqueue(t, e)
    /\ UNCHANGED <<initialized, running, file, deferred, open>>

\* hermes_logf, behind pthread_cond_wait
LogfWoken(t) ==
    /\ t \in Loggers /\ place[t] = "woken"
    /\ IF running THEN Enqueue(t, entry[t])
       ELSE /\ place' = [place EXCEPT ![t] = "idle"] /\ entry' = [entry EXCEPT ![t] = "none"]
            /\ UNCHANGED entries
    /\ UNCHANGED <<initialized, running, file, deferred, open>>

\* Wrong: a worker that is to stop stops at once.
StopsAtOnce == ~running

\* log_worker: what is in the queue is printed first.
Stops == entries = <<>> /\ ~running

WorkerTakes ==
    /\ AtLock(Worker) /\ ~Stops
    /\ IF entries = <<>> THEN WaitOnLog(Worker) /\ UNCHANGED <<entries, entry>>
       ELSE /\ entry' = [entry EXCEPT ![Worker] = Head(entries)]
            /\ entries' = Tail(entries)
            /\ WakeLogger(Worker, "printing")
    /\ UNCHANGED <<initialized, running, file, deferred, open>>

\* print_entry
WorkerPrints ==
    /\ place[Worker] = "printing"
    /\ place' = [place EXCEPT ![Worker] = "locking"]
    /\ entry' = [entry EXCEPT ![Worker] = "none"]
    /\ UNCHANGED <<entries, initialized, running, file, deferred, open>>

WorkerExits ==
    /\ AtLock(Worker) /\ Stops
    /\ place' = [place EXCEPT ![Worker] = "exited"]
    /\ UNCHANGED <<entries, initialized, running, entry, file, deferred, open>>

\* Wrong: the worker is told, and nobody else.
SignalOnShutdown == SignalAny(Worker, place[Worker])

WakeEverybody ==
    place' = [t \in LogThreads |-> IF place[t] = "asleep" THEN "woken" ELSE place[t]]

\* hermes_log_shutdown, up to the join of the worker
LogShutdown ==
    /\ initialized /\ running
    /\ running' = FALSE /\ WakeEverybody
    /\ UNCHANGED <<entries, initialized, entry, file, deferred, open>>

\* hermes_log_shutdown, behind the join
LogCleanUp ==
    /\ initialized /\ ~running /\ place[Worker] = "exited"
    /\ open' = open \ {file, deferred}
    /\ file' = "none" /\ deferred' = "none"
    /\ entries' = <<>> /\ initialized' = FALSE
    /\ UNCHANGED <<running, place, entry>>

\* Wrong: a file is closed when another one takes its place.
OpenButOld == open \ {file}

\* The close of the old file is put off until the shutdown.
StillOpen == open

Retired == IF file = "none" THEN deferred ELSE file

\* hermes_log_set_file, by the main program
SetFile ==
    \E f \in LogFiles \ open :
        /\ running
        /\ file' = f /\ deferred' = Retired /\ open' = StillOpen \cup {f}
        /\ UNCHANGED <<entries, initialized, running, place, entry>>

\* hermes_log_close_file, by the main program
CloseFile ==
    /\ running
    /\ file' = "none" /\ deferred' = Retired /\ open' = StillOpen
    /\ UNCHANGED <<entries, initialized, running, place, entry>>

\* pthread_cond_wait may return without a signal.
LogSpurious(t) ==
    /\ place[t] = "asleep"
    /\ place' = [place EXCEPT ![t] = "woken"]
    /\ UNCHANGED <<entries, initialized, running, entry, file, deferred, open>>

\* hermes_log_init, which the main program calls once, before it has threads
LogInit ==
    /\ entries = <<>> /\ initialized = TRUE /\ running = TRUE
    /\ place = [t \in LogThreads |-> IF t = Worker THEN "locking" ELSE "idle"]
    /\ entry = [t \in LogThreads |-> "none"]
    /\ file = "none" /\ deferred = "none" /\ open = {}

LogNext ==
    \/ LogShutdown \/ LogCleanUp \/ SetFile \/ CloseFile
    \/ WorkerTakes \/ WorkerPrints \/ WorkerExits
    \/ \E t \in Loggers : Logf(t) \/ LogfWoken(t)
    \/ \E t \in LogThreads : LogSpurious(t)

LogSpec == LogInit /\ [][LogNext]_logVars

-----------------------------------------------------------------------------
(* Properties *)

LogTypeOK ==
    /\ entries \in Seq(LogFiles \cup {"none"}) /\ Len(entries) <= LogCapacity
    /\ initialized \in BOOLEAN /\ running \in BOOLEAN
    /\ place \in [LogThreads -> LogPlaces]
    /\ entry \in [LogThreads -> LogFiles \cup {"none"}]
    /\ {file, deferred} \subseteq LogFiles \cup {"none"} /\ open \subseteq LogFiles

\* One condition serves the worker and those that wait for room, and a signal may
\* go to either.  Yet the worker does not sleep on an entry, nor those that wait
\* with fewer entries left to take than they are, each of which wakes one: the
\* program does not stop in its own log.  It is so because the queue has at least
\* as many places as the program has threads that log.
NobodyOversleeps ==
    /\ place[Worker] = "asleep" => entries = <<>>
    /\ Cardinality(Sleepers(Loggers)) <= Len(entries)

\* hermes_log_shutdown leaves nobody asleep, and nobody goes to sleep after it: the
\* worker can be joined, and the threads that still log go on.
ShutdownWakesAll == ~running => Sleepers(LogThreads) = {}

\* An entry is printed into a file that is still open, though the file was replaced
\* or given up while the entry waited, or while its thread waited for room.
EntryHasItsFile ==
    \A f \in {entries[i] : i \in DOMAIN entries} \cup {entry[Worker]} : f \in open \cup {"none"}

\* What was accepted before the shutdown is printed before the queue is freed.
ShutdownPrintsAll == [][initialized /\ ~initialized' => entries = <<>>]_logVars

=============================================================================
