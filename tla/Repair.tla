------------------------------- MODULE Repair -------------------------------
(***************************************************************************)
(* repair.py: a trace root with several logs, a process that records runs  *)
(* in them and may die, and repair_all, which closes the runs that died.   *)
(*                                                                         *)
(* An append, with the resume that may come before it, is a single step    *)
(* here: Recorder shows that the lock makes it one to every other thread.  *)
(* What a crash or a failed write leaves of a line is a parameter, as in   *)
(* Recorder.  The quarantined files stay in the trace root, where          *)
(* repair_all's glob finds them too.                                       *)
(***************************************************************************)
EXTENDS Chain, FiniteSets, SequencesExt

CONSTANTS Logs,          \* the logs of the root: 1..n in the order of sorted()
          RunStart, Step, RunEnd, Interrupted,   \* the contents of the events
          None,
          NoKey, AppKey, \* the keys of repair and of the application
          CrashTears, FailTears,   \* what an interrupted write leaves behind
          Concurrent,    \* runs and sweeps may go on beside each other
          MaxEvents, MaxCrashes, MaxSweeps       \* bounds for TLC

\* How much of a line an interrupted write leaves: nothing, a fragment, the
\* whole JSON text without its newline, or all of it.
Tears == {"none", "part", "bare", "full"}

ASSUME RootAssumption ==
  /\ IsFiniteSet(Logs) /\ Logs = 1..Cardinality(Logs)
  /\ {RunStart, Step, RunEnd, Interrupted} \subseteq Contents
  /\ Cardinality({RunStart, Step, RunEnd, Interrupted}) = 4
  /\ {NoKey, AppKey} \subseteq Keys
  /\ CrashTears \subseteq Tears /\ FailTears \subseteq Tears
  /\ Concurrent \in BOOLEAN
  /\ MaxEvents \in Nat /\ MaxCrashes \in Nat /\ MaxSweeps \in Nat

VARIABLES
  file,         \* per log: its lines
  nl,           \* per log: its last line is newline-terminated
  quarantined,  \* the logs that have a *.corrupt-<ts>.jsonl beside them
  alive,        \* a process runs
  rec,          \* recorder_for's cache, per log: a recorder or None
  running,      \* the logs with a run in progress whose start is on record
  died,         \* history: the logs left open by a process that died
  sweep,        \* "idle", "scan", "close", "append", "done" or "raised"
  todo,         \* scan: the logs still to read; close: those still to close
  orphaned,     \* what find_orphaned_runs found so far
  crashes, sweeps

disk == <<file, nl, quarantined>>
app == <<running, died>>
sweeping == <<sweep, todo, orphaned, sweeps>>
vars == <<disk, alive, rec, app, sweeping, crashes>>

Recorders == [next_seq : Nat, prev : Digest, key : Keys]

Init ==
  /\ file = [l \in Logs |-> <<>>]
  /\ nl = [l \in Logs |-> TRUE]
  /\ quarantined = {}
  /\ alive = FALSE
  /\ rec = [l \in Logs |-> None]
  /\ running = {} /\ died = {}
  /\ sweep = "idle" /\ todo = <<>> /\ orphaned = <<>>
  /\ crashes = 0 /\ sweeps = 0

-----------------------------------------------------------------------------
(***************************************************************************)
(* The recorder, one step per call.                                        *)
(***************************************************************************)
\* The lines of a log in front of the first one that does not parse.
Recorded(ls) == SubSeq(ls, 1, ValidLen(ls))

\* A run was started and not ended.
RunOpen(ls) ==
  \E k \in 1..Len(ls) :
    /\ ls[k].content = RunStart
    /\ \A m \in k..Len(ls) : ls[m].content \notin {RunEnd, Interrupted}

\* TraceRecorder on log l: the chain head behind its readable lines.
resumed(l, key) ==
  LET k == ValidLen(file[l]) IN
  [next_seq |-> IF k = 0 THEN 0 ELSE file[l][k].seq + 1,
   prev |-> head_id(file[l], k), key |-> key]

\* A mutant of recorder_for: no cache, the caller's key is used.
recorder_for_fresh(l, key) ==
  [next_seq |-> 0, prev |-> GENESIS_PREV, key |-> key]

\* recorder_for: the cached recorder, or one made for this caller's key.
recorder_for(l, key) == IF rec[l] # None THEN rec[l] ELSE resumed(l, key)

\* A mutant of opened: the truncation cuts one line too many.
opened_greedy(l) ==
  LET k == ValidLen(file[l]) IN
  IF rec[l] # None \/ k = Len(file[l]) THEN file[l]
  ELSE SubSeq(file[l], 1, IF k = 0 THEN 0 ELSE k - 1)

\* The lines of log l once its recorder is there: a cached one leaves the file
\* alone, a new one cuts the torn tail or moves a file without events away.
opened(l) == IF rec[l] # None THEN file[l] ELSE Recorded(file[l])

\* Its last line ends with a newline then.
terminated(l) == nl[l] \/ (rec[l] = None /\ ValidLen(file[l]) < Len(file[l]))

\* e is written to log l, and how says how much of it arrives.  Bytes behind an
\* unterminated line are glued to it.
written(l, e, how) ==
  LET ls == opened(l) IN
  /\ file' = [file EXCEPT ![l] =
                IF how = "none" THEN ls
                ELSE IF terminated(l) THEN Append(ls, IF how = "part" THEN Torn ELSE e)
                ELSE [ls EXCEPT ![Len(ls)] = Torn]]
  /\ nl' = [nl EXCEPT ![l] = IF how = "none" THEN terminated(l) ELSE how = "full"]
  /\ quarantined' =
       IF rec[l] = None /\ file[l] # <<>> /\ ValidLen(file[l]) = 0
         THEN quarantined \cup {l} ELSE quarantined

\* The envelope that recorder_for(l, key) builds for content c.
next_envelope(l, c, key) ==
  LET r == recorder_for(l, key) IN
  checked_envelope(r.next_seq, c, r.prev, r.key)

\* recorder_for(l, key).append(c).
append(l, c, key) ==
  LET r == recorder_for(l, key)
      e == next_envelope(l, c, key)
  IN  /\ written(l, e, "full")
      /\ rec' = [rec EXCEPT ![l] = [r EXCEPT !.next_seq = @ + 1, !.prev = e.id]]

\* recorder_for(l, key).append(c) raises in its write.
append_raises(l, c, key) ==
  /\ \E how \in FailTears : written(l, next_envelope(l, c, key), how)
  /\ rec' = [rec EXCEPT ![l] = recorder_for(l, key)]

-----------------------------------------------------------------------------
(***************************************************************************)
(* The application.                                                        *)
(***************************************************************************)
Boot ==
  /\ ~alive
  /\ alive' = TRUE
  /\ UNCHANGED <<disk, rec, app, sweeping, crashes>>

StartRun(l) ==
  /\ alive /\ l \notin running
  /\ Len(file[l]) < MaxEvents
  /\ append(l, RunStart, AppKey)
  /\ running' = running \cup {l}
  /\ died' = died \ {l}
  /\ UNCHANGED <<alive, sweeping, crashes>>

StepRun(l) ==
  /\ alive /\ l \in running
  /\ Len(file[l]) < MaxEvents
  /\ append(l, Step, AppKey)
  /\ UNCHANGED <<alive, app, sweeping, crashes>>

EndRun(l) ==
  /\ alive /\ l \in running
  /\ append(l, RunEnd, AppKey)
  /\ running' = running \ {l}
  /\ died' = died \ {l}
  /\ UNCHANGED <<alive, sweeping, crashes>>

\* The append of a run's event raises and emit drops it: a step is missing, or
\* the run is over and its end is not on record.
LoseEvent(l) ==
  /\ alive /\ l \in running
  /\ \/ append_raises(l, Step, AppKey) /\ UNCHANGED running
     \/ append_raises(l, RunEnd, AppKey) /\ running' = running \ {l}
  /\ UNCHANGED <<died, alive, sweeping, crashes>>

\* The start of a run is dropped: the run stays off the record.
LoseStart(l) ==
  /\ alive /\ l \notin running
  /\ append_raises(l, RunStart, AppKey)
  /\ UNCHANGED <<app, alive, sweeping, crashes>>

-----------------------------------------------------------------------------
(***************************************************************************)
(* The environment.                                                        *)
(***************************************************************************)
\* The operator starts no sweep while a run is in progress, and no run while a
\* sweep is going on.  The program checks neither.
SweepAllowed == Concurrent \/ running = {}

RunsAllowed == Concurrent \/ sweep \in {"idle", "done", "raised"}

\* The events whose append to log l a crash may interrupt: of its run, of one
\* that starts, of the repair.
InFlight(l) ==
  (IF l \in running THEN {Step, RunEnd} ELSE IF RunsAllowed THEN {RunStart} ELSE {})
    \cup (IF sweep = "append" /\ l = Head(todo) THEN {Interrupted} ELSE {})

\* The process dies, with the cache, the sweep and the runs in progress; what
\* arrives of one write in flight stays.  The logs on record as open then are
\* those to repair.
Crash ==
  /\ alive /\ crashes < MaxCrashes
  /\ alive' = FALSE
  /\ crashes' = crashes + 1
  /\ \/ UNCHANGED disk
     \/ \E l \in Logs, how \in CrashTears : \E c \in InFlight(l) :
          LET key == IF c = Interrupted THEN NoKey ELSE AppKey IN
          written(l, next_envelope(l, c, key), how)
  /\ rec' = [l \in Logs |-> None]
  /\ running' = {}
  /\ died' = {l \in Logs : RunOpen(Recorded(file'[l]))}
  /\ sweep' = "idle" /\ todo' = <<>> /\ orphaned' = <<>>
  /\ UNCHANGED sweeps

-----------------------------------------------------------------------------
(***************************************************************************)
(* repair_all.                                                             *)
(***************************************************************************)
\* A mutant of last_bracket: only run/start is looked for.
last_bracket_noend(ls) ==
  IF \E k \in 1..Len(ls) : ls[k].content = RunStart THEN "open" ELSE "empty"

\* _last_bracket of a log that parses.
last_bracket(ls) ==
  LET brackets == {k \in 1..Len(ls) :
                     ls[k].content \in {RunStart, RunEnd, Interrupted}}
  IN  IF brackets = {} THEN "empty"
      ELSE IF ls[Max(brackets)].content = RunStart THEN "open" ELSE "closed"

\* repair_all begins: find_orphaned_runs globs the root.
Sweep ==
  /\ alive /\ sweep \in {"idle", "done", "raised"} /\ sweeps < MaxSweeps
  /\ sweep' = "scan" /\ sweeps' = sweeps + 1
  /\ todo' = [l \in Logs |-> l] /\ orphaned' = <<>>
  /\ UNCHANGED <<disk, alive, rec, app, crashes>>

\* repair_all raises, or returns: its locals are gone.
leave(how) == sweep' = how /\ todo' = <<>> /\ orphaned' = <<>>

\* find_orphaned_runs reads the next log, or the quarantined file beside it,
\* and raises if one has a line that does not parse.
Scan ==
  /\ sweep = "scan" /\ todo # <<>>
  /\ LET l == Head(todo) IN
     IF l \in quarantined \/ ~Readable(file[l])
       THEN leave("raised")
       ELSE /\ orphaned' = IF last_bracket(file[l]) = "open"
                             THEN Append(orphaned, l) ELSE orphaned
            /\ todo' = Tail(todo)
            /\ UNCHANGED sweep
  /\ UNCHANGED <<disk, alive, rec, app, sweeps, crashes>>

\* A mutant of Scanned: only the last orphaned log is closed.
Scanned_last ==
  /\ sweep = "scan" /\ todo = <<>>
  /\ sweep' = "close"
  /\ todo' = IF orphaned = <<>> THEN <<>> ELSE << orphaned[Len(orphaned)] >>
  /\ UNCHANGED <<disk, alive, rec, app, orphaned, sweeps, crashes>>

Scanned ==
  /\ sweep = "scan" /\ todo = <<>>
  /\ sweep' = "close" /\ todo' = orphaned
  /\ UNCHANGED <<disk, alive, rec, app, orphaned, sweeps, crashes>>

\* close_orphaned_run reads the log again: it raises if a line does not parse
\* by now, and does nothing if the log is closed.
Check ==
  /\ sweep = "close" /\ todo # <<>>
  /\ LET l == Head(todo) IN
     IF ~Readable(file[l])
       THEN leave("raised")
       ELSE /\ IF last_bracket(file[l]) = "open"
                 THEN sweep' = "append" /\ UNCHANGED todo
                 ELSE todo' = Tail(todo) /\ UNCHANGED sweep
            /\ UNCHANGED orphaned
  /\ UNCHANGED <<disk, alive, rec, app, sweeps, crashes>>

\* close_orphaned_run appends run/end {interrupted} through recorder_for.
Interrupt ==
  /\ sweep = "append"
  /\ append(Head(todo), Interrupted, NoKey)
  /\ died' = died \ {Head(todo)}
  /\ sweep' = "close" /\ todo' = Tail(todo)
  /\ UNCHANGED <<alive, running, orphaned, sweeps, crashes>>

\* That append raises, out of close_orphaned_run and of repair_all: the logs
\* behind it stay open.
InterruptRaises ==
  /\ sweep = "append"
  /\ append_raises(Head(todo), Interrupted, NoKey)
  /\ leave("raised")
  /\ UNCHANGED <<alive, app, sweeps, crashes>>

Return ==
  /\ sweep = "close" /\ todo = <<>>
  /\ leave("done")
  /\ UNCHANGED <<disk, alive, rec, app, sweeps, crashes>>

Next ==
  \/ Boot
  \/ \E l \in Logs : RunsAllowed /\ (StartRun(l) \/ LoseStart(l))
  \/ \E l \in Logs : StepRun(l) \/ EndRun(l) \/ LoseEvent(l)
  \/ Crash
  \/ SweepAllowed /\ Sweep
  \/ Scan \/ Scanned \/ Check \/ Interrupt \/ InterruptRaises \/ Return

Spec == Init /\ [][Next]_vars

-----------------------------------------------------------------------------
(***************************************************************************)
(* Properties.                                                             *)
(***************************************************************************)
\* The types of the variables.
TypeOK ==
  /\ file \in [Logs -> Seq(Line)] /\ nl \in [Logs -> BOOLEAN]
  /\ quarantined \subseteq Logs
  /\ alive \in BOOLEAN
  /\ rec \in [Logs -> Recorders \cup {None}]
  /\ running \subseteq Logs /\ died \subseteq Logs
  /\ sweep \in {"idle", "scan", "close", "append", "done", "raised"}
  /\ todo \in Seq(Logs) /\ orphaned \in Seq(Logs)
  /\ crashes \in Nat /\ sweeps \in Nat

\* "appended through the recorder, so the hash chain stays intact": a log that
\* this process opened verifies under the application's key, whoever wrote to
\* it, the runs or the repair.
RepairKeepsChain ==
  \A l \in Logs : rec[l] # None => ChainOK(file[l], AppKey)

\* "Idempotent": an interrupted run/end closes a run that was open, never one
\* that is closed already, however often logs are swept and processes die.
InterruptedClosesARun ==
  \A l \in Logs : \A k \in 1..Len(file[l]) :
    file[l][k] # Torn /\ file[l][k].content = Interrupted =>
      RunOpen(SubSeq(file[l], 1, k - 1))

\* "Close every orphaned run under a trace root": after repair_all returned,
\* no log is left open by a process that died, also if it is not the first
\* sweep that tries, and earlier ones died or raised on the way.
SweepClosesAll == sweep = "done" => died = {}

\* A run that died stays on record as open until a sweep or a run closes it: no
\* resume, crash or failed append loses it before the next sweep can find it.
DiedStaysOpen == \A l \in died : RunOpen(Recorded(file[l]))

\* Crash recovery: whether repair_all returned or raised, no log is left
\* whose last run died.
SweepHeals == sweep \in {"done", "raised"} => died = {}
=============================================================================
