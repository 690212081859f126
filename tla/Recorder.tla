------------------------------ MODULE Recorder ------------------------------
(***************************************************************************)
(* recorder.py: the one TraceRecorder a process holds for a log path (the  *)
(* cache of recorder_for), appended to by several threads, in a process    *)
(* that may die at any point and be started again.                         *)
(*                                                                         *)
(* The file is a sequence of lines plus one bit, nl: whether its last line *)
(* ends with a newline.  Bytes appended to an unterminated line are glued  *)
(* to it, and json.loads rejects the result.                               *)
(*                                                                         *)
(* The environment is a parameter: CrashTears and FailTears say how much   *)
(* of a line may have reached the file when the process dies or when the   *)
(* write raises (a "tear"), ReadFaults whether reading the log at resume   *)
(* may fail, Damage whether a line in the middle may be damaged.           *)
(***************************************************************************)
EXTENDS Chain, FiniteSets

CONSTANTS Threads,
          None,
          Key,          \* the hmac_key of this recorder
          Strict,       \* TraceRecorder.strict
          CrashTears, FailTears, ReadFaults, Damage,   \* the environment
          MaxLines, MaxCrashes, MaxDropped             \* bounds for TLC

\* How much of a line an interrupted write leaves behind: nothing, a
\* fragment, the whole JSON text without its newline, or all of it.
Tears == {"none", "part", "bare", "full"}

ASSUME ConstantsAssumption ==
  /\ None \notin Threads
  /\ None \notin Envelope
  /\ Key \in Keys
  /\ Strict \in BOOLEAN /\ ReadFaults \in BOOLEAN /\ Damage \in BOOLEAN
  /\ CrashTears \subseteq Tears /\ FailTears \subseteq Tears
  /\ MaxLines \in Nat /\ MaxCrashes \in Nat /\ MaxDropped \in Nat

VARIABLES
  lines,        \* the log file
  nl,           \* its last line is newline-terminated (TRUE when empty)
  quarantined,  \* the files moved to *.corrupt-<ts>.jsonl
  live,         \* the process runs and its recorder is constructed
  next_seq,     \* recorder._next_seq
  prev,         \* recorder._prev
  holder,       \* the thread that holds recorder._lock, or None
  pc,           \* where each thread is inside append
  envelope,     \* the local variable of append, per thread
  dropped,      \* recorder.dropped
  acked,        \* history: the envelopes whose append returned
  crashes,      \* history: how often the process died
  damaged,      \* history: a line in the middle of the file was damaged
  faulted       \* history: reading the log at resume failed

file == <<lines, nl, quarantined>>
memory == <<next_seq, prev>>
calls == <<holder, pc, envelope>>
history == <<acked, crashes, damaged, faulted>>
vars == <<file, live, memory, calls, dropped, history>>

Init ==
  /\ lines = <<>> /\ nl = TRUE /\ quarantined = {}
  /\ live = FALSE
  /\ next_seq = 0 /\ prev = GENESIS_PREV
  /\ holder = None
  /\ pc = [t \in Threads |-> "idle"]
  /\ envelope = [t \in Threads |-> None]
  /\ dropped = 0
  /\ acked = {} /\ crashes = 0 /\ damaged = FALSE /\ faulted = FALSE

-----------------------------------------------------------------------------
(***************************************************************************)
(* The file.                                                               *)
(***************************************************************************)
\* The lines after the bytes of x were appended.
put(x) ==
  IF nl THEN Append(lines, x) ELSE [lines EXCEPT ![Len(lines)] = Torn]

\* open("a"); write(json + "\n"); flush(): "full" when it succeeds, else how
\* much of it came through.
append_bytes(e, how) ==
  /\ lines' = IF how = "none" THEN lines
              ELSE put(IF how = "part" THEN Torn ELSE e)
  /\ nl' = IF how = "none" THEN nl ELSE how = "full"

-----------------------------------------------------------------------------
(***************************************************************************)
(* Opening the log: __init__ and _resume, under the guard of recorder_for. *)
(***************************************************************************)
\* The seq and the chain head after k lines were read.
adopt(k) ==
  /\ next_seq' = IF k = 0 THEN 0 ELSE lines[k].seq + 1
  /\ prev' = head_id(lines, k)

\* A mutant of clean: the torn tail is left in the file.
clean_lazy(k) == UNCHANGED file

\* A mutant of clean: a log with a torn tail is moved away as a whole.
clean_moves(k) ==
  IF k = Len(lines)
    THEN UNCHANGED file
    ELSE /\ quarantined' = quarantined \cup {lines}
         /\ lines' = <<>> /\ nl' = TRUE

\* A mutant of clean: the truncation cuts one line too many.
clean_greedy(k) ==
  IF k = Len(lines)
    THEN UNCHANGED file
    ELSE /\ lines' = SubSeq(lines, 1, IF k = 0 THEN 0 ELSE k - 1)
         /\ nl' = TRUE
         /\ UNCHANGED quarantined

\* What happens to the file when its first k lines parse and the next does
\* not: nothing, quarantine, or truncation.
clean(k) ==
  \/ k = Len(lines) /\ UNCHANGED file
  \/ /\ k = 0 /\ k < Len(lines)
     /\ quarantined' = quarantined \cup {lines}
     /\ lines' = <<>> /\ nl' = TRUE
  \/ /\ 0 < k /\ k < Len(lines)
     /\ lines' = SubSeq(lines, 1, k) /\ nl' = TRUE
     /\ UNCHANGED quarantined

Resume ==
  /\ ~live
  /\ live' = TRUE
  /\ \E k \in 0..Len(lines) : IsValidLen(lines, k) /\ adopt(k) /\ clean(k)
  /\ dropped' = 0
  /\ UNCHANGED <<calls, history>>

\* Reading raises OSError after some lines: what was read so far is adopted
\* and the rest of _resume is skipped.
ResumeFault ==
  /\ ReadFaults /\ ~live /\ lines # <<>>
  /\ live' = TRUE
  /\ \E k \in 0..Len(lines) : Parses(lines, k) /\ adopt(k)
  /\ dropped' = 0
  /\ faulted' = TRUE
  /\ UNCHANGED <<file, calls, acked, crashes, damaged>>

-----------------------------------------------------------------------------
(***************************************************************************)
(* append and emit.                                                        *)
(***************************************************************************)
\* A mutant of Begin: append without the path lock.
Begin_unlocked(t, c) ==
  /\ live /\ pc[t] = "idle"
  /\ Len(lines) < MaxLines
  /\ holder' = t
  /\ pc' = [pc EXCEPT ![t] = "write"]
  /\ envelope' = [envelope EXCEPT ![t] = checked_envelope(next_seq, c, prev, Key)]
  /\ UNCHANGED <<file, live, memory, dropped, history>>

\* append takes the lock and builds the envelope.
Begin(t, c) ==
  /\ live /\ pc[t] = "idle" /\ holder = None
  /\ Len(lines) < MaxLines
  /\ holder' = t
  /\ pc' = [pc EXCEPT ![t] = "write"]
  /\ envelope' = [envelope EXCEPT ![t] = checked_envelope(next_seq, c, prev, Key)]
  /\ UNCHANGED <<file, live, memory, dropped, history>>

\* emit counts an event that append raised on; a strict recorder raises instead.
count_drop == dropped' = IF Strict THEN dropped ELSE dropped + 1

\* append rejects a payload that is not strict JSON: nothing was written.
Reject(t) ==
  /\ live /\ pc[t] = "idle" /\ holder = None
  /\ dropped < MaxDropped
  /\ count_drop
  /\ UNCHANGED <<file, live, memory, calls, history>>

\* t leaves the with-block of append.
release(t) ==
  /\ holder' = None
  /\ pc' = [pc EXCEPT ![t] = "idle"]
  /\ envelope' = [envelope EXCEPT ![t] = None]

Write(t) ==
  /\ pc[t] = "write"
  /\ append_bytes(envelope[t], "full")
  /\ pc' = [pc EXCEPT ![t] = "commit"]
  /\ UNCHANGED <<quarantined, live, memory, holder, envelope, dropped, history>>

\* The write raises (ENOSPC, EIO, ...) and emit drops the event.
Fail(t) ==
  /\ pc[t] = "write"
  /\ dropped < MaxDropped
  /\ \E how \in FailTears : append_bytes(envelope[t], how)
  /\ release(t)
  /\ count_drop
  /\ UNCHANGED <<quarantined, live, memory, history>>

\* A mutant of Commit: the chain head is not moved.
Commit_stale(t) ==
  /\ pc[t] = "commit"
  /\ next_seq' = next_seq + 1
  /\ acked' = acked \cup {envelope[t]}
  /\ release(t)
  /\ UNCHANGED <<file, live, prev, dropped, crashes, damaged, faulted>>

\* A mutant of Commit: moving the head takes the lock, which is not reentrant.
Commit_relock(t) ==
  /\ pc[t] = "commit" /\ holder = None
  /\ prev' = envelope[t].id
  /\ next_seq' = next_seq + 1
  /\ acked' = acked \cup {envelope[t]}
  /\ release(t)
  /\ UNCHANGED <<file, live, dropped, crashes, damaged, faulted>>

\* append moves the chain head, leaves the lock and returns the envelope.
Commit(t) ==
  /\ pc[t] = "commit"
  /\ prev' = envelope[t].id
  /\ next_seq' = next_seq + 1
  /\ acked' = acked \cup {envelope[t]}
  /\ release(t)
  /\ UNCHANGED <<file, live, dropped, crashes, damaged, faulted>>

-----------------------------------------------------------------------------
(***************************************************************************)
(* The environment.                                                        *)
(***************************************************************************)
\* The process dies; a write in flight may come through in part.  The next
\* process starts with a fresh TraceRecorder (its __init__ values).
Crash ==
  /\ live /\ crashes < MaxCrashes
  /\ crashes' = crashes + 1
  /\ live' = FALSE
  /\ \/ /\ \E t \in Threads, how \in CrashTears :
             pc[t] = "write" /\ append_bytes(envelope[t], how)
        /\ UNCHANGED quarantined
     \/ (\A t \in Threads : pc[t] # "write") /\ UNCHANGED file
  /\ next_seq' = 0 /\ prev' = GENESIS_PREV
  /\ holder' = None
  /\ pc' = [t \in Threads |-> "idle"]
  /\ envelope' = [t \in Threads |-> None]
  /\ dropped' = 0
  /\ UNCHANGED <<acked, damaged, faulted>>

\* A line that is not the last one is damaged while no process runs.
DamageLine ==
  /\ Damage /\ ~damaged /\ ~live
  /\ \E i \in 1..(Len(lines) - 1) : lines' = [lines EXCEPT ![i] = Torn]
  /\ damaged' = TRUE
  /\ UNCHANGED <<nl, quarantined, live, memory, calls, dropped, acked, crashes, faulted>>

Step(t) ==
  \/ \E c \in Contents : Begin(t, c)
  \/ Reject(t)
  \/ Write(t)
  \/ Fail(t)
  \/ Commit(t)

Next ==
  \/ Resume
  \/ ResumeFault
  \/ \E t \in Threads : Step(t)
  \/ Crash
  \/ DamageLine

Spec == Init /\ [][Next]_vars

\* A thread inside append keeps running: no step of it waits for another thread.
FairSpec ==
  Spec /\ \A t \in Threads : WF_vars(Write(t) \/ Fail(t) \/ Commit(t))

-----------------------------------------------------------------------------
(***************************************************************************)
(* Properties.                                                             *)
(***************************************************************************)
\* The types of the variables.
TypeOK ==
  /\ lines \in Seq(Line) /\ nl \in BOOLEAN /\ quarantined \subseteq Seq(Line)
  /\ live \in BOOLEAN
  /\ next_seq \in Nat /\ prev \in Digest
  /\ holder \in Threads \cup {None}
  /\ pc \in [Threads -> {"idle", "write", "commit"}]
  /\ envelope \in [Threads -> Envelope \cup {None}]
  /\ dropped \in Nat /\ acked \subseteq Envelope
  /\ crashes \in Nat /\ damaged \in BOOLEAN /\ faulted \in BOOLEAN

\* No line was damaged from outside and every resume could read the log.
Unharmed == ~damaged /\ ~faulted

\* While a process records, verify_log finds no chain error in its log: what
\* a dead predecessor left behind is gone, and no two events share a position
\* ("a continued thread never renumbers and never forks the chain").
LiveLogVerifies == live /\ ~faulted => ChainOK(lines, Key)

\* Only the last line of a log can be unreadable: nothing is ever written
\* behind a torn tail.
OnlyTailTorn == Unharmed => \A i \in 1..(Len(lines) - 1) : lines[i] # Torn

\* An event whose append returned (emit said "persisted") stays in the log, at
\* its position, through later appends, failed writes, crashes and resumes.
AckedDurable ==
  Unharmed => \A e \in acked : e.seq < Len(lines) /\ lines[e.seq + 1] = e

\* A file is quarantined only if it holds no event ("a log with zero valid
\* events is quarantined").
QuarantineHoldsNoEvent ==
  Unharmed => \A f \in quarantined : \A i \in 1..Len(f) : f[i] = Torn

\* A log whose middle was damaged is not reported as intact ("Mid-file
\* corruption still fails loudly"), if it was not moved aside as a whole.
DamageStaysVisible == damaged /\ quarantined = {} => ~ChainOK(lines, Key)

\* The cached chain head is that of the file, except that a thread between
\* its write and its commit is one line ahead of it.
HeadMatchesFile ==
  live /\ ~faulted =>
    /\ \/ \E t \in Threads : pc[t] = "commit" /\ next_seq = Len(lines) - 1
       \/ (\A t \in Threads : pc[t] # "commit") /\ next_seq = Len(lines)
    /\ prev = head_id(lines, next_seq)

\* Every call of append ends: it returns, raises, or dies with the process, and
\* however it ends, the lock is free again for those who wait.
AppendEnds ==
  /\ \A t \in Threads : pc[t] # "idle" ~> pc[t] = "idle"
  /\ holder # None ~> holder = None

-----------------------------------------------------------------------------
(***************************************************************************)
(* The inductive invariant behind the safety properties, for the tears a   *)
(* crash of an unbuffered write or a failed write leaves in the good case. *)
(***************************************************************************)
HealthyTears == CrashTears \subseteq {"none", "part"} /\ FailTears \subseteq {"none"}

EnvelopeBuilt == \A t \in Threads : pc[t] # "idle" => envelope[t] \in Envelope

\* Exactly the holder of the lock is inside append, in a live process.
LockDiscipline ==
  /\ \A t \in Threads : pc[t] # "idle" <=> holder = t
  /\ ~live => holder = None

\* The file, whether or not a process runs.
FileChained ==
  ~faulted =>
    /\ Linked(lines, Key)
    /\ ~nl => lines # <<>> /\ lines[Len(lines)] = Torn
    /\ live => Readable(lines) /\ nl

\* What a thread holds between two steps of append.
EnvelopeFits ==
  ~faulted =>
    \A t \in Threads :
      /\ pc[t] = "write" =>
           envelope[t] = checked_envelope(next_seq, envelope[t].content, prev, Key)
      /\ pc[t] = "commit" => lines # <<>> /\ envelope[t] = lines[Len(lines)]

IInv ==
  /\ TypeOK
  /\ EnvelopeBuilt
  /\ LockDiscipline
  /\ FileChained
  /\ HeadMatchesFile
  /\ EnvelopeFits
  /\ OnlyTailTorn
  /\ AckedDurable

-----------------------------------------------------------------------------
\* The recorder implements the abstract log: the readable lines are the
\* record, and it only grows, as long as nothing is damaged from outside and
\* every resume can read the log.
A == INSTANCE AuditLog WITH
       recorded <- [i \in 1..ValidLen(lines) |-> lines[i].content],
       acknowledged <- {e.seq + 1 : e \in acked}

RefinesAuditLog == A!Init /\ [][Unharmed' => A!Next]_(A!vars)
=============================================================================
