---------------------------- MODULE RepairProofs ----------------------------
(***************************************************************************)
(* Theorems about Repair, for any number of logs, events, crashes and      *)
(* sweeps.                                                                 *)
(***************************************************************************)
EXTENDS Repair, ChainProofs

-----------------------------------------------------------------------------
(***************************************************************************)
(* Lemmas about the files and the recorder.                                *)
(***************************************************************************)
\* What is on record in a log: its lines up to the first unreadable one.
LEMMA RecordedLines ==
  ASSUME NEW ls \in Seq(Line), NEW n, n = ValidLen(ls)
  PROVE  /\ n \in 0..Len(ls) /\ Len(ls) \in Nat /\ Parses(ls, n)
         /\ Recorded(ls) \in Seq(Line) /\ Len(Recorded(ls)) = n
         /\ \A k \in 1..n : Recorded(ls)[k] = ls[k]
<1>1. n \in 0..Len(ls) /\ Parses(ls, n) /\ Len(ls) \in Nat
  BY ValidLenProperties, LenProperties DEF IsValidLen
<1>2. \A k \in 1..n : ls[k] \in Line
  BY <1>1, ElementOfSeq
<1>3. n \in Int /\ 1 \in Int
  BY <1>1
<1>4. Recorded(ls) = SubSeq(ls, 1, n)
  BY DEF Recorded
<1> QED
  BY <1>1, <1>2, <1>3, <1>4, SubSeqProperties

\* All of a log that parses is on record.
LEMMA RecordedWhole ==
  ASSUME NEW ls \in Seq(Line), Readable(ls)
  PROVE  Recorded(ls) = ls
<1>1. ValidLen(ls) = Len(ls)
  BY ReadableValidLen
<1>2. /\ Recorded(ls) \in Seq(Line) /\ Len(Recorded(ls)) = Len(ls)
      /\ \A k \in 1..Len(ls) : Recorded(ls)[k] = ls[k]
  BY <1>1, RecordedLines
<1> QED
  BY <1>2, SeqEqual

\* A glued last line leaves a file.
LEMMA GluedType ==
  ASSUME NEW ls \in Seq(Line)
  PROVE  [ls EXCEPT ![Len(ls)] = Torn] \in Seq(Line)
<1>1. Torn \in Line
  BY DEF Line
<1>2. Len(ls) \in Nat /\ ls \in [1..Len(ls) -> Line]
  BY LenProperties
<1>3. [ls EXCEPT ![Len(ls)] = Torn] \in [1..Len(ls) -> Line]
  BY <1>1, <1>2
<1> QED
  BY <1>2, <1>3, SeqDef

\* Whatever an interrupted write leaves is a file.
LEMMA WrittenType ==
  ASSUME TypeOK, NEW l \in Logs, NEW e \in Line, NEW how, written(l, e, how)
  PROVE  /\ file' \in [Logs -> Seq(Line)] /\ nl' \in [Logs -> BOOLEAN]
         /\ quarantined' \subseteq Logs
<1> DEFINE ls == opened(l)
           x == IF how = "part" THEN Torn ELSE e
           ms == IF how = "none" THEN ls
                 ELSE IF terminated(l) THEN Append(ls, x)
                 ELSE [ls EXCEPT ![Len(ls)] = Torn]
           b == IF how = "none" THEN terminated(l) ELSE how = "full"
<1>1. file \in [Logs -> Seq(Line)] /\ nl \in [Logs -> BOOLEAN] /\ quarantined \subseteq Logs
  BY DEF TypeOK
<1>2. file[l] \in Seq(Line)
  BY <1>1
<1>3. ls \in Seq(Line)
  BY <1>2, RecordedLines DEF opened
<1>4. /\ file' = [file EXCEPT ![l] = ms]
      /\ nl' = [nl EXCEPT ![l] = b]
      /\ quarantined' \in {quarantined, quarantined \cup {l}}
  BY DEF written
<1>5. x \in Line
  BY DEF Line
<1>6. Append(ls, x) \in Seq(Line)
  <2> HIDE DEF ls, x
  <2> QED
    BY <1>3, <1>5, AppendProperties
<1>7. [ls EXCEPT ![Len(ls)] = Torn] \in Seq(Line)
  BY <1>3, GluedType
<1>8. ms \in Seq(Line)
  BY <1>3, <1>6, <1>7
<1>9. b \in BOOLEAN
  BY DEF terminated
<1> HIDE DEF ms, b
<1> QED
  BY <1>1, <1>4, <1>8, <1>9

\* The recorder that an append goes through.
LEMMA RecorderType ==
  ASSUME TypeOK, NEW l \in Logs, NEW key \in Keys
  PROVE  recorder_for(l, key) \in Recorders
<1>1. CASE rec[l] # None
  BY <1>1 DEF TypeOK, recorder_for
<1>2. CASE rec[l] = None
  <2> DEFINE k == ValidLen(file[l])
  <2>1. file[l] \in Seq(Line)
    BY DEF TypeOK
  <2>2. k \in 0..Len(file[l]) /\ Parses(file[l], k) /\ Len(file[l]) \in Nat
    BY <2>1, ValidLenProperties, LenProperties DEF IsValidLen
  <2>3. head_id(file[l], k) \in Digest
    BY <2>1, <2>2, HeadType
  <2>4. k # 0 => file[l][k].seq + 1 \in Nat
    <3> SUFFICES ASSUME k # 0 PROVE file[l][k].seq + 1 \in Nat
      OBVIOUS
    <3>1. k \in 1..Len(file[l]) /\ file[l][k] # Torn
      BY <2>2 DEF Parses
    <3>2. file[l][k] \in Envelope
      BY <2>1, <3>1, ElementOfSeq DEF Line
    <3> QED
      BY <3>2 DEF Envelope
  <2>5. resumed(l, key) =
          [next_seq |-> IF k = 0 THEN 0 ELSE file[l][k].seq + 1,
           prev |-> head_id(file[l], k), key |-> key]
    BY DEF resumed
  <2> HIDE DEF k
  <2>6. resumed(l, key) \in Recorders
    BY <2>3, <2>4, <2>5 DEF Recorders
  <2> QED
    BY <1>2, <2>6 DEF recorder_for
<1> QED
  BY <1>1, <1>2

\* A recorder after its append.
LEMMA NextRecorder ==
  ASSUME NEW r \in Recorders, NEW id \in Digest,
         NEW next, next = [r EXCEPT !.next_seq = @ + 1, !.prev = id]
  PROVE  /\ next.next_seq = r.next_seq + 1 /\ next.prev = id /\ next.key = r.key
         /\ next \in Recorders
<1>1. next.next_seq = r.next_seq + 1
  BY DEF Recorders
<1>2. next.prev = id /\ next.key = r.key
  BY DEF Recorders
<1>3. next \in Recorders
  <2> DEFINE moved == [r EXCEPT !.next_seq = @ + 1]
  <2>1. moved \in Recorders
    BY DEF Recorders
  <2>2. next = [moved EXCEPT !.prev = id]
    OBVIOUS
  <2> HIDE DEF moved
  <2> QED
    BY <2>1, <2>2 DEF Recorders
<1> QED
  BY <1>1, <1>2, <1>3

\* The envelope that a recorder builds.
LEMMA NextEnvelope ==
  ASSUME TypeOK, NEW l \in Logs, NEW c \in Contents, NEW key \in Keys
  PROVE  /\ next_envelope(l, c, key) \in Envelope
         /\ next_envelope(l, c, key) \in Line
         /\ next_envelope(l, c, key).content = c
         /\ next_envelope(l, c, key).id \in Digest
<1> DEFINE r == recorder_for(l, key)
           e == checked_envelope(r.next_seq, c, r.prev, r.key)
<1>1. r \in Recorders
  BY RecorderType
<1>2. next_envelope(l, c, key) = e
  BY DEF next_envelope
<1> HIDE DEF r
<1>3. r.next_seq \in Nat /\ r.prev \in Digest /\ r.key \in Keys
  BY <1>1 DEF Recorders
<1>4. e \in Envelope
  BY <1>3, EnvelopeType
<1>5. e.content = c /\ e.id \in Digest
  BY <1>3, EnvelopeType DEF checked_envelope
<1> QED
  BY <1>2, <1>4, <1>5 DEF Line

\* An append writes the envelope of its recorder, which moves on by one.
LEMMA AppendStep ==
  ASSUME TypeOK, NEW l \in Logs, NEW c \in Contents, NEW key \in Keys,
         append(l, c, key)
  PROVE  \E r \in Recorders, e \in Envelope, next \in Recorders :
           /\ r = recorder_for(l, key)
           /\ e = checked_envelope(r.next_seq, c, r.prev, r.key)
           /\ e.content = c /\ e \in Line /\ e # Torn
           /\ written(l, e, "full")
           /\ next.next_seq = r.next_seq + 1 /\ next.prev = e.id /\ next.key = r.key
           /\ rec' = [rec EXCEPT ![l] = next]
<1> DEFINE r == recorder_for(l, key)
           e == next_envelope(l, c, key)
           next == [r EXCEPT !.next_seq = @ + 1, !.prev = e.id]
<1>1. r \in Recorders
  BY RecorderType
<1>2. written(l, e, "full") /\ rec' = [rec EXCEPT ![l] = next]
  BY DEF append
<1>3. e = checked_envelope(r.next_seq, c, r.prev, r.key)
  BY DEF next_envelope
<1>4. e \in Envelope /\ e \in Line /\ e.content = c /\ e.id \in Digest
  BY NextEnvelope
<1>5. e # Torn
  BY <1>4, TornAssumption
<1> HIDE DEF r, e
<1>6. /\ next.next_seq = r.next_seq + 1 /\ next.prev = e.id /\ next.key = r.key
      /\ next \in Recorders
  BY <1>1, <1>4, NextRecorder
<1> QED
  BY <1>1, <1>2, <1>3, <1>4, <1>5, <1>6 DEF r

-----------------------------------------------------------------------------
(***************************************************************************)
(* Types.  The sweep never looks for the first of no log.                  *)
(***************************************************************************)
InHand == sweep = "append" => todo # <<>>

Typed == TypeOK /\ InHand

\* An append, and one that raises, keeps the types of the disk and the cache.
LEMMA AppendType ==
  ASSUME TypeOK, NEW l \in Logs, NEW c \in Contents, NEW key \in Keys,
         append(l, c, key) \/ append_raises(l, c, key)
  PROVE  /\ file' \in [Logs -> Seq(Line)] /\ nl' \in [Logs -> BOOLEAN]
         /\ quarantined' \subseteq Logs
         /\ rec' \in [Logs -> Recorders \cup {None}]
<1>1. rec \in [Logs -> Recorders \cup {None}]
  BY DEF TypeOK
<1>2. CASE append(l, c, key)
  <2>1. PICK e \in Envelope, next \in Recorders :
          e \in Line /\ written(l, e, "full") /\ rec' = [rec EXCEPT ![l] = next]
    BY <1>2, AppendStep
  <2> QED
    BY <1>1, <2>1, WrittenType
<1>3. CASE append_raises(l, c, key)
  <2> DEFINE e == next_envelope(l, c, key)
             r == recorder_for(l, key)
  <2>1. PICK how \in FailTears : written(l, e, how)
    BY <1>3 DEF append_raises
  <2>2. rec' = [rec EXCEPT ![l] = r]
    BY <1>3 DEF append_raises
  <2>3. r \in Recorders /\ e \in Line
    BY RecorderType, NextEnvelope
  <2> HIDE DEF e, r
  <2> QED
    BY <1>1, <2>1, <2>2, <2>3, WrittenType
<1> QED
  BY <1>2, <1>3

LEMMA TypedInit == Init => Typed
<1> SUFFICES ASSUME Init PROVE Typed
  OBVIOUS
<1>1. <<>> \in Seq(Line) /\ <<>> \in Seq(Logs)
  BY EmptySeq
<1> QED
  BY <1>1 DEF Init, Typed, TypeOK, InHand

\* What a sweep leaves behind when it returns or raises.
LEMMA LeaveType ==
  ASSUME NEW how \in {"done", "raised"}, leave(how)
  PROVE  /\ sweep' = how /\ todo' = <<>> /\ orphaned' = <<>>
         /\ todo' \in Seq(Logs) /\ orphaned' \in Seq(Logs)
<1>1. <<>> \in Seq(Logs)
  BY EmptySeq
<1> QED
  BY <1>1 DEF leave

\* The constants an append is called with.
LEMMA Constants ==
  /\ RunStart \in Contents /\ Step \in Contents /\ RunEnd \in Contents
  /\ Interrupted \in Contents /\ NoKey \in Keys /\ AppKey \in Keys
  BY RootAssumption

\* The log that comes next.
LEMMA HeadTodo ==
  ASSUME TypeOK, todo # <<>>
  PROVE  Head(todo) \in Logs /\ Tail(todo) \in Seq(Logs)
  BY HeadTailProperties DEF TypeOK

\* What the events of the application do to the logs.
LEMMA RunAppends ==
  ASSUME NEW l \in Logs,
         \/ StartRun(l) \/ LoseStart(l) \/ StepRun(l) \/ EndRun(l) \/ LoseEvent(l)
  PROVE  \E c \in Contents : append(l, c, AppKey) \/ append_raises(l, c, AppKey)
  BY Constants DEF StartRun, LoseStart, StepRun, EndRun, LoseEvent

\* The write that a crash interrupts.
LEMMA CrashWrites ==
  ASSUME TypeOK, Crash
  PROVE  \/ UNCHANGED disk
         \/ \E l \in Logs, how \in CrashTears : \E c \in InFlight(l), key \in Keys :
              /\ c \in Contents
              /\ key = IF c = Interrupted THEN NoKey ELSE AppKey
              /\ written(l, next_envelope(l, c, key), how)
<1> SUFFICES ASSUME ~UNCHANGED disk
             PROVE  \E l \in Logs, how \in CrashTears : \E c \in InFlight(l), key \in Keys :
                      /\ c \in Contents
                      /\ key = IF c = Interrupted THEN NoKey ELSE AppKey
                      /\ written(l, next_envelope(l, c, key), how)
  OBVIOUS
<1>1. PICK l \in Logs, how \in CrashTears : \E c \in InFlight(l) :
        LET key == IF c = Interrupted THEN NoKey ELSE AppKey IN
        written(l, next_envelope(l, c, key), how)
  BY DEF Crash
<1>2. PICK c \in InFlight(l) :
        LET key == IF c = Interrupted THEN NoKey ELSE AppKey IN
        written(l, next_envelope(l, c, key), how)
  BY <1>1
<1> DEFINE key == IF c = Interrupted THEN NoKey ELSE AppKey
<1>3. key \in Keys /\ c \in Contents
  BY Constants DEF InFlight
<1> QED
  BY <1>2, <1>3

LEMMA TypedNext == Typed /\ [Next]_vars => Typed'
<1> SUFFICES ASSUME Typed, [Next]_vars PROVE Typed'
  OBVIOUS
<1> USE DEF Typed, InHand
<1>1. <<>> \in Seq(Logs)
  BY EmptySeq
<1>3. CASE Boot
  BY <1>3 DEF Boot, TypeOK, app, sweeping, disk
<1>4. ASSUME NEW l \in Logs,
             \/ StartRun(l) \/ LoseStart(l) \/ StepRun(l) \/ EndRun(l) \/ LoseEvent(l)
      PROVE  Typed'
  <2>1. PICK c \in Contents : append(l, c, AppKey) \/ append_raises(l, c, AppKey)
    BY <1>4, RunAppends
  <2>2. /\ file' \in [Logs -> Seq(Line)] /\ nl' \in [Logs -> BOOLEAN]
        /\ quarantined' \subseteq Logs
        /\ rec' \in [Logs -> Recorders \cup {None}]
    BY <2>1, Constants, AppendType
  <2>3. /\ UNCHANGED <<alive, sweeping, crashes>>
        /\ running' \subseteq Logs /\ died' \subseteq Logs
    BY <1>4 DEF StartRun, LoseStart, StepRun, EndRun, LoseEvent, app, TypeOK
  <2> QED
    BY <2>2, <2>3 DEF TypeOK, sweeping
<1>5. CASE Crash
  <2>1. /\ file' \in [Logs -> Seq(Line)] /\ nl' \in [Logs -> BOOLEAN]
        /\ quarantined' \subseteq Logs
    <3>1. CASE UNCHANGED disk
      BY <3>1 DEF TypeOK, disk
    <3>2. CASE ~UNCHANGED disk
      <4>1. PICK l \in Logs, how \in CrashTears : \E c \in InFlight(l), key \in Keys :
              c \in Contents /\ written(l, next_envelope(l, c, key), how)
        BY <1>5, <3>2, CrashWrites
      <4>2. PICK c \in InFlight(l), key \in Keys :
              c \in Contents /\ written(l, next_envelope(l, c, key), how)
        BY <4>1
      <4> QED
        BY <4>2, NextEnvelope, WrittenType
    <3> QED
      BY <3>1, <3>2
  <2>2. /\ alive' = FALSE /\ crashes' = crashes + 1 /\ sweeps' = sweeps
        /\ rec' = [l \in Logs |-> None]
        /\ running' = {} /\ died' \subseteq Logs
        /\ sweep' = "idle" /\ todo' = <<>> /\ orphaned' = <<>>
    BY <1>5 DEF Crash
  <2>3. rec' \in [Logs -> Recorders \cup {None}]
    BY <2>2
  <2>4. crashes' \in Nat /\ sweeps' \in Nat
    BY <2>2 DEF TypeOK
  <2> QED
    BY <1>1, <2>1, <2>2, <2>3, <2>4 DEF TypeOK
<1>6. CASE Sweep
  <2>1. [l \in Logs |-> l] \in Seq(Logs)
    <3>1. PICK n \in Nat : Logs = 1..n
      BY RootAssumption, FS_CardinalityType
    <3> QED
      BY <3>1, SeqDef
  <2>2. /\ todo' \in Seq(Logs) /\ orphaned' \in Seq(Logs) /\ sweep' = "scan"
        /\ sweeps' \in Nat /\ UNCHANGED <<disk, alive, rec, app, crashes>>
    BY <1>1, <1>6, <2>1 DEF Sweep, TypeOK
  <2> QED
    BY <2>2 DEF TypeOK, app, disk
<1>7. CASE Scan
  <2> DEFINE l == Head(todo)
  <2>1. /\ todo # <<>>
        /\ UNCHANGED <<disk, alive, rec, app, sweeps, crashes>>
    BY <1>7 DEF Scan
  <2>2. CASE leave("raised")
    BY <2>1, <2>2, LeaveType DEF TypeOK, app, disk
  <2>3. CASE ~leave("raised")
    <3>1. /\ orphaned' \in {orphaned, Append(orphaned, l)}
          /\ todo' = Tail(todo) /\ sweep' = sweep /\ sweep = "scan"
      BY <1>7, <2>3 DEF Scan
    <3>2. l \in Logs /\ Tail(todo) \in Seq(Logs) /\ orphaned \in Seq(Logs)
      BY <2>1, HeadTodo DEF TypeOK
    <3>3. Append(orphaned, l) \in Seq(Logs)
      BY <3>2, AppendProperties
    <3> QED
      BY <2>1, <3>1, <3>2, <3>3 DEF TypeOK, app, disk
  <2> QED
    BY <2>2, <2>3
<1>8. CASE Scanned
  BY <1>8 DEF Scanned, TypeOK, app, disk
<1>9. CASE Check
  <2>1. /\ todo # <<>>
        /\ UNCHANGED <<disk, alive, rec, app, sweeps, crashes>>
    BY <1>9 DEF Check
  <2>2. CASE leave("raised")
    BY <2>1, <2>2, LeaveType DEF TypeOK, app, disk
  <2>3. CASE ~leave("raised")
    <3>1. /\ \/ sweep' = "append" /\ todo' = todo
             \/ sweep' = sweep /\ todo' = Tail(todo)
          /\ orphaned' = orphaned /\ sweep = "close"
      BY <1>9, <2>3 DEF Check
    <3>2. Tail(todo) \in Seq(Logs)
      BY <2>1, HeadTodo
    <3> QED
      BY <2>1, <3>1, <3>2 DEF TypeOK, app, disk
  <2> QED
    BY <2>2, <2>3
<1>10. CASE Interrupt \/ InterruptRaises
  <2>1. /\ todo # <<>>
        /\ \/ append(Head(todo), Interrupted, NoKey)
           \/ append_raises(Head(todo), Interrupted, NoKey)
    BY <1>10 DEF Interrupt, InterruptRaises
  <2>2. Head(todo) \in Logs /\ Tail(todo) \in Seq(Logs)
    BY <2>1, HeadTodo
  <2>3. /\ file' \in [Logs -> Seq(Line)] /\ nl' \in [Logs -> BOOLEAN]
        /\ quarantined' \subseteq Logs
        /\ rec' \in [Logs -> Recorders \cup {None}]
    BY <2>1, <2>2, Constants, AppendType
  <2>4. CASE Interrupt
    BY <2>2, <2>3, <2>4 DEF Interrupt, TypeOK
  <2>5. CASE InterruptRaises
    <3>1. leave("raised") /\ UNCHANGED <<alive, app, sweeps, crashes>>
      BY <2>5 DEF InterruptRaises
    <3> QED
      BY <2>3, <3>1, LeaveType DEF TypeOK, app
  <2> QED
    BY <1>10, <2>4, <2>5
<1>11. CASE Return
  <2>1. leave("done") /\ UNCHANGED <<disk, alive, rec, app, sweeps, crashes>>
    BY <1>11 DEF Return
  <2> QED
    BY <2>1, LeaveType DEF TypeOK, app, disk
<1>12. CASE UNCHANGED vars
  BY <1>12 DEF vars, TypeOK, app, sweeping, disk
<1> QED
  BY <1>3, <1>4, <1>5, <1>6, <1>7, <1>8, <1>9, <1>10, <1>11, <1>12 DEF Next

LEMMA TypedAlways == Spec => []Typed
<1>1. Init => Typed
  BY TypedInit
<1>2. Typed /\ [Next]_vars => Typed'
  BY TypedNext
<1> QED
  BY <1>1, <1>2, PTL DEF Spec

\* Type correctness: for any number of logs, crashes and sweeps, whatever an
\* interrupted write leaves behind, and also where runs and sweeps overlap,
\* every recorder's next seq is a number and its prev an id, and the sweep's
\* lists name logs of the root.
THEOREM TypeCorrect == Spec => []TypeOK
<1>1. Typed => TypeOK
  BY DEF Typed
<1> QED
  BY <1>1, TypedAlways, PTL

-----------------------------------------------------------------------------
(***************************************************************************)
(* Writes that arrive whole, torn or not at all.  A whole line without its *)
(* newline, and a fragment behind which this process goes on writing, make *)
(* the next append destroy a line: what follows leaves them out.           *)
(***************************************************************************)
HealthyTears == CrashTears \subseteq {"none", "part", "full"} /\ FailTears \subseteq {"none"}

\* A recorder is cached for a log that parses, and only a torn line is
\* unterminated.
Whole ==
  \A l \in Logs :
    /\ rec[l] # None => Readable(file[l])
    /\ ~nl[l] => ~Readable(file[l])

\* x follows what is on record in log l; what is not is cut off.
Puts(l, x) == file' = [file EXCEPT ![l] = Append(Recorded(file[l]), x)]

Cuts(l) == file' = [file EXCEPT ![l] = Recorded(file[l])]

\* What is on record in a log stays, and one line follows it.
LEMMA PutLines ==
  ASSUME file \in [Logs -> Seq(Line)],
         NEW l \in Logs, NEW x \in Line, Puts(l, x),
         NEW n, n = ValidLen(file[l])
  PROVE  /\ n \in 0..Len(file[l]) /\ Parses(file[l], n)
         /\ file' \in [Logs -> Seq(Line)]
         /\ Len(file'[l]) = n + 1
         /\ \A k \in 1..n : file'[l][k] = file[l][k]
         /\ file'[l][n + 1] = x
         /\ \A m \in Logs : m # l => file'[m] = file[m]
<1> DEFINE kept == Recorded(file[l])
<1>1. file[l] \in Seq(Line)
  OBVIOUS
<1>2. /\ n \in 0..Len(file[l]) /\ Parses(file[l], n)
      /\ kept \in Seq(Line) /\ Len(kept) = n
      /\ \A k \in 1..n : kept[k] = file[l][k]
  BY <1>1, RecordedLines
<1>3. file' = [file EXCEPT ![l] = Append(kept, x)]
  BY DEF Puts
<1> HIDE DEF kept
<1>4. /\ Append(kept, x) \in Seq(Line) /\ Len(Append(kept, x)) = n + 1
      /\ \A k \in 1..n : Append(kept, x)[k] = kept[k]
      /\ Append(kept, x)[n + 1] = x
  BY <1>2, AppendProperties
<1>5. file'[l] = Append(kept, x) /\ \A m \in Logs : m # l => file'[m] = file[m]
  BY <1>3
<1>6. file' \in [Logs -> Seq(Line)]
  BY <1>3, <1>4
<1> QED
  BY <1>2, <1>4, <1>5, <1>6

LEMMA CutLines ==
  ASSUME file \in [Logs -> Seq(Line)],
         NEW l \in Logs, Cuts(l),
         NEW n, n = ValidLen(file[l])
  PROVE  /\ n \in 0..Len(file[l]) /\ Parses(file[l], n)
         /\ file' \in [Logs -> Seq(Line)]
         /\ Len(file'[l]) = n
         /\ \A k \in 1..n : file'[l][k] = file[l][k]
         /\ Readable(file'[l])
         /\ \A m \in Logs : m # l => file'[m] = file[m]
<1> DEFINE kept == Recorded(file[l])
<1>1. file[l] \in Seq(Line)
  OBVIOUS
<1>2. /\ n \in 0..Len(file[l]) /\ Parses(file[l], n)
      /\ kept \in Seq(Line) /\ Len(kept) = n
      /\ \A k \in 1..n : kept[k] = file[l][k]
  BY <1>1, RecordedLines
<1>3. file' = [file EXCEPT ![l] = kept]
  BY DEF Cuts
<1> HIDE DEF kept
<1>4. file'[l] = kept /\ \A m \in Logs : m # l => file'[m] = file[m]
  BY <1>3
<1>5. Readable(kept)
  BY <1>2 DEF Readable, Parses
<1>6. file' \in [Logs -> Seq(Line)]
  BY <1>2, <1>3
<1> QED
  BY <1>2, <1>4, <1>5, <1>6

\* On such a disk a log is cut or grows by one line.
LEMMA HealthyWrite ==
  ASSUME TypeOK, Whole, NEW l \in Logs, NEW e \in Envelope, NEW how,
         how \in {"none", "part", "full"}, written(l, e, how)
  PROVE  /\ how = "none" => /\ Cuts(l) /\ Readable(file'[l])
                            /\ nl' = [nl EXCEPT ![l] = TRUE]
         /\ how = "part" => /\ Puts(l, Torn) /\ ~Readable(file'[l])
                            /\ nl' = [nl EXCEPT ![l] = FALSE]
         /\ how = "full" => /\ Puts(l, e) /\ Readable(file'[l])
                            /\ nl' = [nl EXCEPT ![l] = TRUE]
<1> DEFINE n == ValidLen(file[l])
<1>1. /\ file \in [Logs -> Seq(Line)] /\ nl \in [Logs -> BOOLEAN]
      /\ file[l] \in Seq(Line) /\ e \in Line /\ e # Torn /\ Torn \in Line
  BY TornAssumption DEF TypeOK, Line
<1>2. n \in 0..Len(file[l]) /\ IsValidLen(file[l], n) /\ Len(file[l]) \in Nat
  BY <1>1, ValidLenProperties, LenProperties
<1>3. opened(l) = Recorded(file[l])
  BY <1>1, RecordedWhole DEF opened, Whole
<1>4. terminated(l) = TRUE
  <2>1. CASE nl[l]
    BY <2>1 DEF terminated
  <2>2. CASE ~nl[l]
    <3>1. ~Readable(file[l]) /\ rec[l] = None
      BY <2>2 DEF Whole
    <3>2. n < Len(file[l])
      <4>1. n # Len(file[l])
        BY <1>2, <3>1 DEF IsValidLen, Readable
      <4> QED
        BY <1>2, <4>1
    <3> QED
      BY <3>1, <3>2 DEF terminated
  <2> QED
    BY <2>1, <2>2
<1>5. CASE how = "none"
  <2>1. Cuts(l) /\ nl' = [nl EXCEPT ![l] = TRUE]
    BY <1>3, <1>4, <1>5 DEF written, Cuts
  <2> QED
    BY <1>1, <1>5, <2>1, CutLines
<1>6. CASE how = "part"
  <2>1. Puts(l, Torn) /\ nl' = [nl EXCEPT ![l] = FALSE]
    BY <1>3, <1>4, <1>6 DEF written, Puts
  <2>2. Len(file'[l]) = n + 1 /\ file'[l][n + 1] = Torn
    BY <1>1, <2>1, PutLines
  <2>3. ~Readable(file'[l])
    BY <1>2, <2>2 DEF Readable, Parses
  <2> QED
    BY <1>6, <2>1, <2>3
<1>7. CASE how = "full"
  <2>1. Puts(l, e) /\ nl' = [nl EXCEPT ![l] = TRUE]
    BY <1>3, <1>4, <1>7 DEF written, Puts
  <2>2. /\ Len(file'[l]) = n + 1 /\ file'[l][n + 1] = e /\ Parses(file[l], n)
        /\ \A k \in 1..n : file'[l][k] = file[l][k]
    BY <1>1, <2>1, PutLines
  <2>3. Readable(file'[l])
    BY <1>1, <1>2, <2>2 DEF Readable, Parses
  <2> QED
    BY <1>7, <2>1, <2>3
<1> QED
  BY <1>5, <1>6, <1>7

\* What a step does to the disk and the cache: nothing, an append by the
\* application or the repair, or a crash.
LEMMA StepKinds ==
  ASSUME Typed, [Next]_vars
  PROVE  \/ UNCHANGED <<file, nl, rec>>
         \/ \E l \in Logs, c \in Contents, key \in {AppKey, NoKey} :
              append(l, c, key) \/ append_raises(l, c, key)
         \/ Crash
<1>1. CASE Boot \/ Sweep \/ Scan \/ Scanned \/ Check \/ Return \/ UNCHANGED vars
  BY <1>1 DEF Boot, Sweep, Scan, Scanned, Check, Return, vars, disk
<1>2. ASSUME NEW l \in Logs,
             \/ StartRun(l) \/ LoseStart(l) \/ StepRun(l) \/ EndRun(l) \/ LoseEvent(l)
      PROVE  \E c \in Contents : append(l, c, AppKey) \/ append_raises(l, c, AppKey)
  BY <1>2, RunAppends
<1>3. CASE Interrupt \/ InterruptRaises
  <2>1. /\ todo # <<>>
        /\ \/ append(Head(todo), Interrupted, NoKey)
           \/ append_raises(Head(todo), Interrupted, NoKey)
    BY <1>3 DEF Interrupt, InterruptRaises, Typed, InHand
  <2>2. Head(todo) \in Logs
    BY <2>1, HeadTodo DEF Typed
  <2> QED
    BY <2>1, <2>2, Constants
<1> QED
  BY <1>1, <1>2, <1>3 DEF Next

\* A write keeps every log but its own.
LEMMA WholeElsewhere ==
  ASSUME TypeOK, Whole, NEW l \in Logs,
         NEW ls, file' = [file EXCEPT ![l] = ls],
         NEW b \in BOOLEAN, nl' = [nl EXCEPT ![l] = b],
         \A m \in Logs : m # l => rec'[m] \in {rec[m], None},
         b \/ ~Readable(file'[l]),
         rec'[l] # None => Readable(file'[l])
  PROVE  Whole'
<1>1. file \in [Logs -> Seq(Line)] /\ nl \in [Logs -> BOOLEAN]
  BY DEF TypeOK
<1>2. nl'[l] = b /\ \A m \in Logs : m # l => file'[m] = file[m] /\ nl'[m] = nl[m]
  BY <1>1
<1> QED
  BY <1>2 DEF Whole

LEMMA WholeNext == HealthyTears /\ Typed /\ Whole /\ [Next]_vars => Whole'
<1> SUFFICES ASSUME HealthyTears, Typed, Whole, [Next]_vars PROVE Whole'
  OBVIOUS
<1> USE DEF Typed
<1>1. CASE UNCHANGED <<file, nl, rec>>
  BY <1>1 DEF Whole
<1>2. ASSUME NEW l \in Logs, NEW c \in Contents, NEW key \in {AppKey, NoKey},
             append(l, c, key)
      PROVE  Whole'
  <2>1. key \in Keys /\ rec \in [Logs -> Recorders \cup {None}]
    BY Constants DEF TypeOK
  <2>2. PICK e \in Envelope, next \in Recorders :
          written(l, e, "full") /\ rec' = [rec EXCEPT ![l] = next]
    BY <1>2, <2>1, AppendStep
  <2>3. Puts(l, e) /\ Readable(file'[l]) /\ nl' = [nl EXCEPT ![l] = TRUE]
    BY <2>2, HealthyWrite
  <2> QED
    BY <2>1, <2>2, <2>3, WholeElsewhere DEF Puts
<1>3. ASSUME NEW l \in Logs, NEW c \in Contents, NEW key \in {AppKey, NoKey},
             append_raises(l, c, key)
      PROVE  Whole'
  <2>1. key \in Keys /\ rec \in [Logs -> Recorders \cup {None}]
    BY Constants DEF TypeOK
  <2>2. next_envelope(l, c, key) \in Envelope
    BY <2>1, NextEnvelope
  <2>3. /\ written(l, next_envelope(l, c, key), "none")
        /\ rec' = [rec EXCEPT ![l] = recorder_for(l, key)]
    BY <1>3 DEF append_raises, HealthyTears
  <2>4. Cuts(l) /\ Readable(file'[l]) /\ nl' = [nl EXCEPT ![l] = TRUE]
    BY <2>2, <2>3, HealthyWrite
  <2> QED
    BY <2>1, <2>3, <2>4, WholeElsewhere DEF Cuts
<1>4. CASE Crash
  <2>1. rec' = [l \in Logs |-> None]
    BY <1>4 DEF Crash
  <2>2. CASE UNCHANGED disk
    BY <2>1, <2>2 DEF Whole, disk
  <2>3. CASE ~UNCHANGED disk
    <3>1. PICK l \in Logs, how \in CrashTears : \E c \in InFlight(l), key \in Keys :
            c \in Contents /\ written(l, next_envelope(l, c, key), how)
      BY <1>4, <2>3, CrashWrites
    <3>2. PICK e \in Envelope : written(l, e, how)
      BY <3>1, NextEnvelope
    <3>3. how \in {"none", "part", "full"}
      BY DEF HealthyTears
    <3>4. CASE how = "none"
      <4>1. Cuts(l) /\ Readable(file'[l]) /\ nl' = [nl EXCEPT ![l] = TRUE]
        BY <3>2, <3>4, HealthyWrite
      <4>2. file' = [file EXCEPT ![l] = Recorded(file[l])]
        BY <4>1 DEF Cuts, Puts
      <4> QED
        BY <2>1, <4>1, <4>2, WholeElsewhere
    <3>5. CASE how = "part"
      <4>1. Puts(l, Torn) /\ ~Readable(file'[l]) /\ nl' = [nl EXCEPT ![l] = FALSE]
        BY <3>2, <3>5, HealthyWrite
      <4>2. file' = [file EXCEPT ![l] = Append(Recorded(file[l]), Torn)]
        BY <4>1 DEF Cuts, Puts
      <4> QED
        BY <2>1, <4>1, <4>2, WholeElsewhere
    <3>6. CASE how = "full"
      <4>1. Puts(l, e) /\ Readable(file'[l]) /\ nl' = [nl EXCEPT ![l] = TRUE]
        BY <3>2, <3>6, HealthyWrite
      <4>2. file' = [file EXCEPT ![l] = Append(Recorded(file[l]), e)]
        BY <4>1 DEF Cuts, Puts
      <4> QED
        BY <2>1, <4>1, <4>2, WholeElsewhere
    <3> QED
      BY <3>3, <3>4, <3>5, <3>6
  <2> QED
    BY <2>2, <2>3
<1> QED
  BY <1>1, <1>2, <1>3, <1>4, StepKinds

LEMMA WholeAlways == ASSUME HealthyTears PROVE Spec => []Whole
<1>1. Init => Whole
  BY EmptySeq DEF Init, Whole, Readable, Parses
<1>2. Typed /\ Whole /\ [Next]_vars => Whole'
  BY WholeNext
<1> QED
  BY <1>1, <1>2, TypedAlways, PTL DEF Spec

-----------------------------------------------------------------------------
(***************************************************************************)
(* The chain.  Every log is linked up to its first unreadable line, and a  *)
(* cached recorder holds the head of a log that parses.  A sweep must use  *)
(* the key of the application: RepairKeepsChain fails without that.        *)
(***************************************************************************)
SameKey == NoKey = AppKey

\* r stands behind the n-th line of ls.
AtHead(r, ls, n) ==
  r.next_seq = n /\ r.prev = head_id(ls, n) /\ r.key = AppKey

Chained ==
  \A l \in Logs :
    /\ Linked(file[l], AppKey)
    /\ rec[l] # None => AtHead(rec[l], file[l], Len(file[l]))

\* Cached or resumed, a recorder stands behind the last line on record.
LEMMA RecorderAtHead ==
  ASSUME Typed, Whole, Chained, NEW l \in Logs
  PROVE  AtHead(recorder_for(l, AppKey), file[l], ValidLen(file[l]))
<1> DEFINE n == ValidLen(file[l])
<1>1. file[l] \in Seq(Line)
  BY DEF Typed, TypeOK
<1>2. n \in 0..Len(file[l]) /\ Parses(file[l], n) /\ Len(file[l]) \in Nat
  BY <1>1, ValidLenProperties, LenProperties DEF IsValidLen
<1>3. CASE rec[l] # None
  <2>1. n = Len(file[l]) /\ AtHead(rec[l], file[l], Len(file[l]))
    BY <1>1, <1>3, ReadableValidLen DEF Chained, Whole
  <2> QED
    BY <1>3, <2>1 DEF recorder_for
<1>4. CASE rec[l] = None
  <2>1. recorder_for(l, AppKey) =
          [next_seq |-> IF n = 0 THEN 0 ELSE file[l][n].seq + 1,
           prev |-> head_id(file[l], n), key |-> AppKey]
    BY <1>4 DEF recorder_for, resumed
  <2> HIDE DEF n
  <2>2. n # 0 => file[l][n].seq = n - 1
    BY <1>2 DEF Chained, Linked
  <2>3. (IF n = 0 THEN 0 ELSE file[l][n].seq + 1) = n
    BY <1>2, <2>2
  <2> QED
    BY <2>1, <2>3 DEF AtHead, n
<1> QED
  BY <1>3, <1>4

\* The envelope of that recorder continues the chain.
LEMMA PutChained ==
  ASSUME Typed, Whole, Chained, NEW l \in Logs, NEW c \in Contents,
         NEW r \in Recorders, r = recorder_for(l, AppKey),
         NEW e \in Envelope, e = checked_envelope(r.next_seq, c, r.prev, r.key),
         Puts(l, e)
  PROVE  /\ \A m \in Logs : Linked(file'[m], AppKey)
         /\ Len(file'[l]) = r.next_seq + 1
         /\ head_id(file'[l], r.next_seq + 1) = e.id
         /\ r.key = AppKey
<1> DEFINE n == ValidLen(file[l])
           kept == Recorded(file[l])
<1>1. file[l] \in Seq(Line) /\ TypeOK
  BY DEF Typed, TypeOK
<1>2. /\ n \in 0..Len(file[l]) /\ Parses(file[l], n) /\ Len(file[l]) \in Nat
      /\ kept \in Seq(Line) /\ Len(kept) = n
      /\ \A k \in 1..n : kept[k] = file[l][k]
  BY <1>1, RecordedLines
<1>3. AtHead(r, file[l], n)
  BY RecorderAtHead
<1>4. file' = [file EXCEPT ![l] = Append(kept, e)]
  BY DEF Puts
<1>5. file'[l] = Append(kept, e) /\ \A m \in Logs : m # l => file'[m] = file[m]
  BY <1>1, <1>4 DEF TypeOK
<1> HIDE DEF kept, n
<1>6. Readable(kept) /\ head_id(kept, n) = head_id(file[l], n)
  BY <1>2 DEF Readable, Parses, head_id
<1>7. Linked(kept, AppKey)
  BY <1>1, <1>2, LinkedAgree DEF Chained
<1>8. e = checked_envelope(Len(kept), c, head_id(kept, Len(kept)), AppKey)
  BY <1>2, <1>3, <1>6 DEF AtHead
<1>9. /\ Linked(file'[l], AppKey) /\ Len(file'[l]) = n + 1 /\ file'[l][n + 1] = e
  BY <1>2, <1>5, <1>6, <1>7, <1>8, LinkedAppend
<1>10. head_id(file'[l], n + 1) = e.id
  BY <1>2, <1>9 DEF head_id
<1> QED
  BY <1>3, <1>5, <1>9, <1>10 DEF AtHead, Chained

\* Fewer lines of a log, or the same and a torn one, are still a chain.
LEMMA LessChained ==
  ASSUME Typed, Chained, NEW l \in Logs, Cuts(l) \/ Puts(l, Torn)
  PROVE  \A m \in Logs : Linked(file'[m], AppKey)
<1> DEFINE n == ValidLen(file[l])
<1>1. file \in [Logs -> Seq(Line)] /\ Torn \in Line
  BY DEF Typed, TypeOK, Line
<1>2. /\ n \in 0..Len(file[l])
      /\ file' \in [Logs -> Seq(Line)]
      /\ \A k \in 1..n : file'[l][k] = file[l][k]
      /\ \A m \in Logs : m # l => file'[m] = file[m]
      /\ \/ Len(file'[l]) = n
         \/ Len(file'[l]) = n + 1 /\ file'[l][n + 1] = Torn
  <2>1. CASE Cuts(l)
    BY <1>1, <2>1, CutLines
  <2>2. CASE Puts(l, Torn)
    BY <1>1, <2>2, PutLines
  <2> QED
    BY <2>1, <2>2
<1>3. file[l] \in Seq(Line) /\ Len(file[l]) \in Nat
  BY <1>1, LenProperties
<1> HIDE DEF n
<1>4. ASSUME NEW k \in 1..Len(file'[l]), Parses(file'[l], k)
      PROVE  k <= Len(file[l]) /\ \A j \in 1..k : file'[l][j] = file[l][j]
  BY <1>2, <1>3, <1>4 DEF Parses
<1>5. Linked(file'[l], AppKey)
  BY <1>2, <1>3, <1>4, LinkedAgree DEF Chained
<1> QED
  BY <1>2, <1>5 DEF Chained

LEMMA ChainedAppend ==
  ASSUME Typed, Whole, Chained, NEW l \in Logs, NEW c \in Contents,
         append(l, c, AppKey)
  PROVE  Chained'
<1>1. TypeOK /\ AppKey \in Keys
  BY Constants DEF Typed
<1>2. PICK r \in Recorders, e \in Envelope, next \in Recorders :
        /\ r = recorder_for(l, AppKey)
        /\ e = checked_envelope(r.next_seq, c, r.prev, r.key)
        /\ written(l, e, "full")
        /\ next.next_seq = r.next_seq + 1 /\ next.prev = e.id /\ next.key = r.key
        /\ rec' = [rec EXCEPT ![l] = next]
  BY <1>1, AppendStep
<1>3. Puts(l, e)
  BY <1>1, <1>2, HealthyWrite
<1>4. /\ \A m \in Logs : Linked(file'[m], AppKey)
      /\ Len(file'[l]) = r.next_seq + 1
      /\ head_id(file'[l], r.next_seq + 1) = e.id
      /\ r.key = AppKey
  BY <1>2, <1>3, PutChained
<1>5. AtHead(next, file'[l], Len(file'[l]))
  BY <1>2, <1>4 DEF AtHead
<1>6. /\ rec'[l] = next
      /\ \A m \in Logs : m # l => file'[m] = file[m] /\ rec'[m] = rec[m]
  BY <1>1, <1>2, <1>3 DEF TypeOK, Puts
<1> QED
  BY <1>4, <1>5, <1>6 DEF Chained

LEMMA ChainedRaises ==
  ASSUME HealthyTears, Typed, Whole, Chained, NEW l \in Logs, NEW c \in Contents,
         append_raises(l, c, AppKey)
  PROVE  Chained'
<1> DEFINE r == recorder_for(l, AppKey)
           n == ValidLen(file[l])
<1>1. TypeOK /\ AppKey \in Keys /\ file \in [Logs -> Seq(Line)]
  BY Constants DEF Typed, TypeOK
<1>2. next_envelope(l, c, AppKey) \in Envelope
  BY <1>1, NextEnvelope
<1>3. written(l, next_envelope(l, c, AppKey), "none") /\ rec' = [rec EXCEPT ![l] = r]
  BY DEF append_raises, HealthyTears
<1>4. Cuts(l)
  BY <1>1, <1>2, <1>3, HealthyWrite
<1>5. /\ n \in 0..Len(file[l]) /\ Len(file'[l]) = n
      /\ \A k \in 1..n : file'[l][k] = file[l][k]
      /\ \A m \in Logs : m # l => file'[m] = file[m]
  BY <1>1, <1>4, CutLines
<1>6. Len(file[l]) \in Nat
  BY <1>1, LenProperties
<1>7. AtHead(r, file[l], n)
  BY RecorderAtHead
<1>8. \A m \in Logs : Linked(file'[m], AppKey)
  BY <1>4, LessChained
<1> HIDE DEF n, r
<1>9. AtHead(r, file'[l], Len(file'[l]))
  BY <1>5, <1>6, <1>7 DEF AtHead, head_id
<1>10. rec'[l] = r /\ \A m \in Logs : m # l => rec'[m] = rec[m]
  BY <1>1, <1>3 DEF TypeOK
<1> QED
  BY <1>5, <1>8, <1>9, <1>10 DEF Chained

LEMMA ChainedCrash ==
  ASSUME SameKey, HealthyTears, Typed, Whole, Chained, Crash
  PROVE  Chained'
<1> USE DEF Typed
<1>1. rec' = [l \in Logs |-> None] /\ AppKey \in Keys
  BY Constants DEF Crash
<1>2. CASE UNCHANGED disk
  BY <1>1, <1>2 DEF Chained, disk
<1>3. CASE ~UNCHANGED disk
  <2>1. PICK l \in Logs, how \in CrashTears : \E c \in InFlight(l), key \in Keys :
          /\ c \in Contents
          /\ key = IF c = Interrupted THEN NoKey ELSE AppKey
          /\ written(l, next_envelope(l, c, key), how)
    BY <1>3, CrashWrites
  <2>2. PICK c \in Contents : written(l, next_envelope(l, c, AppKey), how)
    BY <2>1 DEF SameKey
  <2> DEFINE r == recorder_for(l, AppKey)
             e == next_envelope(l, c, AppKey)
  <2>3. r \in Recorders /\ e \in Envelope
    BY <1>1, RecorderType, NextEnvelope
  <2>4. e = checked_envelope(r.next_seq, c, r.prev, r.key)
    BY DEF next_envelope
  <2>5. r = recorder_for(l, AppKey) /\ written(l, e, how)
    BY <2>2
  <2>6. how \in {"none", "part", "full"}
    BY DEF HealthyTears
  <2> HIDE DEF r, e
  <2>7. Cuts(l) \/ Puts(l, Torn) \/ Puts(l, e)
    BY <2>3, <2>5, <2>6, HealthyWrite
  <2>8. \A m \in Logs : Linked(file'[m], AppKey)
    BY <2>3, <2>4, <2>5, <2>7, PutChained, LessChained
  <2> QED
    BY <1>1, <2>8 DEF Chained
<1> QED
  BY <1>2, <1>3

\* "appended through the recorder, so the hash chain stays intact": with the
\* application's key, whatever runs, crashes, failed appends and sweeps came
\* before, and also where runs and sweeps overlap, a log that this process
\* opened verifies, its interrupted run/end included.
THEOREM ChainKept == ASSUME SameKey, HealthyTears PROVE Spec => []RepairKeepsChain
<1>1. Init => Chained
  <2>1. Len(<<>>) = 0
    BY EmptySeq
  <2> QED
    BY <2>1 DEF Init, Chained, Linked
<1>2. Typed /\ Whole /\ Chained /\ [Next]_vars => Chained'
  <2> SUFFICES ASSUME Typed, Whole, Chained, [Next]_vars PROVE Chained'
    OBVIOUS
  <2>1. CASE UNCHANGED <<file, nl, rec>>
    BY <2>1 DEF Chained
  <2>2. ASSUME NEW l \in Logs, NEW c \in Contents, NEW key \in {AppKey, NoKey},
               append(l, c, key) \/ append_raises(l, c, key)
        PROVE  Chained'
    <3>1. key = AppKey
      BY DEF SameKey
    <3> QED
      BY <2>2, <3>1, ChainedAppend, ChainedRaises
  <2>3. CASE Crash
    BY <2>3, ChainedCrash
  <2> QED
    BY <2>1, <2>2, <2>3, StepKinds
<1>3. Typed /\ Whole /\ Chained => RepairKeepsChain
  BY ReadableLinkedOK DEF Typed, TypeOK, Whole, Chained, RepairKeepsChain
<1> QED
  BY <1>1, <1>2, <1>3, TypedAlways, WholeAlways, PTL DEF Spec

-----------------------------------------------------------------------------
(***************************************************************************)
(* Open and closed runs.                                                   *)
(***************************************************************************)
\* After the first n lines of ls a run is open.
OpenTo(ls, n) ==
  \E k \in 1..n :
    /\ ls[k].content = RunStart
    /\ \A m \in k..n : ls[m].content \notin {RunEnd, Interrupted}

\* What is on record in log l leaves a run open.
Open(l) == OpenTo(file[l], ValidLen(file[l]))

\* Every interrupted run/end of log l closes a run.
Closes(l) ==
  \A k \in 1..Len(file[l]) :
    file[l][k] # Torn /\ file[l][k].content = Interrupted =>
      OpenTo(file[l], k - 1)

\* Three values are at most three.
LEMMA AtMostThree ==
  ASSUME NEW a, NEW b, NEW c
  PROVE  Cardinality({a, b, c}) # 4
<1> DEFINE two == {b, c}
<1>1. IsFiniteSet({c}) /\ Cardinality({c}) = 1
  BY FS_Singleton
<1>2. IsFiniteSet(two) /\ Cardinality(two) \in Nat /\ Cardinality(two) <= 2
  <2>1. /\ IsFiniteSet({c} \cup {b})
        /\ Cardinality({c} \cup {b}) = IF b \in {c} THEN 1 ELSE 2
    BY <1>1, FS_AddElement
  <2>2. two = {c} \cup {b}
    OBVIOUS
  <2> QED
    BY <2>1, <2>2
<1>3. Cardinality(two \cup {a}) \in {Cardinality(two), Cardinality(two) + 1}
  BY <1>2, FS_AddElement
<1>4. {a, b, c} = two \cup {a}
  OBVIOUS
<1> QED
  BY <1>2, <1>3, <1>4

\* The contents of the brackets differ.
LEMMA Distinct ==
  /\ RunStart # RunEnd /\ RunStart # Interrupted
  /\ Step # RunEnd /\ Step # Interrupted /\ RunEnd # Interrupted
<1>1. Cardinality({RunStart, Step, RunEnd, Interrupted}) = 4
  BY RootAssumption
<1>2. ASSUME RunStart = RunEnd PROVE FALSE
  <2>1. {RunStart, Step, RunEnd, Interrupted} = {Step, RunEnd, Interrupted}
    BY <1>2
  <2> QED
    BY <1>1, <2>1, AtMostThree
<1>3. ASSUME RunStart = Interrupted PROVE FALSE
  <2>1. {RunStart, Step, RunEnd, Interrupted} = {Step, RunEnd, Interrupted}
    BY <1>3
  <2> QED
    BY <1>1, <2>1, AtMostThree
<1>4. ASSUME Step = RunEnd PROVE FALSE
  <2>1. {RunStart, Step, RunEnd, Interrupted} = {RunStart, RunEnd, Interrupted}
    BY <1>4
  <2> QED
    BY <1>1, <2>1, AtMostThree
<1>5. ASSUME Step = Interrupted PROVE FALSE
  <2>1. {RunStart, Step, RunEnd, Interrupted} = {RunStart, RunEnd, Interrupted}
    BY <1>5
  <2> QED
    BY <1>1, <2>1, AtMostThree
<1>6. ASSUME RunEnd = Interrupted PROVE FALSE
  <2>1. {RunStart, Step, RunEnd, Interrupted} = {RunStart, Step, Interrupted}
    BY <1>6
  <2> QED
    BY <1>1, <2>1, AtMostThree
<1> QED
  BY <1>2, <1>3, <1>4, <1>5, <1>6

\* _last_bracket calls a log open exactly when a run was started and not ended.
LEMMA BracketsTell ==
  ASSUME NEW ls \in Seq(Line)
  PROVE  last_bracket(ls) = "open" <=> OpenTo(ls, Len(ls))
<1> DEFINE brackets == {k \in 1..Len(ls) :
                          ls[k].content \in {RunStart, RunEnd, Interrupted}}
<1>1. Len(ls) \in Nat
  BY LenProperties
<1>2. CASE brackets = {}
  <2>1. last_bracket(ls) = "empty"
    BY <1>2 DEF last_bracket
  <2>2. ~OpenTo(ls, Len(ls))
    BY <1>2 DEF OpenTo
  <2> QED
    BY <2>1, <2>2
<1>3. CASE brackets # {}
  <2>1. PICK top \in brackets : \A k \in brackets : k <= top
    <3>1. brackets \in SUBSET (0..Len(ls))
      BY <1>1
    <3> HIDE DEF brackets
    <3> QED
      BY <1>1, <1>3, <3>1, HasMaximum
  <2> DEFINE last == Max(brackets)
  <2>2. last \in brackets /\ \A k \in brackets : k <= last
    <3>1. top \in brackets /\ \A k \in brackets : top >= k
      BY <1>1, <2>1
    <3>2. last \in brackets /\ \A k \in brackets : last >= k
      BY <3>1 DEF Max
    <3> QED
      BY <1>1, <3>2
  <2>3. last_bracket(ls) = IF ls[last].content = RunStart THEN "open" ELSE "closed"
    BY <1>3 DEF last_bracket
  <2> HIDE DEF last
  <2>4. last \in 1..Len(ls)
    BY <2>2
  <2>5. ASSUME ls[last].content = RunStart PROVE OpenTo(ls, Len(ls))
    <3>1. \A m \in last..Len(ls) : ls[m].content \notin {RunEnd, Interrupted}
      <4> SUFFICES ASSUME NEW m \in last..Len(ls),
                          ls[m].content \in {RunEnd, Interrupted}
                   PROVE  FALSE
        OBVIOUS
      <4>1. m \in brackets
        BY <1>1, <2>4
      <4>2. m = last
        BY <1>1, <2>2, <2>4, <4>1
      <4> QED
        BY <2>5, <4>2, Distinct
    <3> QED
      BY <2>4, <2>5, <3>1 DEF OpenTo
  <2>6. ASSUME OpenTo(ls, Len(ls)) PROVE ls[last].content = RunStart
    <3>1. PICK k \in 1..Len(ls) :
            /\ ls[k].content = RunStart
            /\ \A m \in k..Len(ls) : ls[m].content \notin {RunEnd, Interrupted}
      BY <2>6 DEF OpenTo
    <3>2. k <= last
      BY <2>2, <3>1
    <3>3. ls[last].content \notin {RunEnd, Interrupted}
      BY <1>1, <2>4, <3>1, <3>2
    <3> QED
      BY <2>2, <3>3
  <2> QED
    BY <2>3, <2>5, <2>6
<1> QED
  BY <1>2, <1>3

\* RunOpen, of a whole log and of its beginning.
LEMMA OpenSubSeq ==
  ASSUME NEW ls \in Seq(Line), NEW n \in 0..Len(ls)
  PROVE  /\ RunOpen(SubSeq(ls, 1, n)) <=> OpenTo(ls, n)
         /\ RunOpen(ls) <=> OpenTo(ls, Len(ls))
<1> DEFINE s == SubSeq(ls, 1, n)
<1>1. Len(ls) \in Nat /\ n \in Int /\ 1 \in Int
  BY LenProperties
<1>2. \A k \in 1..n : ls[k] \in Line
  BY <1>1, ElementOfSeq
<1>3. s \in Seq(Line) /\ Len(s) = n /\ \A k \in 1..n : s[k] = ls[k]
  BY <1>1, <1>2, SubSeqProperties
<1> HIDE DEF s
<1>4. RunOpen(s) <=> OpenTo(ls, n)
  BY <1>1, <1>3 DEF RunOpen, OpenTo
<1>5. RunOpen(ls) <=> OpenTo(ls, Len(ls))
  BY DEF RunOpen, OpenTo
<1> QED
  BY <1>4, <1>5 DEF s

LEMMA OpenAgree ==
  ASSUME NEW ls, NEW ms, NEW n \in Nat, \A k \in 1..n : ms[k] = ls[k]
  PROVE  OpenTo(ms, n) <=> OpenTo(ls, n)
  BY DEF OpenTo

\* What an event on log l does to the runs on record there.
LEMMA EventWritten ==
  ASSUME TypeOK, NEW l \in Logs, NEW x \in Envelope, Puts(l, x)
  PROVE  /\ Readable(file'[l])
         /\ Open(l)' <=> \/ x.content = RunStart
                         \/ Open(l) /\ x.content \notin {RunEnd, Interrupted}
         /\ Closes(l) /\ (x.content = Interrupted => Open(l)) => Closes(l)'
         /\ \A m \in Logs : m # l => file'[m] = file[m]
<1> DEFINE n == ValidLen(file[l])
           ls == file[l]
           ms == file'[l]
<1>1. x \in Line /\ x # Torn
  BY TornAssumption DEF Line
<1>2. /\ n \in 0..Len(ls) /\ Parses(ls, n)
      /\ ms \in Seq(Line) /\ Len(ms) = n + 1
      /\ \A k \in 1..n : ms[k] = ls[k]
      /\ ms[n + 1] = x
      /\ \A m \in Logs : m # l => file'[m] = file[m]
  BY <1>1, PutLines DEF TypeOK
<1>3. Len(ls) \in Nat /\ n \in Nat
  BY <1>2, LenProperties DEF TypeOK
<1>4. Open(l) <=> OpenTo(ls, n)
  BY DEF Open
<1>5. Open(l)' <=> OpenTo(ms, ValidLen(ms))
  BY DEF Open
<1>6. Closes(l) <=>
        \A k \in 1..Len(ls) :
          ls[k] # Torn /\ ls[k].content = Interrupted => OpenTo(ls, k - 1)
  BY DEF Closes
<1>7. Closes(l)' <=>
        \A k \in 1..Len(ms) :
          ms[k] # Torn /\ ms[k].content = Interrupted => OpenTo(ms, k - 1)
  BY DEF Closes
<1> HIDE DEF n, ls, ms
<1>8. Readable(ms)
  BY <1>1, <1>2, <1>3 DEF Readable, Parses
<1>9. ValidLen(ms) = n + 1
  BY <1>2, <1>8, ReadableValidLen
<1>10. OpenTo(ms, n + 1) <=> \/ x.content = RunStart
                             \/ OpenTo(ls, n) /\ x.content \notin {RunEnd, Interrupted}
  <2>1. ASSUME x.content = RunStart PROVE OpenTo(ms, n + 1)
    <3>1. \A m \in (n + 1)..(n + 1) : ms[m].content \notin {RunEnd, Interrupted}
      BY <1>2, <1>3, <2>1, Distinct
    <3> QED
      BY <1>2, <1>3, <2>1, <3>1 DEF OpenTo
  <2>2. ASSUME OpenTo(ls, n), x.content \notin {RunEnd, Interrupted}
        PROVE  OpenTo(ms, n + 1)
    <3>1. PICK k \in 1..n :
            /\ ls[k].content = RunStart
            /\ \A m \in k..n : ls[m].content \notin {RunEnd, Interrupted}
      BY <2>2 DEF OpenTo
    <3>2. ASSUME NEW m \in k..(n + 1)
          PROVE  ms[m].content \notin {RunEnd, Interrupted}
      <4>1. CASE m = n + 1
        BY <1>2, <2>2, <4>1
      <4>2. CASE m # n + 1
        <5>1. m \in k..n /\ m \in 1..n
          BY <1>3, <3>1, <4>2
        <5> QED
          BY <1>2, <3>1, <5>1
      <4> QED
        BY <4>1, <4>2
    <3> QED
      BY <1>2, <1>3, <3>1, <3>2 DEF OpenTo
  <2>3. ASSUME OpenTo(ms, n + 1), x.content # RunStart
        PROVE  OpenTo(ls, n) /\ x.content \notin {RunEnd, Interrupted}
    <3>1. PICK k \in 1..(n + 1) :
            /\ ms[k].content = RunStart
            /\ \A m \in k..(n + 1) : ms[m].content \notin {RunEnd, Interrupted}
      BY <2>3 DEF OpenTo
    <3>2. k \in 1..n
      BY <1>2, <1>3, <2>3, <3>1
    <3> QED
      BY <1>2, <1>3, <3>1, <3>2 DEF OpenTo
  <2> QED
    BY <2>1, <2>2, <2>3
<1>11. ASSUME Closes(l), x.content = Interrupted => Open(l), NEW k \in 1..Len(ms),
              ms[k] # Torn, ms[k].content = Interrupted
       PROVE  OpenTo(ms, k - 1)
  <2>1. OpenTo(ls, k - 1)
    <3>1. CASE k = n + 1
      BY <1>2, <1>3, <1>4, <1>11, <3>1
    <3>2. CASE k # n + 1
      BY <1>2, <1>3, <1>6, <1>11, <3>2
    <3> QED
      BY <3>1, <3>2
  <2>2. k - 1 \in Nat /\ \A j \in 1..(k - 1) : ms[j] = ls[j]
    BY <1>2, <1>3
  <2> QED
    BY <2>1, <2>2, OpenAgree
<1>12. Closes(l) /\ (x.content = Interrupted => Open(l)) => Closes(l)'
  BY <1>7, <1>11
<1>13. Open(l)' <=> \/ x.content = RunStart
                    \/ Open(l) /\ x.content \notin {RunEnd, Interrupted}
  BY <1>4, <1>5, <1>9, <1>10
<1> QED
  BY <1>2, <1>8, <1>12, <1>13 DEF ms

\* A cut and a torn line change nothing on record.
LEMMA LessWritten ==
  ASSUME TypeOK, NEW l \in Logs, Cuts(l) \/ Puts(l, Torn)
  PROVE  /\ Open(l)' <=> Open(l)
         /\ Closes(l) => Closes(l)'
         /\ \A m \in Logs : m # l => file'[m] = file[m]
<1> DEFINE n == ValidLen(file[l])
           ls == file[l]
           ms == file'[l]
<1>1. /\ n \in 0..Len(ls) /\ Parses(ls, n)
      /\ ms \in Seq(Line)
      /\ \A k \in 1..n : ms[k] = ls[k]
      /\ \A m \in Logs : m # l => file'[m] = file[m]
      /\ \/ Len(ms) = n
         \/ Len(ms) = n + 1 /\ ms[n + 1] = Torn
  <2>1. file \in [Logs -> Seq(Line)] /\ Torn \in Line
    BY DEF TypeOK, Line
  <2>2. CASE Cuts(l)
    BY <2>1, <2>2, CutLines
  <2>3. CASE Puts(l, Torn)
    BY <2>1, <2>3, PutLines
  <2> QED
    BY <2>2, <2>3
<1>2. Len(ls) \in Nat /\ n \in Nat
  BY <1>1, LenProperties DEF TypeOK
<1>3. Open(l) <=> OpenTo(ls, n)
  BY DEF Open
<1>4. Open(l)' <=> OpenTo(ms, ValidLen(ms))
  BY DEF Open
<1>5. Closes(l) <=>
        \A k \in 1..Len(ls) :
          ls[k] # Torn /\ ls[k].content = Interrupted => OpenTo(ls, k - 1)
  BY DEF Closes
<1>6. Closes(l)' <=>
        \A k \in 1..Len(ms) :
          ms[k] # Torn /\ ms[k].content = Interrupted => OpenTo(ms, k - 1)
  BY DEF Closes
<1> HIDE DEF n, ls, ms
<1>7. n \in 0..Len(ms) /\ IsValidLen(ms, n)
  BY <1>1, <1>2 DEF IsValidLen, Parses
<1>8. ValidLen(ms) = n
  BY <1>1, <1>7, ValidLenUnique
<1>9. \A k \in 0..n : OpenTo(ms, k) <=> OpenTo(ls, k)
  <2> SUFFICES ASSUME NEW k \in 0..n PROVE OpenTo(ms, k) <=> OpenTo(ls, k)
    OBVIOUS
  <2>1. k \in Nat /\ \A j \in 1..k : ms[j] = ls[j]
    BY <1>1, <1>2
  <2> QED
    BY <2>1, OpenAgree
<1>10. ASSUME Closes(l), NEW k \in 1..Len(ms),
              ms[k] # Torn, ms[k].content = Interrupted
       PROVE  OpenTo(ms, k - 1)
  <2>1. k \in 1..n /\ k \in 1..Len(ls) /\ k - 1 \in 0..n /\ ms[k] = ls[k]
    BY <1>1, <1>2, <1>10
  <2> QED
    BY <1>5, <1>9, <1>10, <2>1
<1>11. n \in 0..n
  BY <1>2
<1> QED
  BY <1>1, <1>3, <1>4, <1>6, <1>8, <1>9, <1>10, <1>11

\* A log that no step touches.
LEMMA Untouched ==
  ASSUME NEW l, file'[l] = file[l]
  PROVE  (Open(l)' <=> Open(l)) /\ (Closes(l)' <=> Closes(l))
  BY DEF Open, Closes

\* The members of a list, its first one and the rest, and one more.
LEMMA Members ==
  ASSUME NEW S, NEW s \in Seq(S)
  PROVE  /\ s = <<>> => Range(s) = {}
         /\ s # <<>> => Range(s) = {Head(s)} \cup Range(Tail(s))
         /\ \A x \in S : Range(Append(s, x)) = Range(s) \cup {x}
<1>1. Range(s) = {s[k] : k \in 1..Len(s)} /\ Len(s) \in Nat
  BY RangeEquality, LenProperties
<1>2. ASSUME s = <<>> PROVE Range(s) = {}
  <2>1. Len(s) = 0
    BY <1>2, EmptySeq
  <2> QED
    BY <1>1, <2>1
<1>3. ASSUME s # <<>> PROVE Range(s) = {Head(s)} \cup Range(Tail(s))
  <2> DEFINE t == Tail(s)
  <2>1. /\ t \in Seq(S) /\ Len(t) = Len(s) - 1
        /\ \A k \in 1..Len(t) : t[k] = s[k + 1]
        /\ Len(s) \in Nat \ {0} /\ Head(s) = s[1]
    BY <1>3, HeadTailProperties, EmptySeq
  <2> HIDE DEF t
  <2>2. Range(t) = {t[k] : k \in 1..Len(t)}
    BY <2>1, RangeEquality
  <2>3. \A k \in 1..Len(s) : k # 1 => k - 1 \in 1..Len(t) /\ s[k] = t[k - 1]
    BY <2>1
  <2>4. \A k \in 1..Len(t) : k + 1 \in 1..Len(s) /\ t[k] = s[k + 1]
    BY <2>1
  <2>5. 1 \in 1..Len(s)
    BY <2>1
  <2>6. \A y \in Range(s) : y = Head(s) \/ y \in Range(t)
    BY <1>1, <2>1, <2>2, <2>3
  <2>7. \A y \in Range(t) : y \in Range(s)
    BY <1>1, <2>2, <2>4
  <2>8. Head(s) \in Range(s)
    BY <1>1, <2>1, <2>5
  <2> QED
    BY <2>6, <2>7, <2>8 DEF t
<1>4. ASSUME NEW x \in S PROVE Range(Append(s, x)) = Range(s) \cup {x}
  <2> DEFINE t == Append(s, x)
  <2>1. /\ t \in Seq(S) /\ Len(t) = Len(s) + 1
        /\ \A k \in 1..Len(s) : t[k] = s[k]
        /\ t[Len(s) + 1] = x
    BY AppendProperties
  <2> HIDE DEF t
  <2>2. Range(t) = {t[k] : k \in 1..Len(t)}
    BY <2>1, RangeEquality
  <2>3. \A k \in 1..Len(t) : k = Len(s) + 1 \/ (k \in 1..Len(s) /\ t[k] = s[k])
    BY <1>1, <2>1
  <2>4. /\ \A k \in 1..Len(s) : k \in 1..Len(t) /\ s[k] = t[k]
        /\ Len(s) + 1 \in 1..Len(t)
    BY <1>1, <2>1
  <2>5. \A y \in Range(t) : y \in Range(s) \/ y = x
    BY <1>1, <2>1, <2>2, <2>3
  <2>6. \A y \in Range(s) : y \in Range(t)
    BY <1>1, <2>2, <2>4
  <2>7. x \in Range(t)
    BY <2>1, <2>2, <2>4
  <2> QED
    BY <2>5, <2>6, <2>7 DEF t
<1> QED
  BY <1>2, <1>3, <1>4

-----------------------------------------------------------------------------
(***************************************************************************)
(* What the writes of runs, sweeps and crashes do to the runs on record.   *)
(***************************************************************************)
\* An event is appended to log l, and no other log changes.
LEMMA EventAppended ==
  ASSUME TypeOK, Whole, NEW l \in Logs, NEW c \in Contents, NEW key \in Keys,
         append(l, c, key)
  PROVE  /\ Open(l)' <=> c = RunStart \/ (Open(l) /\ c \notin {RunEnd, Interrupted})
         /\ Closes(l) /\ (c = Interrupted => Open(l)) => Closes(l)'
         /\ \A m \in Logs : m # l => /\ Open(m)' <=> Open(m)
                                     /\ Closes(m) => Closes(m)'
<1>1. PICK e \in Envelope : e.content = c /\ written(l, e, "full")
  BY AppendStep
<1>2. Puts(l, e)
  BY <1>1, HealthyWrite
<1>3. /\ Open(l)' <=> \/ e.content = RunStart
                      \/ Open(l) /\ e.content \notin {RunEnd, Interrupted}
      /\ Closes(l) /\ (e.content = Interrupted => Open(l)) => Closes(l)'
      /\ \A m \in Logs : m # l => file'[m] = file[m]
  BY <1>2, EventWritten
<1>4. \A m \in Logs : m # l => (Open(m)' <=> Open(m)) /\ (Closes(m) => Closes(m)')
  BY <1>3, Untouched
<1> QED
  BY <1>1, <1>3, <1>4

\* Nor does a cut or a torn line in one log change what the others have.
LEMMA LessOnRecord ==
  ASSUME TypeOK, NEW l \in Logs, Cuts(l) \/ Puts(l, Torn)
  PROVE  \A m \in Logs : (Open(m)' <=> Open(m)) /\ (Closes(m) => Closes(m)')
<1>1. /\ Open(l)' <=> Open(l)
      /\ Closes(l) => Closes(l)'
      /\ \A m \in Logs : m # l => file'[m] = file[m]
  BY LessWritten
<1>2. \A m \in Logs : m # l => (Open(m)' <=> Open(m)) /\ (Closes(m) => Closes(m)')
  BY <1>1, Untouched
<1> QED
  BY <1>1, <1>2

\* An append that raises changes nothing on record.
LEMMA AppendRaised ==
  ASSUME HealthyTears, TypeOK, Whole,
         NEW l \in Logs, NEW c \in Contents, NEW key \in Keys,
         append_raises(l, c, key)
  PROVE  \A m \in Logs : (Open(m)' <=> Open(m)) /\ (Closes(m) => Closes(m)')
<1>1. written(l, next_envelope(l, c, key), "none")
  BY DEF append_raises, HealthyTears
<1>2. next_envelope(l, c, key) \in Envelope
  BY NextEnvelope
<1>3. Cuts(l)
  BY <1>1, <1>2, HealthyWrite
<1> QED
  BY <1>3, LessOnRecord

\* What _last_bracket says of a log that parses.
LEMMA LastBracketOpen ==
  ASSUME TypeOK, NEW l \in Logs, Readable(file[l])
  PROVE  last_bracket(file[l]) = "open" <=> Open(l)
<1>1. file[l] \in Seq(Line)
  BY DEF TypeOK
<1>2. ValidLen(file[l]) = Len(file[l])
  BY <1>1, ReadableValidLen
<1> QED
  BY <1>1, <1>2, BracketsTell DEF Open

\* What is on record of a log, as RunOpen and as Open see it.
LEMMA OpenRecorded ==
  ASSUME NEW ls \in Seq(Line)
  PROVE  RunOpen(Recorded(ls)) <=> OpenTo(ls, ValidLen(ls))
  BY ValidLenProperties, OpenSubSeq DEF Recorded

\* The first log on the list of a sweep, and the others.
LEMMA ListTodo ==
  ASSUME TypeOK
  PROVE  /\ todo = <<>> => Range(todo) = {}
         /\ todo # <<>> => /\ Range(todo) = {Head(todo)} \cup Range(Tail(todo))
                           /\ Head(todo) \in Logs
<1>1. todo \in Seq(Logs)
  BY DEF TypeOK
<1> QED
  BY <1>1, Members, HeadTodo

-----------------------------------------------------------------------------
(***************************************************************************)
(* Runs that died.  They stay on record as open, and the sweep that began  *)
(* last has each of them on its lists, also beside live runs.              *)
(***************************************************************************)
DiedOpen == \A l \in died : Open(l)

\* The runs that died are on the lists of the sweep, and none is left after it.
Listed ==
  /\ sweep = "scan" => died \subseteq Range(orphaned) \cup Range(todo)
  /\ sweep \in {"close", "append"} => died \subseteq Range(todo)
  /\ sweep = "done" => died = {}

DeadInv == Typed /\ Whole /\ DiedOpen /\ Listed

LEMMA DeadInit == Init => DeadInv
<1>1. Init => Whole
  BY EmptySeq DEF Init, Whole, Readable, Parses
<1> QED
  BY <1>1, TypedInit DEF Init, DeadInv, DiedOpen, Listed

LEMMA DeadRuns ==
  ASSUME HealthyTears, DeadInv, NEW l \in Logs,
         \/ StartRun(l) \/ LoseStart(l) \/ StepRun(l) \/ EndRun(l) \/ LoseEvent(l)
  PROVE  DiedOpen' /\ Listed'
<1> USE DEF DeadInv, Typed
<1>1. died \subseteq Logs
  BY DEF TypeOK
<1>2. CASE StartRun(l) \/ EndRun(l)
  <2>1. died' = died \ {l} /\ UNCHANGED sweeping
    BY <1>2 DEF StartRun, EndRun
  <2>2. \A m \in Logs : m # l => (Open(m)' <=> Open(m))
    BY <1>2, Constants, EventAppended DEF StartRun, EndRun
  <2>3. DiedOpen'
    BY <1>1, <2>1, <2>2 DEF DiedOpen
  <2> QED
    BY <2>1, <2>3 DEF Listed, sweeping
<1>3. CASE StepRun(l)
  <2>1. died' = died /\ UNCHANGED sweeping /\ append(l, Step, AppKey)
    BY <1>3 DEF StepRun, app
  <2>2. Open(l) => Open(l)'
    BY <2>1, Constants, Distinct, EventAppended
  <2>3. \A m \in Logs : m # l => (Open(m)' <=> Open(m))
    BY <2>1, Constants, EventAppended
  <2>4. DiedOpen'
    BY <1>1, <2>1, <2>2, <2>3 DEF DiedOpen
  <2> QED
    BY <2>1, <2>4 DEF Listed, sweeping
<1>4. CASE LoseStart(l) \/ LoseEvent(l)
  <2>1. died' = died /\ UNCHANGED sweeping
    BY <1>4 DEF LoseStart, LoseEvent, app
  <2>2. PICK c \in Contents : append_raises(l, c, AppKey)
    BY <1>4, Constants DEF LoseStart, LoseEvent
  <2>3. \A m \in Logs : Open(m)' <=> Open(m)
    BY <2>2, Constants, AppendRaised
  <2>4. DiedOpen'
    BY <1>1, <2>1, <2>3 DEF DiedOpen
  <2> QED
    BY <2>1, <2>4 DEF Listed, sweeping
<1> QED
  BY <1>2, <1>3, <1>4

\* The crash names the logs that it leaves open.
LEMMA DeadCrash ==
  ASSUME Typed', Crash
  PROVE  DiedOpen' /\ Listed'
<1>1. /\ died' = {l \in Logs : RunOpen(Recorded(file'[l]))}
      /\ sweep' = "idle"
  BY DEF Crash
<1>2. \A l \in Logs : file'[l] \in Seq(Line)
  BY DEF Typed, TypeOK
<1>3. \A l \in Logs : RunOpen(Recorded(file'[l])) => OpenTo(file'[l], ValidLen(file'[l]))
  BY <1>2, OpenRecorded
<1>4. \A l \in died' : OpenTo(file'[l], ValidLen(file'[l]))
  BY <1>1, <1>3
<1> QED
  BY <1>1, <1>4 DEF DiedOpen, Open, Listed

LEMMA DeadInterrupt ==
  ASSUME HealthyTears, DeadInv, Interrupt \/ InterruptRaises
  PROVE  DiedOpen' /\ Listed'
<1> USE DEF DeadInv, Typed
<1>1. sweep = "append" /\ todo # <<>> /\ died \subseteq Logs
  BY DEF Interrupt, InterruptRaises, InHand, TypeOK
<1>2. PICK l \in Logs : l = Head(todo) /\ Range(todo) = {l} \cup Range(Tail(todo))
  BY <1>1, ListTodo
<1>3. CASE Interrupt
  <2>1. /\ append(l, Interrupted, NoKey) /\ died' = died \ {l}
        /\ sweep' = "close" /\ todo' = Tail(todo)
    BY <1>2, <1>3 DEF Interrupt
  <2>2. \A m \in Logs : m # l => (Open(m)' <=> Open(m))
    BY <2>1, Constants, EventAppended
  <2>3. DiedOpen'
    BY <1>1, <2>1, <2>2 DEF DiedOpen
  <2> QED
    BY <1>1, <1>2, <2>1, <2>3 DEF Listed
<1>4. CASE InterruptRaises
  <2>1. /\ append_raises(l, Interrupted, NoKey) /\ died' = died
        /\ sweep' = "raised"
    BY <1>2, <1>4 DEF InterruptRaises, leave, app
  <2>2. \A m \in Logs : Open(m)' <=> Open(m)
    BY <2>1, Constants, AppendRaised
  <2>3. DiedOpen'
    BY <1>1, <2>1, <2>2 DEF DiedOpen
  <2> QED
    BY <2>1, <2>3 DEF Listed
<1> QED
  BY <1>3, <1>4

\* The steps of the sweep that read.
LEMMA DeadReads ==
  ASSUME DeadInv, Sweep \/ Scan \/ Scanned \/ Check \/ Return
  PROVE  DiedOpen' /\ Listed'
<1> USE DEF DeadInv, Typed
<1>1. UNCHANGED <<file, died>>
  BY DEF Sweep, Scan, Scanned, Check, Return, app, disk
<1>2. DiedOpen'
  BY <1>1 DEF DiedOpen, Open
<1>3. orphaned \in Seq(Logs) /\ died \subseteq Logs
  BY DEF TypeOK
<1>4. /\ todo = <<>> => Range(todo) = {}
      /\ todo # <<>> => /\ Range(todo) = {Head(todo)} \cup Range(Tail(todo))
                        /\ Head(todo) \in Logs
  BY ListTodo
<1>5. CASE Sweep
  <2>1. sweep' = "scan" /\ todo' = [l \in Logs |-> l]
    BY <1>5 DEF Sweep
  <2>2. Range(todo') = Logs
    BY <2>1 DEF Range
  <2> QED
    BY <1>1, <1>2, <1>3, <2>1, <2>2 DEF Listed
<1>6. CASE Scan
  <2> DEFINE l == Head(todo)
  <2>1. sweep = "scan" /\ todo # <<>>
    BY <1>6 DEF Scan
  <2>2. CASE leave("raised")
    BY <1>2, <2>2 DEF leave, Listed
  <2>3. CASE ~leave("raised")
    <3>1. /\ Readable(file[l]) /\ sweep' = "scan" /\ todo' = Tail(todo)
          /\ orphaned' = IF last_bracket(file[l]) = "open"
                           THEN Append(orphaned, l) ELSE orphaned
      BY <1>6, <2>3 DEF Scan
    <3>2. Range(todo) = {l} \cup Range(todo') /\ l \in Logs
      BY <1>4, <2>1, <3>1
    <3>3. last_bracket(file[l]) = "open" <=> Open(l)
      BY <3>1, <3>2, LastBracketOpen
    <3>4. Range(Append(orphaned, l)) = Range(orphaned) \cup {l}
      BY <1>3, <3>2, Members
    <3> HIDE DEF l
    <3>5. l \in died => Open(l)
      BY DEF DiedOpen
    <3>6. CASE Open(l)
      BY <1>1, <1>2, <2>1, <3>1, <3>2, <3>3, <3>4, <3>6 DEF Listed
    <3>7. CASE ~Open(l)
      BY <1>1, <1>2, <2>1, <3>1, <3>2, <3>3, <3>5, <3>7 DEF Listed
    <3> QED
      BY <3>6, <3>7
  <2> QED
    BY <2>2, <2>3
<1>7. CASE Scanned
  <2>1. sweep = "scan" /\ todo = <<>> /\ sweep' = "close" /\ todo' = orphaned
    BY <1>7 DEF Scanned
  <2> QED
    BY <1>1, <1>2, <1>4, <2>1 DEF Listed
<1>8. CASE Check
  <2> DEFINE l == Head(todo)
  <2>1. sweep = "close" /\ todo # <<>>
    BY <1>8 DEF Check
  <2>2. CASE leave("raised")
    BY <1>2, <2>2 DEF leave, Listed
  <2>3. CASE ~leave("raised")
    <3>1. /\ Readable(file[l])
          /\ IF last_bracket(file[l]) = "open"
               THEN sweep' = "append" /\ todo' = todo
               ELSE todo' = Tail(todo) /\ sweep' = sweep
      BY <1>8, <2>3 DEF Check
    <3>2. Range(todo) = {l} \cup Range(Tail(todo)) /\ l \in Logs
      BY <1>4, <2>1
    <3>3. last_bracket(file[l]) = "open" <=> Open(l)
      BY <3>1, <3>2, LastBracketOpen
    <3> HIDE DEF l
    <3>4. CASE Open(l)
      BY <1>1, <1>2, <2>1, <3>1, <3>3, <3>4 DEF Listed
    <3>5. CASE ~Open(l)
      <4>1. todo' = Tail(todo) /\ sweep' = "close"
        BY <2>1, <3>1, <3>3, <3>5
      <4>2. l \notin died
        BY <3>5 DEF DiedOpen
      <4> QED
        BY <1>1, <1>2, <2>1, <3>2, <4>1, <4>2 DEF Listed
    <3> QED
      BY <3>4, <3>5
  <2> QED
    BY <2>2, <2>3
<1>9. CASE Return
  <2>1. sweep = "close" /\ todo = <<>> /\ sweep' = "done"
    BY <1>9 DEF Return, leave
  <2> QED
    BY <1>1, <1>2, <1>4, <2>1 DEF Listed
<1> QED
  BY <1>5, <1>6, <1>7, <1>8, <1>9

LEMMA DeadAlways == ASSUME HealthyTears PROVE Spec => []DeadInv
<1>1. DeadInv /\ [Next]_vars => DeadInv'
  <2> SUFFICES ASSUME DeadInv, [Next]_vars PROVE DeadInv'
    OBVIOUS
  <2>1. Typed' /\ Whole'
    BY TypedNext, WholeNext DEF DeadInv
  <2>2. CASE Boot \/ UNCHANGED vars
    <3>1. UNCHANGED <<file, died, sweep, todo, orphaned>>
      BY <2>2 DEF Boot, vars, app, sweeping, disk
    <3> QED
      BY <2>1, <3>1 DEF DeadInv, DiedOpen, Open, Listed
  <2>3. ASSUME NEW l \in Logs,
               \/ StartRun(l) \/ LoseStart(l) \/ StepRun(l) \/ EndRun(l) \/ LoseEvent(l)
        PROVE  DeadInv'
    BY <2>1, <2>3, DeadRuns DEF DeadInv
  <2>4. CASE Crash
    BY <2>1, <2>4, DeadCrash DEF DeadInv
  <2>5. CASE Interrupt \/ InterruptRaises
    BY <2>1, <2>5, DeadInterrupt DEF DeadInv
  <2>6. CASE Sweep \/ Scan \/ Scanned \/ Check \/ Return
    BY <2>1, <2>6, DeadReads DEF DeadInv
  <2> QED
    BY <2>2, <2>3, <2>4, <2>5, <2>6 DEF Next
<1> QED
  BY <1>1, DeadInit, PTL DEF Spec

\* A run that died is found again: no resume, failed append, further crash or
\* broken-off sweep takes it off the record, until a sweep or a run closes it.
THEOREM DiedStays == ASSUME HealthyTears PROVE Spec => []DiedStaysOpen
<1>1. DeadInv => DiedStaysOpen
  <2> SUFFICES ASSUME DeadInv, NEW l \in died PROVE RunOpen(Recorded(file[l]))
    BY DEF DiedStaysOpen
  <2>1. Open(l) /\ file[l] \in Seq(Line)
    BY DEF DeadInv, DiedOpen, Typed, TypeOK
  <2> QED
    BY <2>1, OpenRecorded DEF Open
<1> QED
  BY <1>1, DeadAlways, PTL

\* "Close every orphaned run under a trace root": when repair_all has returned,
\* it has closed the run of every log whose process died in it, although other
\* runs may have gone on beside it.
THEOREM SweepsClose == ASSUME HealthyTears PROVE Spec => []SweepClosesAll
<1>1. DeadInv => SweepClosesAll
  BY DEF DeadInv, Listed, SweepClosesAll
<1> QED
  BY <1>1, DeadAlways, PTL

-----------------------------------------------------------------------------
(***************************************************************************)
(* Runs and sweeps that are kept apart.  What a sweep has read stays true  *)
(* until it writes, because no run goes on beside it.  Without that, a run *)
(* may end between the second reading of its log and the append.           *)
(***************************************************************************)
Apart == ~Concurrent

Quiet == sweep \in {"scan", "close", "append"} => running = {}

\* The run that the sweep is about to close is still open.
StillOpen == sweep = "append" => Open(Head(todo))

AllClose == \A l \in Logs : Closes(l)

RunInv == Typed /\ Whole /\ Quiet /\ StillOpen /\ AllClose

LEMMA RunInvInit == Init => RunInv
<1> SUFFICES ASSUME Init PROVE RunInv
  OBVIOUS
<1>1. Len(<<>>) = 0
  BY EmptySeq
<1>2. \A l \in Logs : Closes(l)
  BY <1>1 DEF Init, Closes
<1>3. Whole
  BY <1>1 DEF Init, Whole, Readable, Parses
<1> QED
  BY <1>2, <1>3, TypedInit DEF Init, RunInv, Quiet, StillOpen, AllClose

LEMMA RunActions ==
  ASSUME HealthyTears, Apart, RunInv, NEW l \in Logs,
         \/ RunsAllowed /\ (StartRun(l) \/ LoseStart(l))
         \/ StepRun(l) \/ EndRun(l) \/ LoseEvent(l)
  PROVE  Quiet' /\ StillOpen' /\ AllClose'
<1> USE DEF RunInv, Typed
<1>1. sweep' = sweep /\ sweep \notin {"scan", "close", "append"}
  <2>1. CASE RunsAllowed /\ (StartRun(l) \/ LoseStart(l))
    BY <2>1 DEF StartRun, LoseStart, RunsAllowed, Apart, sweeping
  <2>2. CASE StepRun(l) \/ EndRun(l) \/ LoseEvent(l)
    BY <2>2 DEF StepRun, EndRun, LoseEvent, Quiet, sweeping
  <2> QED
    BY <2>1, <2>2
<1>2. PICK c \in {RunStart, Step, RunEnd} :
        append(l, c, AppKey) \/ append_raises(l, c, AppKey)
  BY DEF StartRun, LoseStart, StepRun, EndRun, LoseEvent
<1>3. c \in Contents /\ c # Interrupted /\ AppKey \in Keys
  BY Constants, Distinct
<1>4. \A m \in Logs : Closes(m) => Closes(m)'
  <2>1. CASE append(l, c, AppKey)
    BY <1>3, <2>1, EventAppended
  <2>2. CASE append_raises(l, c, AppKey)
    BY <1>3, <2>2, AppendRaised
  <2> QED
    BY <1>2, <2>1, <2>2
<1> QED
  BY <1>1, <1>4 DEF Quiet, StillOpen, AllClose

\* The one event in flight when a process dies closes a run if it is an
\* interrupted run/end.
LEMMA CrashRuns ==
  ASSUME HealthyTears, RunInv, Crash
  PROVE  Quiet' /\ StillOpen' /\ AllClose'
<1> USE DEF RunInv, Typed
<1>1. sweep' = "idle"
  BY DEF Crash
<1>2. \A m \in Logs : Closes(m) => Closes(m)'
  <2>1. CASE UNCHANGED disk
    <3>1. file' = file
      BY <2>1 DEF disk
    <3> QED
      BY <3>1, Untouched
  <2>2. CASE ~UNCHANGED disk
    <3>1. PICK l \in Logs, how \in CrashTears :
            \E c \in InFlight(l), key \in Keys :
              c \in Contents /\ written(l, next_envelope(l, c, key), how)
      BY <2>2, CrashWrites
    <3>2. PICK c \in InFlight(l), key \in Keys :
            c \in Contents /\ written(l, next_envelope(l, c, key), how)
      BY <3>1
    <3>3. c = Interrupted => Open(l)
      <4> SUFFICES ASSUME c = Interrupted PROVE Open(l)
        OBVIOUS
      <4>1. c \notin {RunStart, Step, RunEnd}
        BY Distinct
      <4>2. sweep = "append" /\ l = Head(todo)
        BY <3>2, <4>1 DEF InFlight
      <4> QED
        BY <4>2 DEF StillOpen
    <3>4. PICK e \in Envelope : e.content = c /\ written(l, e, how)
      BY <3>2, NextEnvelope
    <3>5. how \in {"none", "part", "full"}
      BY DEF HealthyTears
    <3>6. CASE how = "full"
      <4>1. Puts(l, e)
        BY <3>4, <3>6, HealthyWrite
      <4>2. /\ Closes(l) => Closes(l)'
            /\ \A m \in Logs : m # l => file'[m] = file[m]
        BY <3>3, <3>4, <4>1, EventWritten
      <4> QED
        BY <4>2, Untouched
    <3>7. CASE how \in {"none", "part"}
      <4>1. Cuts(l) \/ Puts(l, Torn)
        BY <3>4, <3>7, HealthyWrite
      <4> QED
        BY <4>1, LessOnRecord
    <3> QED
      BY <3>5, <3>6, <3>7
  <2> QED
    BY <2>1, <2>2
<1> QED
  BY <1>1, <1>2 DEF Quiet, StillOpen, AllClose

LEMMA InterruptRuns ==
  ASSUME HealthyTears, RunInv, Interrupt \/ InterruptRaises
  PROVE  Quiet' /\ StillOpen' /\ AllClose'
<1> USE DEF RunInv, Typed
<1>1. sweep = "append" /\ todo # <<>>
  BY DEF Interrupt, InterruptRaises, InHand
<1>2. PICK l \in Logs : l = Head(todo)
  BY <1>1, HeadTodo
<1>3. /\ append(l, Interrupted, NoKey) \/ append_raises(l, Interrupted, NoKey)
      /\ sweep' \in {"close", "raised"} /\ running' = running
  BY <1>2 DEF Interrupt, InterruptRaises, leave, app
<1>4. Open(l) /\ running = {}
  BY <1>1, <1>2 DEF StillOpen, Quiet
<1>5. \A m \in Logs : Closes(m) => Closes(m)'
  <2>1. CASE append(l, Interrupted, NoKey)
    BY <1>4, <2>1, Constants, EventAppended
  <2>2. CASE append_raises(l, Interrupted, NoKey)
    BY <2>2, Constants, AppendRaised
  <2> QED
    BY <1>3, <2>1, <2>2
<1> QED
  BY <1>3, <1>4, <1>5 DEF Quiet, StillOpen, AllClose

\* The steps of the sweep that read.
LEMMA ReadRuns ==
  ASSUME Apart, RunInv, (SweepAllowed /\ Sweep) \/ Scan \/ Scanned \/ Check \/ Return
  PROVE  Quiet' /\ StillOpen' /\ AllClose'
<1> USE DEF RunInv, Typed
<1>1. UNCHANGED <<file, running>>
  BY DEF Sweep, Scan, Scanned, Check, Return, app, disk
<1>2. AllClose' /\ \A l : Open(l)' <=> Open(l)
  BY <1>1 DEF AllClose, Closes, Open
<1>3. Quiet'
  <2>1. CASE SweepAllowed /\ Sweep
    BY <1>1, <2>1 DEF SweepAllowed, Apart, Quiet
  <2>2. CASE Scan \/ Scanned \/ Check \/ Return
    <3>1. running = {}
      BY <2>2 DEF Quiet, Scan, Scanned, Check, Return
    <3> QED
      BY <1>1, <3>1 DEF Quiet
  <2> QED
    BY <2>1, <2>2
<1>4. CASE Check
  <2> DEFINE l == Head(todo)
  <2>1. todo # <<>>
    BY <1>4 DEF Check
  <2>2. CASE sweep' # "append"
    BY <1>2, <1>3, <2>2 DEF StillOpen
  <2>3. CASE sweep' = "append"
    <3>1. /\ Readable(file[l]) /\ todo' = todo
          /\ last_bracket(file[l]) = "open"
      <4>1. ~leave("raised") /\ sweep = "close"
        BY <1>4, <2>3 DEF Check, leave
      <4> HIDE DEF l
      <4>2. CASE last_bracket(file[l]) = "open"
        BY <1>4, <2>3, <4>1, <4>2 DEF Check, l
      <4>3. CASE last_bracket(file[l]) # "open"
        BY <1>4, <2>3, <4>1, <4>3 DEF Check, l
      <4> QED
        BY <4>2, <4>3
    <3>2. l \in Logs
      BY <2>1, HeadTodo
    <3>3. Open(l)
      BY <3>1, <3>2, LastBracketOpen
    <3>4. OpenTo(file[l], ValidLen(file[l])) /\ file' = file
      BY <1>1, <3>3 DEF Open
    <3>5. StillOpen'
      BY <3>1, <3>4 DEF StillOpen, Open
    <3> QED
      BY <1>2, <1>3, <3>5
  <2> QED
    BY <1>2, <1>3, <2>2, <2>3
<1>5. CASE ~Check
  <2>1. sweep' # "append"
    BY <1>5 DEF Sweep, Scan, Scanned, Return, leave
  <2> QED
    BY <1>2, <1>3, <2>1 DEF StillOpen
<1> QED
  BY <1>4, <1>5

LEMMA RunInvNext == HealthyTears /\ Apart /\ RunInv /\ [Next]_vars => RunInv'
<1> SUFFICES ASSUME HealthyTears, Apart, RunInv, [Next]_vars PROVE RunInv'
  OBVIOUS
<1>1. Typed' /\ Whole'
  BY TypedNext, WholeNext DEF RunInv
<1>2. CASE Boot \/ UNCHANGED vars
  <2>1. UNCHANGED <<file, running, sweep, todo>>
    BY <1>2 DEF Boot, vars, app, sweeping, disk
  <2> QED
    BY <1>1, <2>1 DEF RunInv, Quiet, StillOpen, AllClose, Open, Closes
<1>3. ASSUME NEW l \in Logs,
             \/ RunsAllowed /\ (StartRun(l) \/ LoseStart(l))
             \/ StepRun(l) \/ EndRun(l) \/ LoseEvent(l)
      PROVE  RunInv'
  BY <1>1, <1>3, RunActions DEF RunInv
<1>4. CASE Crash
  BY <1>1, <1>4, CrashRuns DEF RunInv
<1>5. CASE Interrupt \/ InterruptRaises
  BY <1>1, <1>5, InterruptRuns DEF RunInv
<1>6. CASE (SweepAllowed /\ Sweep) \/ Scan \/ Scanned \/ Check \/ Return
  BY <1>1, <1>6, ReadRuns DEF RunInv
<1> QED
  BY <1>2, <1>3, <1>4, <1>5, <1>6 DEF Next

\* "Idempotent": however often the root is swept and processes die, also in the
\* middle of a repair, an interrupted run/end closes a run that was open.
THEOREM Idempotent ==
  ASSUME HealthyTears, Apart PROVE Spec => []InterruptedClosesARun
<1>1. RunInv => InterruptedClosesARun
  <2> SUFFICES ASSUME RunInv, NEW l \in Logs, NEW k \in 1..Len(file[l]),
                      file[l][k] # Torn, file[l][k].content = Interrupted
               PROVE  RunOpen(SubSeq(file[l], 1, k - 1))
    BY DEF InterruptedClosesARun
  <2>1. file[l] \in Seq(Line) /\ OpenTo(file[l], k - 1)
    BY DEF RunInv, AllClose, Closes, Typed, TypeOK
  <2>2. k - 1 \in 0..Len(file[l])
    BY <2>1, LenProperties
  <2> QED
    BY <2>1, <2>2, OpenSubSeq
<1>2. RunInv /\ [Next]_vars => RunInv'
  BY RunInvNext
<1> QED
  BY <1>1, <1>2, RunInvInit, PTL DEF Spec
=============================================================================
