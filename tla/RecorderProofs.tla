--------------------------- MODULE RecorderProofs ---------------------------
(***************************************************************************)
(* Theorems about Recorder, for any number of threads, contents, lines and *)
(* crashes.                                                                *)
(***************************************************************************)
EXTENDS Recorder, ChainProofs, FiniteSetTheorems

-----------------------------------------------------------------------------
(***************************************************************************)
(* Lemmas about the chain and the file.                                    *)
(***************************************************************************)
\* put returns a file, one line longer or with its last line glued.
LEMMA PutType ==
  ASSUME lines \in Seq(Line), nl \in BOOLEAN, NEW x \in Line
  PROVE  put(x) \in Seq(Line)
<1>1. CASE nl
  BY <1>1, AppendProperties DEF put
<1>2. CASE ~nl
  <2>1. Torn \in Line
    BY DEF Line
  <2>2. Len(lines) \in Nat /\ lines \in [1..Len(lines) -> Line]
    BY LenProperties
  <2>3. [lines EXCEPT ![Len(lines)] = Torn] \in [1..Len(lines) -> Line]
    BY <2>1, <2>2
  <2>4. [lines EXCEPT ![Len(lines)] = Torn] \in Seq(Line)
    BY <2>2, <2>3, SeqDef
  <2> QED
    BY <1>2, <2>4 DEF put
<1> QED
  BY <1>1, <1>2

\* append_bytes leaves a well-typed file.
LEMMA AppendBytesType ==
  ASSUME lines \in Seq(Line), nl \in BOOLEAN, NEW e \in Envelope, NEW how,
         append_bytes(e, how)
  PROVE  lines' \in Seq(Line) /\ nl' \in BOOLEAN
<1>1. e \in Line /\ Torn \in Line
  BY DEF Line
<1>2. put(e) \in Seq(Line) /\ put(Torn) \in Seq(Line)
  BY <1>1, PutType
<1> QED
  BY <1>2 DEF append_bytes

-----------------------------------------------------------------------------
(***************************************************************************)
(* Type correctness.  It needs to know who holds the lock: the envelope of *)
(* a thread inside append is an envelope, not None.                        *)
(***************************************************************************)
Typed == TypeOK /\ EnvelopeBuilt

LEMMA TypedInit == Init => Typed
<1> SUFFICES ASSUME Init PROVE Typed
  OBVIOUS
<1>1. <<>> \in Digest /\ <<>> \in Seq(Line)
  BY EmptySeq DEF Digest
<1> QED
  BY <1>1 DEF Init, Typed, TypeOK, EnvelopeBuilt, GENESIS_PREV

LEMMA TypedNext == Typed /\ [Next]_vars => Typed'
<1> SUFFICES ASSUME Typed, [Next]_vars PROVE Typed'
  OBVIOUS
<1> USE DEF Typed, TypeOK, EnvelopeBuilt
<1>a. <<>> \in Digest /\ <<>> \in Seq(Line)
  BY EmptySeq DEF Digest
<1>b. ASSUME NEW k \in 0..Len(lines), Parses(lines, k), adopt(k)
      PROVE  next_seq' \in Nat /\ prev' \in Digest
  <2>1. CASE k = 0
    BY <1>b, <2>1, <1>a DEF adopt, head_id, GENESIS_PREV
  <2>2. CASE k # 0
    <3>1. k \in 1..Len(lines)
      BY <2>2
    <3>2. lines[k] \in Line /\ lines[k] # Torn
      BY <1>b, <3>1, ElementOfSeq DEF Parses
    <3>3. lines[k] \in Envelope
      BY <3>2 DEF Line
    <3> QED
      BY <1>b, <2>2, <3>3 DEF adopt, head_id, Envelope
  <2> QED
    BY <2>1, <2>2
<1>1. CASE Resume
  <2> PICK k \in 0..Len(lines) : IsValidLen(lines, k) /\ adopt(k) /\ clean(k)
    BY <1>1 DEF Resume
  <2>1. next_seq' \in Nat /\ prev' \in Digest
    BY <1>b DEF IsValidLen
  <2>2. lines' \in Seq(Line) /\ nl' \in BOOLEAN /\ quarantined' \subseteq Seq(Line)
    <3>1. SubSeq(lines, 1, k) \in Seq(Line)
      BY SubSeqProperties
    <3> QED
      BY <3>1, <1>a DEF clean, file
  <2> QED
    BY <1>1, <2>1, <2>2 DEF Resume, calls, history
<1>2. CASE ResumeFault
  <2> PICK k \in 0..Len(lines) : Parses(lines, k) /\ adopt(k)
    BY <1>2 DEF ResumeFault
  <2>1. next_seq' \in Nat /\ prev' \in Digest
    BY <1>b
  <2> QED
    BY <1>2, <2>1 DEF ResumeFault, calls, file
<1>3. ASSUME NEW t \in Threads, Step(t) PROVE Typed'
  <2>1. ASSUME NEW c \in Contents, Begin(t, c) PROVE Typed'
    <3>1. checked_envelope(next_seq, c, prev, Key) \in Envelope
      BY EnvelopeType, ConstantsAssumption
    <3> QED
      BY <2>1, <3>1 DEF Begin, file, memory, history
  <2>2. CASE Reject(t)
    BY <2>2 DEF Reject, count_drop, file, memory, calls, history
  <2>3. CASE Write(t)
    <3>1. envelope[t] \in Envelope
      BY <2>3 DEF Write
    <3>2. lines' \in Seq(Line) /\ nl' \in BOOLEAN
      BY <2>3, <3>1, AppendBytesType DEF Write
    <3> QED
      BY <2>3, <3>2 DEF Write, memory, history
  <2>4. CASE Fail(t)
    <3>1. envelope[t] \in Envelope
      BY <2>4 DEF Fail
    <3>2. lines' \in Seq(Line) /\ nl' \in BOOLEAN
      BY <2>4, <3>1, AppendBytesType DEF Fail
    <3> QED
      BY <2>4, <3>2 DEF Fail, release, count_drop, memory, history
  <2>5. CASE Commit(t)
    <3>1. envelope[t] \in Envelope
      BY <2>5 DEF Commit
    <3> QED
      BY <2>5, <3>1 DEF Commit, release, file, Envelope
  <2> QED
    BY <1>3, <2>1, <2>2, <2>3, <2>4, <2>5 DEF Step
<1>4. CASE Crash
  <2>1. lines' \in Seq(Line) /\ nl' \in BOOLEAN /\ quarantined' = quarantined
    <3>1. CASE /\ \E t \in Threads, how \in CrashTears :
                     pc[t] = "write" /\ append_bytes(envelope[t], how)
               /\ UNCHANGED quarantined
      <4> PICK t \in Threads, how \in CrashTears :
                 pc[t] = "write" /\ append_bytes(envelope[t], how)
        BY <3>1
      <4> QED
        BY <3>1, AppendBytesType
    <3>2. CASE UNCHANGED file
      BY <3>2 DEF file
    <3> QED
      BY <1>4, <3>1, <3>2 DEF Crash
  <2>2. /\ pc' \in [Threads -> {"idle", "write", "commit"}]
        /\ envelope' \in [Threads -> Envelope \cup {None}]
        /\ \A t \in Threads : pc'[t] = "idle"
    BY <1>4 DEF Crash
  <2>3. next_seq' \in Nat /\ prev' \in Digest
    BY <1>4, <1>a DEF Crash, GENESIS_PREV
  <2>4. TypeOK'
    <3>1. live' \in BOOLEAN /\ damaged' \in BOOLEAN /\ faulted' \in BOOLEAN
      BY <1>4, Zenon DEF Crash
    <3>2. /\ crashes' \in Nat /\ dropped' \in Nat
          /\ holder' \in Threads \cup {None} /\ acked' \subseteq Envelope
      BY <1>4 DEF Crash
    <3> QED
      BY <2>1, <2>2, <2>3, <3>1, <3>2
  <2>5. EnvelopeBuilt'
    BY <2>2
  <2> QED
    BY <2>4, <2>5
<1>5. CASE DamageLine
  <2> PICK i \in 1..(Len(lines) - 1) : lines' = [lines EXCEPT ![i] = Torn]
    BY <1>5 DEF DamageLine
  <2>1. lines' \in Seq(Line)
    BY DEF Line
  <2> QED
    BY <1>5, <2>1 DEF DamageLine, memory, calls
<1>6. CASE UNCHANGED vars
  BY <1>6 DEF vars, file, memory, calls, history
<1> QED
  BY <1>1, <1>2, <1>3, <1>4, <1>5, <1>6 DEF Next

\* Every variable keeps its type, whatever the tears, faults and damages.
THEOREM TypeCorrect == Spec => []TypeOK
<1>1. Typed => TypeOK
  BY DEF Typed
<1> QED
  BY <1>1, TypedInit, TypedNext, PTL DEF Spec

-----------------------------------------------------------------------------
(***************************************************************************)
(* The inductive invariant.                                                *)
(***************************************************************************)
\* Only one thread is inside append, and only while the process lives.
LEMMA LockNext == Typed /\ LockDiscipline /\ [Next]_vars => LockDiscipline'
<1> SUFFICES ASSUME Typed, LockDiscipline, [Next]_vars PROVE LockDiscipline'
  OBVIOUS
<1> USE ConstantsAssumption DEF Typed, TypeOK, LockDiscipline
<1>1. CASE Resume
  BY <1>1 DEF Resume, calls
<1>2. CASE ResumeFault
  BY <1>2 DEF ResumeFault, calls
<1>3. ASSUME NEW t \in Threads, Step(t) PROVE LockDiscipline'
  <2>1. ASSUME NEW c \in Contents, Begin(t, c) PROVE LockDiscipline'
    BY <2>1 DEF Begin
  <2>2. CASE Reject(t)
    BY <2>2 DEF Reject, calls
  <2>3. CASE Write(t)
    BY <2>3 DEF Write
  <2>4. CASE Fail(t)
    BY <2>4 DEF Fail, release
  <2>5. CASE Commit(t)
    BY <2>5 DEF Commit, release
  <2> QED
    BY <1>3, <2>1, <2>2, <2>3, <2>4, <2>5 DEF Step
<1>4. CASE Crash
  <2>1. holder' = None /\ pc' = [t \in Threads |-> "idle"]
    BY <1>4 DEF Crash
  <2> QED
    BY <2>1
<1>5. CASE DamageLine
  BY <1>5 DEF DamageLine, calls
<1>6. CASE UNCHANGED vars
  BY <1>6 DEF vars, calls
<1> QED
  BY <1>1, <1>2, <1>3, <1>4, <1>5, <1>6 DEF Next

\* What is left of IInv when the types and the lock are taken for granted.
FileInv ==
  FileChained /\ HeadMatchesFile /\ EnvelopeFits /\ OnlyTailTorn /\ AckedDurable

\* A file without torn lines has no torn line before its last.
LEMMA ReadableTail == Readable(lines) => OnlyTailTorn
  BY DEF Readable, Parses, OnlyTailTorn

\* A restart finds a chained prefix, keeps exactly it and adopts its head.
LEMMA ResumeStep == IInv /\ Resume => FileInv'
<1> SUFFICES ASSUME IInv, Resume, ~faulted PROVE FileInv'
  <2>1. Resume /\ faulted => FileInv'
    BY DEF Resume, history, FileInv, FileChained, HeadMatchesFile, EnvelopeFits,
           OnlyTailTorn, AckedDurable, Unharmed
  <2> QED
    BY <2>1
<1> USE DEF IInv, TypeOK
<1>1. PICK k \in 0..Len(lines) : IsValidLen(lines, k) /\ adopt(k) /\ clean(k)
  BY DEF Resume
<1>2. /\ Linked(lines, Key)
      /\ ~nl => lines # <<>> /\ lines[Len(lines)] = Torn
  BY DEF FileChained
<1>3. Len(lines) \in Nat /\ Parses(lines, k)
  BY <1>1, LenProperties DEF IsValidLen
<1>4. /\ lines' \in Seq(Line) /\ Len(lines') = k /\ nl'
      /\ \A i \in 1..k : lines'[i] = lines[i]
  <2>1. CASE k = Len(lines) /\ UNCHANGED file
    <3>1. nl
      BY <1>2, <1>3, <2>1, EmptySeq DEF Parses
    <3> QED
      BY <2>1, <3>1 DEF file
  <2>2. CASE k = 0 /\ lines' = <<>> /\ nl' = TRUE
    BY <2>2, EmptySeq
  <2>3. CASE 0 < k /\ k < Len(lines) /\ lines' = SubSeq(lines, 1, k) /\ nl' = TRUE
    BY <1>3, <2>3, SubSeqProperties
  <2> QED
    BY <1>1, <2>1, <2>2, <2>3 DEF clean
<1>5. Readable(lines')
  BY <1>3, <1>4 DEF Readable, Parses
<1>6. Linked(lines', Key)
  BY <1>2, <1>3, <1>4, LinkedAgree
<1>7. next_seq' = k /\ prev' = head_id(lines', k)
  <2>1. CASE k = 0
    BY <1>1, <2>1 DEF adopt, head_id
  <2>2. CASE k # 0
    <3>1. k \in 1..Len(lines)
      BY <1>3, <2>2
    <3>2. lines[k].seq = k - 1 /\ lines'[k] = lines[k]
      BY <1>2, <1>3, <1>4, <3>1 DEF Linked
    <3> QED
      BY <1>1, <2>2, <3>1, <3>2 DEF adopt, head_id
  <2> QED
    BY <2>1, <2>2
<1>8. \A t \in Threads : pc'[t] = "idle"
  BY ConstantsAssumption DEF Resume, calls, LockDiscipline
<1>9. FileChained' /\ EnvelopeFits'
  BY <1>4, <1>5, <1>6, <1>8 DEF FileChained, EnvelopeFits
<1>10. HeadMatchesFile'
  BY <1>4, <1>7, <1>8 DEF HeadMatchesFile
<1>11. OnlyTailTorn'
  BY <1>4, <1>5 DEF OnlyTailTorn, Readable, Parses
<1>12. AckedDurable'
  <2> SUFFICES ASSUME Unharmed', NEW e \in acked'
               PROVE  e.seq < Len(lines') /\ lines'[e.seq + 1] = e
    BY DEF AckedDurable
  <2>1. e \in acked /\ Unharmed /\ e \in Envelope
    BY DEF Resume, history, Unharmed
  <2>2. e.seq \in Nat /\ e.seq < Len(lines) /\ lines[e.seq + 1] = e
    BY <2>1 DEF AckedDurable, Envelope
  <2>3. e # Torn
    BY <2>1, TornAssumption
  <2>4. k < Len(lines) => k + 1 = Len(lines)
    <3> SUFFICES ASSUME k < Len(lines), k + 1 # Len(lines) PROVE FALSE
      BY <1>3
    <3>1. k + 1 \in 1..(Len(lines) - 1) /\ lines[k + 1] = Torn
      BY <1>1, <1>3 DEF IsValidLen
    <3> QED
      BY <2>1, <3>1 DEF OnlyTailTorn
  <2>5. e.seq + 1 <= k
    BY <1>1, <1>3, <2>2, <2>3, <2>4 DEF IsValidLen
  <2> QED
    BY <1>3, <1>4, <2>2, <2>5
<1> QED
  BY <1>9, <1>10, <1>11, <1>12 DEF FileInv

\* Taking the lock builds the envelope that the file expects next.
LEMMA BeginStep ==
  ASSUME IInv, NEW t \in Threads, NEW c \in Contents, Begin(t, c)
  PROVE  FileInv'
<1> USE DEF IInv, TypeOK
<1>1. /\ pc' = [pc EXCEPT ![t] = "write"]
      /\ envelope' = [envelope EXCEPT ![t] = checked_envelope(next_seq, c, prev, Key)]
      /\ \A u \in Threads : pc[u] = "idle"
  BY ConstantsAssumption DEF Begin, LockDiscipline
<1>2. /\ lines' = lines /\ nl' = nl /\ live' = live /\ faulted' = faulted
      /\ damaged' = damaged /\ acked' = acked
      /\ next_seq' = next_seq /\ prev' = prev
  BY DEF Begin, file, memory, history
<1>3. FileChained'
  BY <1>2 DEF FileChained, Linked, Readable, Parses, LineOK, seq_at, prev_at
<1>4. EnvelopeFits'
  <2>1. checked_envelope(next_seq, c, prev, Key).content = c
    BY DEF checked_envelope
  <2> QED
    BY <1>1, <1>2, <2>1 DEF EnvelopeFits
<1>5. HeadMatchesFile'
  BY <1>1, <1>2 DEF HeadMatchesFile, head_id
<1>6. OnlyTailTorn' /\ AckedDurable'
  BY <1>2 DEF OnlyTailTorn, AckedDurable, Unharmed
<1> QED
  BY <1>3, <1>4, <1>5, <1>6 DEF FileInv

\* The written line extends the chain and leaves every earlier line alone.
LEMMA WriteStep ==
  ASSUME IInv, NEW t \in Threads, Write(t)
  PROVE  FileInv'
<1> USE DEF IInv, TypeOK
<1>1. /\ live /\ holder = t /\ pc[t] = "write"
      /\ \A u \in Threads : u # t => pc[u] = "idle"
      /\ pc' = [pc EXCEPT ![t] = "commit"] /\ envelope' = envelope
  BY ConstantsAssumption DEF Write, LockDiscipline
<1>2. /\ live' = live /\ faulted' = faulted /\ damaged' = damaged
      /\ acked' = acked /\ next_seq' = next_seq /\ prev' = prev
  BY DEF Write, memory, history
<1>3. CASE faulted
  BY <1>2, <1>3 DEF FileInv, FileChained, HeadMatchesFile, EnvelopeFits,
                    OnlyTailTorn, AckedDurable, Unharmed
<1>4. CASE ~faulted
  <2> DEFINE e == envelope[t]
  <2>1. Linked(lines, Key) /\ Readable(lines) /\ nl
    BY <1>1, <1>4 DEF FileChained
  <2>2. next_seq = Len(lines) /\ prev = head_id(lines, Len(lines))
    BY <1>1, <1>4 DEF HeadMatchesFile
  <2>3. /\ e \in Envelope
        /\ e = checked_envelope(Len(lines), e.content, head_id(lines, Len(lines)), Key)
    BY <1>1, <1>4, <2>2 DEF EnvelopeFits, EnvelopeBuilt
  <2>4. lines' = Append(lines, e) /\ nl' = TRUE
    BY <2>1 DEF Write, append_bytes, put
  <2> HIDE DEF e
  <2>5. Len(lines) \in Nat
    BY LenProperties
  <2>6. /\ Readable(lines') /\ Linked(lines', Key)
        /\ Len(lines') = Len(lines) + 1 /\ lines'[Len(lines')] = e
        /\ \A i \in 1..Len(lines) : lines'[i] = lines[i]
    BY <2>1, <2>3, <2>4, <2>5, LinkedAppend
  <2>7. FileChained'
    BY <2>4, <2>6 DEF FileChained
  <2>8. HeadMatchesFile'
    <3>1. pc'[t] = "commit" /\ next_seq' = Len(lines') - 1
      BY <1>1, <1>2, <2>2, <2>5, <2>6
    <3>2. head_id(lines', Len(lines)) = head_id(lines, Len(lines))
      BY <2>5, <2>6 DEF head_id
    <3> QED
      BY <1>2, <2>2, <3>1, <3>2 DEF HeadMatchesFile
  <2>9. EnvelopeFits'
    <3>1. lines' # <<>>
      BY <2>5, <2>6, EmptySeq
    <3>2. envelope'[t] = lines'[Len(lines')]
      BY <1>1, <2>6 DEF e
    <3>3. pc'[t] = "commit" /\ \A u \in Threads : u # t => pc'[u] = "idle"
      BY <1>1
    <3> QED
      BY <3>1, <3>2, <3>3 DEF EnvelopeFits
  <2>10. OnlyTailTorn'
    BY <2>5, <2>6 DEF OnlyTailTorn, Readable, Parses
  <2>11. AckedDurable'
    <3> SUFFICES ASSUME Unharmed', NEW a \in acked'
                 PROVE  a.seq < Len(lines') /\ lines'[a.seq + 1] = a
      BY DEF AckedDurable
    <3>1. a \in Envelope /\ a.seq < Len(lines) /\ lines[a.seq + 1] = a
      BY <1>2 DEF AckedDurable, Unharmed
    <3>2. a.seq \in Nat
      BY <3>1 DEF Envelope
    <3> QED
      BY <2>5, <2>6, <3>1, <3>2
  <2> QED
    BY <2>7, <2>8, <2>9, <2>10, <2>11 DEF FileInv
<1> QED
  BY <1>3, <1>4

\* A failed write that left nothing behind changes nothing but the lock.
LEMMA FailStep ==
  ASSUME HealthyTears, IInv, NEW t \in Threads, Fail(t)
  PROVE  FileInv'
<1> USE DEF IInv, TypeOK
<1>1. lines' = lines /\ nl' = nl
  <2>1. PICK how \in FailTears : append_bytes(envelope[t], how)
    BY DEF Fail
  <2>2. how = "none"
    BY DEF HealthyTears
  <2> QED
    BY <2>1, <2>2 DEF append_bytes
<1>2. /\ live' = live /\ faulted' = faulted /\ damaged' = damaged
      /\ acked' = acked /\ next_seq' = next_seq /\ prev' = prev
  BY DEF Fail, memory, history
<1>3. /\ \A u \in Threads : pc'[u] = "idle"
      /\ \A u \in Threads : pc[u] # "commit"
  BY ConstantsAssumption DEF Fail, release, LockDiscipline
<1>4. FileChained'
  BY <1>1, <1>2 DEF FileChained, Linked, Readable, Parses, LineOK, seq_at, prev_at
<1>5. EnvelopeFits'
  BY <1>3 DEF EnvelopeFits
<1>6. HeadMatchesFile'
  BY <1>1, <1>2, <1>3 DEF HeadMatchesFile, head_id
<1>7. OnlyTailTorn' /\ AckedDurable'
  BY <1>1, <1>2 DEF OnlyTailTorn, AckedDurable, Unharmed
<1> QED
  BY <1>4, <1>5, <1>6, <1>7 DEF FileInv

\* The commit catches the cached head up with the file.
LEMMA CommitStep ==
  ASSUME IInv, NEW t \in Threads, Commit(t)
  PROVE  FileInv'
<1> USE DEF IInv, TypeOK
<1>1. /\ live /\ pc[t] = "commit"
      /\ next_seq' = next_seq + 1 /\ prev' = envelope[t].id
      /\ acked' = acked \cup {envelope[t]}
      /\ \A u \in Threads : pc'[u] = "idle"
  BY ConstantsAssumption DEF Commit, release, LockDiscipline
<1>2. /\ lines' = lines /\ nl' = nl /\ live' = live /\ faulted' = faulted
      /\ damaged' = damaged
  BY DEF Commit, file
<1>3. CASE faulted
  BY <1>2, <1>3 DEF FileInv, FileChained, HeadMatchesFile, EnvelopeFits,
                    OnlyTailTorn, AckedDurable, Unharmed
<1>4. CASE ~faulted
  <2>1. lines # <<>> /\ envelope[t] = lines[Len(lines)]
    BY <1>1, <1>4 DEF EnvelopeFits
  <2>2. Len(lines) \in Nat /\ Len(lines) > 0
    BY <2>1, EmptySeq
  <2>3. next_seq = Len(lines) - 1
    BY <1>1, <1>4 DEF HeadMatchesFile
  <2>4. FileChained'
    BY <1>2 DEF FileChained, Linked, Readable, Parses, LineOK, seq_at, prev_at
  <2>5. EnvelopeFits'
    BY <1>1 DEF EnvelopeFits
  <2>6. HeadMatchesFile'
    BY <1>1, <1>2, <2>1, <2>2, <2>3 DEF HeadMatchesFile, head_id
  <2>7. envelope[t].seq = Len(lines) - 1
    <3>1. Linked(lines, Key) /\ Parses(lines, Len(lines))
      BY <1>1, <1>4 DEF FileChained, Readable
    <3> QED
      BY <2>1, <2>2, <3>1 DEF Linked
  <2>8. AckedDurable'
    BY <1>1, <1>2, <2>1, <2>2, <2>7 DEF AckedDurable, Unharmed
  <2>9. OnlyTailTorn'
    BY <1>2 DEF OnlyTailTorn, Unharmed
  <2> QED
    BY <2>4, <2>5, <2>6, <2>8, <2>9 DEF FileInv
<1> QED
  BY <1>3, <1>4

\* A crash leaves the file as it is or adds one torn line behind it.
LEMMA CrashStep ==
  ASSUME HealthyTears, IInv, Crash
  PROVE  FileInv'
<1> USE DEF IInv, TypeOK
<1>1. /\ live /\ ~live' /\ faulted' = faulted /\ damaged' = damaged
      /\ acked' = acked /\ \A t \in Threads : pc'[t] = "idle"
  <2>1. live /\ ~live'
    BY Zenon DEF Crash
  <2>2. faulted' = faulted /\ damaged' = damaged /\ acked' = acked
        /\ pc' = [t \in Threads |-> "idle"]
    BY DEF Crash
  <2> QED
    BY <2>1, <2>2
<1>2. HeadMatchesFile' /\ EnvelopeFits'
  BY <1>1 DEF HeadMatchesFile, EnvelopeFits
<1>3. CASE faulted
  BY <1>1, <1>2, <1>3 DEF FileInv, FileChained, OnlyTailTorn, AckedDurable, Unharmed
<1>4. ASSUME ~faulted, lines' = lines, nl' = nl PROVE FileInv'
  <2>1. FileChained'
    BY <1>1, <1>4 DEF FileChained, Linked, Readable, Parses, LineOK, seq_at, prev_at
  <2>2. OnlyTailTorn' /\ AckedDurable'
    BY <1>1, <1>4 DEF OnlyTailTorn, AckedDurable, Unharmed
  <2> QED
    BY <1>2, <2>1, <2>2 DEF FileInv
<1>5. ASSUME ~faulted, lines' = Append(lines, Torn) PROVE FileInv'
  <2>1. Linked(lines, Key) /\ Readable(lines)
    BY <1>1, <1>5 DEF FileChained
  <2>2. Torn \in Line /\ Len(lines) \in Nat
    BY LenProperties DEF Line
  <2>3. /\ lines' \in Seq(Line) /\ Len(lines') = Len(lines) + 1
        /\ \A i \in 1..Len(lines) : lines'[i] = lines[i]
        /\ lines'[Len(lines')] = Torn
    BY <1>5, <2>2, AppendProperties
  <2>4. ~Parses(lines', Len(lines'))
    BY <2>2, <2>3 DEF Parses
  <2>5. Linked(lines', Key)
    BY <2>1, <2>2, <2>3, <2>4, LinkedAgree
  <2>6. lines' # <<>>
    BY <2>2, <2>3, EmptySeq
  <2>7. FileChained'
    BY <1>1, <2>3, <2>5, <2>6 DEF FileChained
  <2>8. OnlyTailTorn'
    BY <2>1, <2>2, <2>3 DEF OnlyTailTorn, Readable, Parses
  <2>9. AckedDurable'
    <3> SUFFICES ASSUME Unharmed', NEW a \in acked'
                 PROVE  a.seq < Len(lines') /\ lines'[a.seq + 1] = a
      BY DEF AckedDurable
    <3>1. a \in Envelope /\ a.seq < Len(lines) /\ lines[a.seq + 1] = a
      BY <1>1 DEF AckedDurable, Unharmed
    <3>2. a.seq \in Nat
      BY <3>1 DEF Envelope
    <3> QED
      BY <2>2, <2>3, <3>1, <3>2
  <2> QED
    BY <1>2, <2>7, <2>8, <2>9 DEF FileInv
<1>6. ASSUME ~faulted
      PROVE  (lines' = lines /\ nl' = nl) \/ lines' = Append(lines, Torn)
  <2>1. CASE UNCHANGED file
    BY <2>1 DEF file
  <2>2. CASE \E t \in Threads, how \in CrashTears :
               pc[t] = "write" /\ append_bytes(envelope[t], how)
    <3> PICK t \in Threads, how \in CrashTears :
               pc[t] = "write" /\ append_bytes(envelope[t], how)
      BY <2>2
    <3>1. nl /\ how \in {"none", "part"}
      BY <1>1, <1>6 DEF FileChained, HealthyTears
    <3> QED
      BY <3>1 DEF append_bytes, put
  <2> QED
    BY <2>1, <2>2 DEF Crash
<1> QED
  BY <1>3, <1>4, <1>5, <1>6

\* Damage in the middle shortens the readable prefix and nothing else.
LEMMA DamageStep ==
  ASSUME IInv, DamageLine
  PROVE  FileInv'
<1> USE DEF IInv, TypeOK
<1>1. PICK i \in 1..(Len(lines) - 1) : lines' = [lines EXCEPT ![i] = Torn]
  BY DEF DamageLine
<1>2. Len(lines) \in Nat /\ Torn \in Line /\ i \in 1..Len(lines)
  BY LenProperties DEF Line
<1>3. /\ lines' \in Seq(Line) /\ Len(lines') = Len(lines)
      /\ \A j \in 1..Len(lines) : lines'[j] = IF j = i THEN Torn ELSE lines[j]
  BY <1>1, <1>2, ExceptSeq
<1>4. ~live /\ ~live' /\ damaged' /\ nl' = nl /\ faulted' = faulted
  <2>1. ~live /\ live' = live /\ damaged'
    BY Zenon DEF DamageLine
  <2>2. nl' = nl /\ faulted' = faulted
    BY DEF DamageLine
  <2> QED
    BY <2>1, <2>2
<1>5. \A t \in Threads : pc'[t] = "idle"
  BY <1>4, ConstantsAssumption DEF DamageLine, calls, LockDiscipline
<1>6. HeadMatchesFile' /\ EnvelopeFits' /\ OnlyTailTorn' /\ AckedDurable'
  BY <1>4, <1>5 DEF HeadMatchesFile, EnvelopeFits, OnlyTailTorn, AckedDurable, Unharmed
<1>7. FileChained'
  <2> SUFFICES ASSUME ~faulted
               PROVE  /\ Linked(lines', Key)
                      /\ ~nl => lines' # <<>> /\ lines'[Len(lines')] = Torn
    BY <1>4 DEF FileChained
  <2>1. /\ Linked(lines, Key)
        /\ ~nl => lines # <<>> /\ lines[Len(lines)] = Torn
    BY DEF FileChained
  <2>2. \A j \in 1..Len(lines') : Parses(lines', j) => j < i
    BY <1>2, <1>3 DEF Parses
  <2>3. Linked(lines', Key)
    BY <1>2, <1>3, <2>1, <2>2, LinkedAgree
  <2>4. lines' # <<>>
    BY <1>2, <1>3, EmptySeq
  <2> QED
    BY <1>2, <1>3, <2>1, <2>3, <2>4
<1> QED
  BY <1>6, <1>7 DEF FileInv

\* A step that changes none of the variables FileInv speaks of.
LEMMA IdleStep ==
  ASSUME IInv, UNCHANGED <<file, live, memory, calls, history>>
  PROVE  FileInv'
  BY DEF IInv, FileInv, file, memory, calls, history, FileChained, Linked, Readable,
         Parses, LineOK, seq_at, prev_at, HeadMatchesFile, head_id,
         EnvelopeFits, OnlyTailTorn, AckedDurable, Unharmed

LEMMA IInvInit == Init => IInv
<1> SUFFICES ASSUME Init PROVE IInv
  OBVIOUS
<1>1. Typed
  BY TypedInit
<1>2. LockDiscipline
  BY ConstantsAssumption DEF Init, LockDiscipline
<1>3. Len(lines) = 0
  BY EmptySeq DEF Init
<1>4. FileChained /\ HeadMatchesFile /\ EnvelopeFits
  BY <1>3 DEF Init, FileChained, Linked, HeadMatchesFile, EnvelopeFits
<1>5. OnlyTailTorn /\ AckedDurable
  BY <1>3 DEF Init, OnlyTailTorn, AckedDurable
<1> QED
  BY <1>1, <1>2, <1>4, <1>5 DEF IInv, Typed

LEMMA IInvNext == HealthyTears /\ IInv /\ [Next]_vars => IInv'
<1> SUFFICES ASSUME HealthyTears, IInv, [Next]_vars PROVE IInv'
  OBVIOUS
<1>1. Typed' /\ LockDiscipline'
  BY TypedNext, LockNext DEF IInv, Typed
<1>2. FileInv'
  <2>1. CASE Resume
    BY <2>1, ResumeStep
  <2>2. CASE ResumeFault
    <3>1. faulted'
      BY <2>2, Zenon DEF ResumeFault
    <3> QED
      BY <3>1 DEF FileInv, FileChained, HeadMatchesFile, EnvelopeFits,
                  OnlyTailTorn, AckedDurable, Unharmed
  <2>3. ASSUME NEW t \in Threads, Step(t) PROVE FileInv'
    <3>1. CASE Reject(t)
      BY <3>1, IdleStep DEF Reject
    <3> QED
      BY <2>3, <3>1, BeginStep, WriteStep, FailStep, CommitStep DEF Step
  <2>4. CASE Crash
    BY <2>4, CrashStep
  <2>5. CASE DamageLine
    BY <2>5, DamageStep
  <2>6. CASE UNCHANGED vars
    BY <2>6, IdleStep DEF vars
  <2> QED
    BY <2>1, <2>2, <2>3, <2>4, <2>5, <2>6 DEF Next
<1> QED
  BY <1>1, <1>2 DEF IInv, Typed, FileInv

\* The inductive invariant holds in every reachable state.
THEOREM Inductive == ASSUME HealthyTears PROVE Spec => []IInv
  BY HealthyTears, IInvInit, IInvNext, PTL DEF Spec

-----------------------------------------------------------------------------
(***************************************************************************)
(* What the recorder guarantees.                                           *)
(***************************************************************************)
\* An event whose append returned stays in the log at its position, whatever
\* the threads, the crashes, the torn tails and the dropped events after it.
THEOREM Durability == ASSUME HealthyTears PROVE Spec => []AckedDurable
<1>1. IInv => AckedDurable
  BY DEF IInv
<1> QED
  BY <1>1, HealthyTears, Inductive, PTL

\* The log of a live process verifies: seq, prev and id of every line fit,
\* even after damage in the middle that a resume cut away.
THEOREM LiveIntegrity == ASSUME HealthyTears PROVE Spec => []LiveLogVerifies
<1>1. IInv => LiveLogVerifies
  <2> SUFFICES ASSUME IInv, live, ~faulted PROVE ChainOK(lines, Key)
    BY DEF LiveLogVerifies
  <2> QED
    BY ReadableLinkedOK DEF IInv, FileChained, TypeOK
<1> QED
  BY <1>1, HealthyTears, Inductive, PTL

\* Nothing is ever written behind a torn tail.
THEOREM TornTailIsLast == ASSUME HealthyTears PROVE Spec => []OnlyTailTorn
<1>1. IInv => OnlyTailTorn
  BY DEF IInv
<1> QED
  BY <1>1, HealthyTears, Inductive, PTL

\* The chain head in memory is the one of the file whenever no thread is
\* between its write and its commit.
THEOREM CachedHead == ASSUME HealthyTears PROVE Spec => []HeadMatchesFile
<1>1. IInv => HeadMatchesFile
  BY DEF IInv
<1> QED
  BY <1>1, HealthyTears, Inductive, PTL

\* Harm to the file is never forgotten.
LEMMA HarmStays == [Next]_vars /\ Unharmed' => Unharmed
  BY DEF Next, vars, Step, Resume, ResumeFault, Begin, Reject, Write, Fail, Commit,
         Crash, DamageLine, history, Unharmed

\* Only a resume that found no readable line moves a file away: the whole log.
LEMMA QuarantineGrows ==
  ASSUME [Next]_vars, NEW f \in quarantined' \ quarantined
  PROVE  f = lines /\ \E k \in 0..Len(lines) : k = 0 /\ k < Len(lines) /\ IsValidLen(lines, k)
<1>1. CASE Resume
  BY <1>1 DEF Resume, clean, file
<1>2. CASE ResumeFault
  BY <1>2 DEF ResumeFault, file
<1>3. ASSUME NEW t \in Threads, Step(t) PROVE quarantined' = quarantined
  BY <1>3 DEF Step, Begin, Reject, Write, Fail, Commit, file
<1>4. CASE Crash
  BY <1>4 DEF Crash, file
<1>5. CASE DamageLine
  BY <1>5 DEF DamageLine
<1>6. CASE UNCHANGED vars
  BY <1>6 DEF vars, file
<1> QED
  BY <1>1, <1>2, <1>3, <1>4, <1>5, <1>6 DEF Next

\* A quarantined file holds no event: what a resume moves away is one torn line.
THEOREM Quarantine == ASSUME HealthyTears PROVE Spec => []QuarantineHoldsNoEvent
<1>1. Init => QuarantineHoldsNoEvent
  BY DEF Init, QuarantineHoldsNoEvent
<1>2. IInv /\ QuarantineHoldsNoEvent /\ [Next]_vars => QuarantineHoldsNoEvent'
  <2> SUFFICES ASSUME IInv, QuarantineHoldsNoEvent, [Next]_vars, Unharmed',
                      NEW f \in quarantined', NEW i \in 1..Len(f)
               PROVE  f[i] = Torn
    BY DEF QuarantineHoldsNoEvent
  <2>1. Unharmed
    BY HarmStays
  <2>2. CASE f \in quarantined
    BY <2>1, <2>2 DEF QuarantineHoldsNoEvent
  <2>3. CASE f \notin quarantined
    <3>1. f = lines /\ \E k \in 0..Len(lines) : k = 0 /\ k < Len(lines) /\ IsValidLen(lines, k)
      BY <2>3, QuarantineGrows
    <3>2. lines[1] = Torn /\ Len(lines) \in Nat /\ 0 < Len(lines)
      BY <3>1, LenProperties DEF IsValidLen, IInv, TypeOK
    <3>3. Len(lines) = 1
      <4>1. \A j \in 1..(Len(lines) - 1) : lines[j] # Torn
        BY <2>1 DEF IInv, OnlyTailTorn
      <4> QED
        BY <3>2, <4>1
    <3> QED
      BY <3>1, <3>2, <3>3
  <2> QED
    BY <2>2, <2>3
<1>3. Spec => []IInv
  BY HealthyTears, Inductive
<1> QED
  BY <1>1, <1>2, <1>3, PTL DEF Spec

-----------------------------------------------------------------------------
(***************************************************************************)
(* The recorder implements the abstract log.                               *)
(***************************************************************************)
\* The record of a file: the contents of its readable lines.
record(ls) == [i \in 1..ValidLen(ls) |-> ls[i].content]

\* Two files that agree on their readable lines have the same record.
LEMMA SameRecord ==
  ASSUME NEW ls, NEW ms, ValidLen(ls) = ValidLen(ms),
         \A i \in 1..ValidLen(ls) : ls[i] = ms[i]
  PROVE  record(ls) = record(ms)
  BY DEF record

\* Writing a line behind a readable file appends its content to the record.
LEMMA GrowRecord ==
  ASSUME NEW ls \in Seq(Line), Readable(ls), NEW e \in Envelope
  PROVE  record(Append(ls, e)) = Append(record(ls), e.content)
<1> DEFINE n == Len(ls)
           ms == Append(ls, e)
<1>1. e \in Line /\ e # Torn
  BY TornAssumption DEF Line
<1>2. /\ n \in Nat /\ ms \in Seq(Line) /\ Len(ms) = n + 1 /\ ms[n + 1] = e
      /\ \A i \in 1..n : ms[i] = ls[i]
  BY <1>1, AppendProperties, LenProperties
<1>3. Readable(ms)
  BY <1>1, <1>2 DEF Readable, Parses
<1>4. ValidLen(ls) = n /\ ValidLen(ms) = n + 1
  BY <1>2, <1>3, ReadableValidLen
<1> HIDE DEF n, ms
<1>5. \A i \in 1..n : ls[i].content \in Contents
  BY ElementOfSeq DEF n, Readable, Parses, Line, Envelope
<1>6. record(ls) \in [1..n -> Contents]
  BY <1>4, <1>5 DEF record
<1>7. record(ls) \in Seq(Contents)
  BY <1>2, <1>6, SeqDef
<1>8. Len(record(ls)) = n
  BY <1>2, <1>6, <1>7, LenProperties
<1>9. e.content \in Contents
  BY DEF Envelope
<1>10. /\ Append(record(ls), e.content) \in Seq(Contents)
       /\ Len(Append(record(ls), e.content)) = n + 1
       /\ \A i \in 1..n : Append(record(ls), e.content)[i] = record(ls)[i]
       /\ Append(record(ls), e.content)[n + 1] = e.content
  BY <1>7, <1>8, <1>9, AppendProperties
<1>11. record(ms) \in [1..(n + 1) -> Contents]
  BY <1>2, <1>4, <1>5, <1>9 DEF record
<1>12. record(ms) \in Seq(Contents) /\ Len(record(ms)) = n + 1
  <2>1. record(ms) \in Seq(Contents)
    BY <1>2, <1>11, SeqDef
  <2> QED
    BY <1>2, <1>11, <2>1, LenProperties
<1>13. ASSUME NEW i \in 1..(n + 1)
       PROVE  record(ms)[i] = Append(record(ls), e.content)[i]
  BY <1>2, <1>4, <1>10 DEF record
<1>14. record(ms) = Append(record(ls), e.content)
  BY <1>10, <1>12, <1>13, SeqEqual
<1> QED
  BY <1>14 DEF ms

\* Every step records one event, acknowledges the newest one, or changes
\* neither the record nor the acknowledgements.
LEMMA RefinementStep ==
  ASSUME HealthyTears, IInv, [Next]_vars, Unharmed'
  PROVE  [A!Next]_(A!vars)
<1> DEFINE acks == {e.seq + 1 : e \in acked}
<1> USE DEF IInv, TypeOK
<1>0. ~faulted
  BY HarmStays DEF Unharmed
<1>1. SUFFICES \/ record(lines') = record(lines) /\ acked' = acked
               \/ \E c \in Contents :
                    record(lines') = Append(record(lines), c) /\ acked' = acked
               \/ /\ record(lines') = record(lines) /\ record(lines) # <<>>
                  /\ acks' = acks \cup {Len(record(lines))}
  BY DEF A!Next, A!vars, A!Record, A!Acknowledge, record
<1>2. CASE Resume
  <2> PICK k \in 0..Len(lines) : IsValidLen(lines, k) /\ adopt(k) /\ clean(k)
    BY <1>2 DEF Resume
  <2>1. Len(lines) \in Nat /\ Parses(lines, k)
    BY LenProperties DEF IsValidLen
  <2>2. /\ lines' \in Seq(Line) /\ Len(lines') = k
        /\ \A i \in 1..k : lines'[i] = lines[i]
    <3>1. CASE k = Len(lines) /\ UNCHANGED file
      BY <3>1 DEF file
    <3>2. CASE k = 0 /\ lines' = <<>>
      BY <3>2, EmptySeq
    <3>3. CASE 0 < k /\ k < Len(lines) /\ lines' = SubSeq(lines, 1, k)
      BY <2>1, <3>3, SubSeqProperties
    <3> QED
      BY <3>1, <3>2, <3>3 DEF clean
  <2>3. Readable(lines')
    BY <2>1, <2>2 DEF Readable, Parses
  <2>4. ValidLen(lines) = k /\ ValidLen(lines') = k
    BY <2>2, <2>3, ValidLenUnique, ReadableValidLen
  <2> QED
    BY <1>2, <2>2, <2>4, SameRecord DEF Resume, history
<1>3. CASE ResumeFault
  BY <1>3, Zenon DEF ResumeFault, Unharmed
<1>4. ASSUME NEW t \in Threads, NEW c \in Contents, Begin(t, c)
      PROVE  record(lines') = record(lines) /\ acked' = acked
  BY <1>4 DEF Begin, file, history
<1>5. ASSUME NEW t \in Threads, Reject(t)
      PROVE  record(lines') = record(lines) /\ acked' = acked
  BY <1>5 DEF Reject, file, history
<1>6. ASSUME NEW t \in Threads, Write(t)
      PROVE  /\ \E c \in Contents : record(lines') = Append(record(lines), c)
             /\ acked' = acked
  <2>1. live /\ envelope[t] \in Envelope
    BY <1>6, ConstantsAssumption DEF Write, LockDiscipline, EnvelopeBuilt
  <2>2. Readable(lines) /\ nl
    BY <1>0, <2>1 DEF FileChained
  <2>3. lines' = Append(lines, envelope[t])
    BY <1>6, <2>2 DEF Write, append_bytes, put
  <2>4. record(lines') = Append(record(lines), envelope[t].content)
    BY <2>1, <2>2, <2>3, GrowRecord
  <2>5. envelope[t].content \in Contents
    BY <2>1 DEF Envelope
  <2> QED
    BY <1>6, <2>4, <2>5 DEF Write, history
<1>7. ASSUME NEW t \in Threads, Fail(t)
      PROVE  record(lines') = record(lines) /\ acked' = acked
  <2> PICK how \in FailTears : append_bytes(envelope[t], how)
    BY <1>7 DEF Fail
  <2>1. how = "none"
    BY DEF HealthyTears
  <2> QED
    BY <1>7, <2>1 DEF append_bytes, Fail, history
<1>8. ASSUME NEW t \in Threads, Commit(t)
      PROVE  /\ record(lines') = record(lines) /\ record(lines) # <<>>
             /\ acks' = acks \cup {Len(record(lines))}
  <2>1. /\ live /\ pc[t] = "commit"
        /\ lines' = lines /\ acked' = acked \cup {envelope[t]}
    BY <1>8, ConstantsAssumption DEF Commit, LockDiscipline, file
  <2>2. lines # <<>> /\ envelope[t] = lines[Len(lines)]
    BY <1>0, <2>1 DEF EnvelopeFits
  <2>3. Len(lines) \in Nat /\ Len(lines) > 0
    BY <2>2, EmptySeq
  <2>4. Readable(lines) /\ Linked(lines, Key)
    BY <1>0, <2>1 DEF FileChained
  <2>5. envelope[t].seq = Len(lines) - 1
    BY <2>2, <2>3, <2>4 DEF Linked, Readable
  <2>6. ValidLen(lines) = Len(lines)
    BY <2>4, ReadableValidLen
  <2>7. record(lines) \in [1..Len(lines) -> Contents]
    BY <2>3, <2>4, <2>6, ElementOfSeq DEF record, Readable, Parses, Line, Envelope
  <2>8. record(lines) \in Seq(Contents)
    BY <2>3, <2>7, SeqDef
  <2>9. Len(record(lines)) = Len(lines)
    BY <2>3, <2>7, <2>8, LenProperties
  <2>10. record(lines) # <<>>
    BY <2>3, <2>9, EmptySeq
  <2>11. acks' = acks \cup {envelope[t].seq + 1}
    BY <2>1
  <2> QED
    BY <2>1, <2>3, <2>5, <2>9, <2>10, <2>11
<1>9. CASE Crash
  <2>1. acked' = acked /\ live
    <3>1. live
      BY <1>9, Zenon DEF Crash
    <3> QED
      BY <1>9, <3>1 DEF Crash
  <2>2. Readable(lines) /\ nl
    BY <1>0, <2>1 DEF FileChained
  <2>3. CASE lines' = lines
    BY <2>1, <2>3
  <2>4. CASE lines' = Append(lines, Torn)
    <3>1. Torn \in Line /\ Len(lines) \in Nat
      BY LenProperties DEF Line
    <3>2. /\ lines' \in Seq(Line) /\ Len(lines') = Len(lines) + 1
          /\ \A i \in 1..Len(lines) : lines'[i] = lines[i]
          /\ lines'[Len(lines) + 1] = Torn
      BY <2>4, <3>1, AppendProperties
    <3>3. Len(lines) \in 0..Len(lines') /\ IsValidLen(lines', Len(lines))
      BY <2>2, <3>1, <3>2 DEF IsValidLen, Readable, Parses
    <3>4. ValidLen(lines') = Len(lines) /\ ValidLen(lines) = Len(lines)
      BY <2>2, <3>2, <3>3, ValidLenUnique, ReadableValidLen
    <3> QED
      BY <2>1, <3>2, <3>4, SameRecord
  <2>5. lines' = lines \/ lines' = Append(lines, Torn)
    <3>1. CASE UNCHANGED file
      BY <3>1 DEF file
    <3>2. CASE \E t \in Threads, how \in CrashTears :
                 pc[t] = "write" /\ append_bytes(envelope[t], how)
      <4> PICK t \in Threads, how \in CrashTears :
                 pc[t] = "write" /\ append_bytes(envelope[t], how)
        BY <3>2
      <4>1. how \in {"none", "part"}
        BY DEF HealthyTears
      <4> QED
        BY <2>2, <4>1 DEF append_bytes, put
    <3> QED
      BY <1>9, <3>1, <3>2 DEF Crash
  <2> QED
    BY <2>3, <2>4, <2>5
<1>10. CASE DamageLine
  BY <1>10, Zenon DEF DamageLine, Unharmed
<1>11. CASE UNCHANGED vars
  BY <1>11 DEF vars, file, history
<1> HIDE DEF acks
<1> QED
  BY <1>2, <1>3, <1>4, <1>5, <1>6, <1>7, <1>8, <1>9, <1>10, <1>11 DEF Next, Step

\* Seen through its readable lines and its returned appends, the recorder with
\* its lock, its file, its crashes and its resumes is the abstract log.
THEOREM Refinement == ASSUME HealthyTears PROVE Spec => RefinesAuditLog
<1>1. Init => A!Init
  <2> SUFFICES ASSUME Init PROVE A!Init
    OBVIOUS
  <2>1. lines \in Seq(Line) /\ Len(lines) = 0
    BY EmptySeq DEF Init
  <2>2. Readable(lines)
    BY <2>1 DEF Readable, Parses
  <2>3. ValidLen(lines) = 0
    BY <2>1, <2>2, ReadableValidLen
  <2>4. [i \in 1..ValidLen(lines) |-> lines[i].content] = <<>>
    BY <2>3
  <2> QED
    BY <2>4 DEF Init, A!Init
<1>2. IInv /\ [Next]_vars => [Unharmed' => A!Next]_(A!vars)
  BY HealthyTears, RefinementStep
<1>3. Spec => []IInv
  BY HealthyTears, Inductive
<1> QED
  BY <1>1, <1>2, <1>3, PTL DEF Spec, RefinesAuditLog
=============================================================================
