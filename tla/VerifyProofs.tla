---------------------------- MODULE VerifyProofs ----------------------------
(***************************************************************************)
(* Theorems about Verify, for logs of any length, any contents and keys    *)
(* and any number of edits.                                                *)
(***************************************************************************)
EXTENDS Verify, ChainProofs

-----------------------------------------------------------------------------
(***************************************************************************)
(* Types.                                                                  *)
(***************************************************************************)
\* The history a rechained line hashes.
link(k, cs, key, m) == [seq |-> k + m - 1, content |-> cs[m], key |-> key]
hist(ls, k, cs, key, m) == head_id(ls, k) \o [n \in 1..m |-> link(k, cs, key, n)]

LEMMA HistType ==
  ASSUME NEW ls \in Seq(Line), NEW k \in 0..Len(ls), Parses(ls, k),
         NEW n \in Nat, NEW cs \in [1..n -> Contents], NEW key \in Keys, NEW m \in 0..n
  PROVE  /\ hist(ls, k, cs, key, m) \in Digest
         /\ Len(hist(ls, k, cs, key, m)) = Len(head_id(ls, k)) + m
         /\ m > 0 => hist(ls, k, cs, key, m)[Len(hist(ls, k, cs, key, m))].key = key
<1> DEFINE tail == [x \in 1..m |-> link(k, cs, key, x)]
<1>1. k \in Nat /\ m \in Nat
  BY LenProperties
<1>2. \A x \in 1..m : link(k, cs, key, x) \in Link
  BY <1>1 DEF link, Link
<1>3. tail \in [1..m -> Link]
  BY <1>2
<1>4. tail \in Seq(Link)
  BY <1>1, <1>3, SeqDef
<1>5. Len(tail) = m
  BY <1>1, <1>3, <1>4, LenProperties
<1>6. m > 0 => tail[m].key = key
  BY <1>1 DEF link
<1> HIDE DEF tail
<1>7. head_id(ls, k) \in Seq(Link)
  BY HeadType DEF Digest
<1>8. /\ head_id(ls, k) \o tail \in Seq(Link)
      /\ Len(head_id(ls, k) \o tail) = Len(head_id(ls, k)) + m
      /\ m > 0 => (head_id(ls, k) \o tail)[Len(head_id(ls, k)) + m] = tail[m]
  <2> DEFINE h == head_id(ls, k)
  <2> HIDE DEF h
  <2>1. h \in Seq(Link) /\ Len(h) \in Nat
    BY <1>7, LenProperties DEF h
  <2>2. /\ h \o tail \in Seq(Link) /\ Len(h \o tail) = Len(h) + m
        /\ \A x \in 1..(Len(h) + m) :
             (h \o tail)[x] = IF x <= Len(h) THEN h[x] ELSE tail[x - Len(h)]
    BY <1>4, <1>5, <2>1, ConcatProperties
  <2>3. m > 0 => (h \o tail)[Len(h) + m] = tail[m]
    BY <1>1, <2>1, <2>2
  <2> QED
    BY <2>2, <2>3 DEF h
<1>9. hist(ls, k, cs, key, m) = head_id(ls, k) \o tail
  BY DEF hist, tail
<1>10. m > 0 => (head_id(ls, k) \o tail)[Len(head_id(ls, k) \o tail)].key = key
  BY <1>6, <1>8
<1> QED
  BY <1>8, <1>9, <1>10 DEF Digest

\* The lines rechained writes behind the kept ones.
forged(ls, k, cs, key, n) ==
  [m \in 1..n |-> [seq |-> k + m - 1, content |-> cs[m],
                   prev |-> hist(ls, k, cs, key, m - 1), id |-> hist(ls, k, cs, key, m)]]

LEMMA RechainedShape ==
  ASSUME NEW ls \in Seq(Line), NEW k \in 0..Len(ls), Parses(ls, k),
         NEW n \in Nat, NEW cs \in [1..n -> Contents], NEW key \in Keys
  PROVE  /\ rechained(ls, k, cs, key) = SubSeq(ls, 1, k) \o forged(ls, k, cs, key, n)
         /\ forged(ls, k, cs, key, n) \in Seq(Line)
         /\ Len(forged(ls, k, cs, key, n)) = n
         /\ rechained(ls, k, cs, key) \in Seq(Line)
<1>1. cs \in Seq(Contents) /\ Len(cs) = n
  <2>1. cs \in Seq(Contents)
    BY SeqDef
  <2> QED
    BY <2>1, LenProperties
<1>2. rechained(ls, k, cs, key) = SubSeq(ls, 1, k) \o forged(ls, k, cs, key, n)
  BY <1>1 DEF rechained, forged, hist, link
<1>3. \A m \in 1..n : forged(ls, k, cs, key, n)[m] \in Line
  <2> SUFFICES ASSUME NEW m \in 1..n PROVE forged(ls, k, cs, key, n)[m] \in Line
    OBVIOUS
  <2>1. hist(ls, k, cs, key, m - 1) \in Digest /\ hist(ls, k, cs, key, m) \in Digest
    BY HistType
  <2>2. k + m - 1 \in Nat /\ cs[m] \in Contents
    BY LenProperties
  <2> QED
    BY <2>1, <2>2 DEF forged, Line, Envelope
<1>4. forged(ls, k, cs, key, n) \in [1..n -> Line]
  BY <1>3 DEF forged
<1>5. forged(ls, k, cs, key, n) \in Seq(Line)
  BY <1>4, SeqDef
<1>6. Len(forged(ls, k, cs, key, n)) = n
  BY <1>4, <1>5, LenProperties
<1>7. SubSeq(ls, 1, k) \in Seq(Line)
  BY LenProperties, SubSeqProperties
<1> QED
  BY <1>2, <1>5, <1>6, <1>7, ConcatProperties

-----------------------------------------------------------------------------
\* Every edit leaves a file of lines.
LEMMA EditType ==
  ASSUME file \in Seq(Line), NEW N \in Nat, N = MaxEvents,
         Delete \/ Swap \/ Duplicate \/ Tear \/ Modify \/ Rechain
  PROVE  file' \in Seq(Line)
<1>0. Torn \in Line /\ Len(file) \in Nat
  BY LenProperties DEF Line
<1>1. CASE Delete
  <2> PICK k \in 1..Len(file) : file' = without(file, k)
    BY <1>1 DEF Delete
  <2>1. SubSeq(file, 1, k - 1) \in Seq(Line) /\ SubSeq(file, k + 1, Len(file)) \in Seq(Line)
    BY <1>0, SubSeqProperties
  <2> QED
    BY <2>1, ConcatProperties DEF without
<1>2. CASE Swap
  <2> PICK k, m \in 1..Len(file) :
             k < m /\ file' = [file EXCEPT ![k] = file[m], ![m] = file[k]]
    BY <1>2 DEF Swap
  <2>1. file[k] \in Line /\ file[m] \in Line
    BY ElementOfSeq
  <2>2. [file EXCEPT ![k] = file[m]] \in Seq(Line)
        /\ Len([file EXCEPT ![k] = file[m]]) = Len(file)
    BY <2>1, ExceptSeq
  <2>3. [[file EXCEPT ![k] = file[m]] EXCEPT ![m] = file[k]] \in Seq(Line)
    BY <2>1, <2>2, ExceptSeq
  <2> QED
    BY <2>3
<1>3. CASE Duplicate
  <2> PICK k \in 1..Len(file) :
             file' = SubSeq(file, 1, k) \o SubSeq(file, k, Len(file))
    BY <1>3 DEF Duplicate
  <2>1. SubSeq(file, 1, k) \in Seq(Line) /\ SubSeq(file, k, Len(file)) \in Seq(Line)
    BY <1>0, SubSeqProperties
  <2> QED
    BY <2>1, ConcatProperties
<1>4. CASE Tear
  BY <1>0, <1>4, ExceptSeq DEF Tear
<1>5. CASE Modify
  <2> PICK k \in 1..Len(file), c \in Contents :
        /\ file[k] # Torn
        /\ \/ file' = [file EXCEPT ![k].content = c]
           \/ \E key \in EditKeys :
                file' = [file EXCEPT ![k].content = c,
                                     ![k].id = event_id(file[k].seq, c, file[k].prev, key)]
    BY <1>5 DEF Modify
  <2>1. file[k] \in Envelope
    BY ElementOfSeq DEF Line
  <2>2. CASE file' = [file EXCEPT ![k].content = c]
    <3>1. [file[k] EXCEPT !.content = c] \in Line
      BY <2>1 DEF Envelope, Line
    <3> QED
      BY <2>2, <3>1, ExceptSeq
  <2>3. ASSUME NEW key \in EditKeys,
               file' = [file EXCEPT ![k].content = c,
                                    ![k].id = event_id(file[k].seq, c, file[k].prev, key)]
        PROVE  file' \in Seq(Line)
    <3>1. event_id(file[k].seq, c, file[k].prev, key) \in Digest
      BY <2>1, EnvelopeType, KindsAssumption DEF Envelope
    <3> DEFINE e == [file[k] EXCEPT !.content = c,
                                    !.id = event_id(file[k].seq, c, file[k].prev, key)]
    <3>2. e \in Line
      BY <2>1, <3>1 DEF Envelope, Line
    <3>3. file' = [file EXCEPT ![k] = e]
      BY <2>3
    <3> HIDE DEF e
    <3> QED
      BY <3>2, <3>3, ExceptSeq
  <2> QED
    BY <2>2, <2>3
<1>6. CASE Rechain
  <2> PICK k \in 0..Len(file), n \in 1..MaxEvents, key \in EditKeys :
             Parses(file, k) /\ \E cs \in [1..n -> Contents] :
                                 file' = rechained(file, k, cs, key)
    BY <1>6 DEF Rechain
  <2> PICK cs \in [1..n -> Contents] : file' = rechained(file, k, cs, key)
    OBVIOUS
  <2> QED
    BY RechainedShape, KindsAssumption
<1> QED
  BY <1>1, <1>2, <1>3, <1>4, <1>5, <1>6

-----------------------------------------------------------------------------
\* The variables of the verification loop that TypeOK leaves to the reader.
Typed == TypeOK /\ (phase = "loop" => Readable(file))

LEMMA TypedNext == Typed /\ [Next]_vars => Typed'
<1> SUFFICES ASSUME Typed, [Next]_vars PROVE Typed'
  OBVIOUS
<1> USE DEF Typed, TypeOK
<1>1. ASSUME NEW c \in Contents \ Unsupported, Record(c) PROVE Typed'
  <2>1. Len(honest) \in Nat
    BY LenProperties
  <2>2. head_id(honest, Len(honest)) \in Digest
    <3>1. CASE Len(honest) = 0
      BY <3>1, EmptySeq DEF head_id, GENESIS_PREV, Digest
    <3>2. CASE Len(honest) # 0
      <4>1. honest[Len(honest)] \in Envelope
        BY <2>1, <3>2, ElementOfSeq
      <4> QED
        BY <3>2, <4>1 DEF head_id, Envelope
    <3> QED
      BY <3>1, <3>2
  <2>3. honest' \in Seq(Envelope)
    BY <1>1, <2>1, <2>2, EnvelopeType, AppendProperties DEF Record
  <2> QED
    BY <1>1, <2>3 DEF Record, loop
<1>2. CASE Close
  <2>1. file' \in Seq(Line)
    BY <1>2, SeqMonotonic DEF Close, Line
  <2> QED
    BY <1>2, <2>1 DEF Close, log, loop
<1>3. CASE Edit
  <2>1. file' \in Seq(Line)
    BY <1>3, EditType, KindsAssumption DEF Edit
  <2> QED
    BY <1>3, <2>1 DEF Edit, log, loop
<1>4. CASE Read
  <2>1. \/ phase' = "loop" /\ errors' = errors /\ Readable(file)
        \/ phase' = "done" /\ errors' = {report("unreadable")}
    <3>1. CASE Readable(file)
      BY <1>4, <3>1 DEF Read
    <3>2. CASE ~Readable(file)
      BY <1>4, <3>2 DEF Read
    <3> QED
      BY <3>1, <3>2
  <2>2. report("unreadable").what \in ErrorKinds
    BY DEF report, ErrorKinds
  <2>3. \A x \in errors' : x.what \in ErrorKinds
    BY <2>1, <2>2
  <2> QED
    BY <1>4, <2>1, <2>3 DEF Read, log
<1>5. CASE CheckLine
  <2>1. file[i] \in Envelope
    <3>1. i \in 1..Len(file)
      BY <1>5, LenProperties DEF CheckLine
    <3> QED
      BY <1>5, <3>1, ElementOfSeq DEF CheckLine, Readable, Parses, Line
  <2>2. expected_seq' \in Nat /\ expected_prev' \in Digest
    BY <1>5, <2>1 DEF CheckLine, Envelope
  <2>3. /\ run_open_at' \in {file[i].seq, NoLine, run_open_at}
        /\ first_id_mismatch_at' \in {file[i].seq, first_id_mismatch_at}
        /\ i' = i + 1 /\ file[i].seq \in Nat
    BY <1>5, <2>1 DEF CheckLine, Envelope
  <2>4. \A x \in line_errors(file[i]) : x.what \in ErrorKinds
    <3>1. /\ report("version").what \in ErrorKinds /\ report("seq").what \in ErrorKinds
          /\ report("prev").what \in ErrorKinds /\ report("id").what \in ErrorKinds
      BY DEF report, ErrorKinds
    <3>2. line_errors(file[i]) \subseteq
            {report("version"), report("seq"), report("prev"), report("id")}
      BY DEF line_errors
    <3> QED
      BY <3>1, <3>2
  <2>5. errors' = errors \cup line_errors(file[i])
    BY <1>5 DEF CheckLine
  <2>6. \A x \in errors' : x.what \in ErrorKinds
    BY <2>4, <2>5
  <2>7. /\ run_open_at' \in Nat \cup {NoLine}
        /\ first_id_mismatch_at' \in Nat \cup {NoLine} /\ i' \in Nat \ {0}
    BY <2>3
  <2>8. /\ write_key' = write_key /\ honest' = honest /\ file' = file /\ edits' = edits
        /\ phase' = phase /\ hmac_key' = hmac_key /\ ok' = ok
    BY <1>5 DEF CheckLine, log
  <2>9. Readable(file') = Readable(file)
    BY <2>8
  <2> QED
    BY <2>2, <2>6, <2>7, <2>8, <2>9
<1>6. CASE Conclude
  <2>1. ok' \in BOOLEAN
    BY <1>6, Zenon DEF Conclude
  <2>2. errors' = errors
          \cup (IF first_id_mismatch_at = 0 THEN {report("key")} ELSE {})
          \cup (IF run_open_at # NoLine THEN {report("open run")} ELSE {})
    BY <1>6 DEF Conclude
  <2>3. report("key").what \in ErrorKinds /\ report("open run").what \in ErrorKinds
    BY DEF report, ErrorKinds
  <2>4. \A x \in errors' : x.what \in ErrorKinds
    BY <2>2, <2>3
  <2> QED
    BY <1>6, <2>1, <2>4 DEF Conclude, log
<1>7. CASE UNCHANGED vars
  BY <1>7 DEF vars, log, loop
<1> QED
  BY <1>1, <1>2, <1>3, <1>4, <1>5, <1>6, <1>7 DEF Next

LEMMA TypedInit == Init => Typed
<1> SUFFICES ASSUME Init PROVE Typed
  OBVIOUS
<1>1. <<>> \in Digest /\ <<>> \in Seq(Line) /\ <<>> \in Seq(Envelope)
  BY EmptySeq DEF Digest
<1>2. ok \in BOOLEAN /\ phase = "record" /\ \A x \in errors : x.what \in ErrorKinds
  BY DEF Init
<1>3. /\ write_key \in Keys /\ hmac_key \in Keys /\ edits \in Nat /\ i \in Nat \ {0}
      /\ expected_seq \in Nat /\ run_open_at = NoLine /\ first_id_mismatch_at = NoLine
  BY DEF Init
<1>4. expected_prev \in Digest /\ honest \in Seq(Envelope) /\ file \in Seq(Line)
  BY <1>1 DEF Init, GENESIS_PREV
<1> QED
  BY <1>2, <1>3, <1>4 DEF Typed, TypeOK

\* Every variable keeps its type, whatever is recorded and edited.
THEOREM TypeCorrect == Spec => []TypeOK
<1>1. Typed => TypeOK
  BY DEF Typed
<1> QED
  BY <1>1, TypedInit, TypedNext, PTL DEF Spec

-----------------------------------------------------------------------------
(***************************************************************************)
(* What a verified prefix is: each id is the history of the lines before   *)
(* it, so equal ids mean equal prefixes.                                   *)
(***************************************************************************)
\* The links of the first k lines, under one key.
history(ls, k, key) ==
  [m \in 1..k |-> [seq |-> m - 1, content |-> ls[m].content, key |-> key]]

\* Line j is the envelope the recorder writes behind the lines before it.
ChainedLine(ls, j, key) ==
  /\ ls[j].seq = j - 1
  /\ ls[j].prev = history(ls, j - 1, key)
  /\ ls[j].id = history(ls, j, key)

Chained(ls, k, key) == \A j \in 1..k : ChainedLine(ls, j, key)

LEMMA HistoryType ==
  ASSUME NEW ls \in Seq(Line), NEW k \in 0..Len(ls), Parses(ls, k), NEW key \in Keys
  PROVE  history(ls, k, key) \in Seq(Link) /\ Len(history(ls, k, key)) = k
<1>1. k \in Nat
  BY LenProperties
<1>2. \A m \in 1..k : ls[m] \in Envelope
  BY <1>1, ElementOfSeq, LenProperties DEF Parses, Line
<1>3. \A m \in 1..k : [seq |-> m - 1, content |-> ls[m].content, key |-> key] \in Link
  BY <1>1, <1>2 DEF Link, Envelope
<1>4. history(ls, k, key) \in [1..k -> Link]
  BY <1>3 DEF history
<1>5. history(ls, k, key) \in Seq(Link)
  BY <1>1, <1>4, SeqDef
<1> QED
  BY <1>1, <1>4, <1>5, LenProperties

\* Hashing the next content extends the history by its link.
LEMMA HistoryExtend ==
  ASSUME NEW ls \in Seq(Line), NEW k \in 1..Len(ls), Parses(ls, k), NEW key \in Keys
  PROVE  event_id(k - 1, ls[k].content, history(ls, k - 1, key), key) = history(ls, k, key)
<1> DEFINE h == history(ls, k - 1, key)
           x == [seq |-> k - 1, content |-> ls[k].content, key |-> key]
<1>1. k \in Nat /\ k - 1 \in 0..Len(ls) /\ Parses(ls, k - 1) /\ k \in 0..Len(ls)
  BY LenProperties DEF Parses
<1>2. h \in Seq(Link) /\ Len(h) = k - 1
  BY <1>1, HistoryType
<1>3. history(ls, k, key) \in Seq(Link) /\ Len(history(ls, k, key)) = k
  BY <1>1, HistoryType
<1>4. x \in Link
  <2>1. ls[k] \in Envelope
    BY ElementOfSeq, <1>1 DEF Parses, Line
  <2> QED
    BY <1>1, <2>1 DEF Link, Envelope
<1>5. \A m \in 1..(k - 1) : h[m] = history(ls, k, key)[m]
  BY <1>1 DEF history
<1>6. history(ls, k, key)[k] = x
  BY <1>1 DEF history
<1> HIDE DEF h, x
<1>7. /\ Append(h, x) \in Seq(Link) /\ Len(Append(h, x)) = k
      /\ \A m \in 1..(k - 1) : Append(h, x)[m] = h[m]
      /\ Append(h, x)[k] = x
  BY <1>1, <1>2, <1>4, AppendProperties
<1>8. \A m \in 1..k : Append(h, x)[m] = history(ls, k, key)[m]
  BY <1>1, <1>5, <1>6, <1>7
<1>9. Append(h, x) = history(ls, k, key)
  BY <1>3, <1>7, <1>8, SeqEqual
<1> QED
  BY <1>9 DEF h, x, event_id

\* Two chained prefixes whose last ids are equal are equal, and so are the keys
\* they were hashed with.
LEMMA EqualIds ==
  ASSUME NEW ls \in Seq(Line), NEW ms \in Seq(Line), NEW key \in Keys, NEW other \in Keys,
         NEW k \in 1..Len(ls), NEW n \in 1..Len(ms), Parses(ls, k), Parses(ms, n),
         Chained(ls, k, key), Chained(ms, n, other),
         ls[k].id = ms[n].id
  PROVE  k = n /\ key = other /\ \A j \in 1..k : ls[j] = ms[j]
<1>1. k \in Nat /\ n \in Nat /\ k \in 0..Len(ls) /\ n \in 0..Len(ms)
  BY LenProperties
<1>2. history(ls, k, key) = history(ms, n, other)
  BY <1>1 DEF Chained, ChainedLine
<1>3. k = n
  BY <1>1, <1>2, HistoryType
<1>4. \A j \in 1..k : ls[j].content = ms[j].content /\ key = other
  <2> SUFFICES ASSUME NEW j \in 1..k PROVE ls[j].content = ms[j].content /\ key = other
    OBVIOUS
  <2>1. history(ls, k, key)[j] = [seq |-> j - 1, content |-> ls[j].content, key |-> key]
    BY DEF history
  <2>2. history(ms, n, other)[j] = [seq |-> j - 1, content |-> ms[j].content, key |-> other]
    BY <1>3 DEF history
  <2> QED
    BY <1>2, <2>1, <2>2
<1>5. key = other
  BY <1>1, <1>4
<1>6. ASSUME NEW j \in 1..k PROVE ls[j] = ms[j]
  <2>1. ls[j] \in Envelope /\ ms[j] \in Envelope
    BY <1>1, <1>3, ElementOfSeq, LenProperties DEF Parses, Line
  <2>2. history(ls, j - 1, key) = history(ms, j - 1, other)
        /\ history(ls, j, key) = history(ms, j, other)
    BY <1>1, <1>4, <1>5 DEF history
  <2>3. /\ ls[j].seq = ms[j].seq /\ ls[j].content = ms[j].content
        /\ ls[j].prev = ms[j].prev /\ ls[j].id = ms[j].id
    BY <1>3, <1>4, <2>2 DEF Chained, ChainedLine
  <2> QED
    BY <2>1, <2>3 DEF Envelope
<1> QED
  BY <1>3, <1>5, <1>6

-----------------------------------------------------------------------------
(***************************************************************************)
(* The inductive invariant.  An anchored id speaks for all lines up to its *)
(* own only if the lines before it were checked too, so what the loop      *)
(* knows while it reports nothing is stated for the whole prefix it has    *)
(* read, not for the line it is at.                                        *)
(***************************************************************************)
HonestChained == Chained(honest, Len(honest), write_key)

LoopStart ==
  phase \in {"record", "edit"} =>
    i = 1 /\ expected_seq = 0 /\ expected_prev = GENESIS_PREV /\ ~ok

LoopChained ==
  phase = "loop" =>
    /\ i <= Len(file) + 1 /\ ~ok
    /\ errors = {} => /\ Chained(file, i - 1, hmac_key)
                      /\ expected_seq = i - 1
                      /\ expected_prev = history(file, i - 1, hmac_key)

Verdict ==
  phase = "done" /\ ok => Readable(file) /\ Chained(file, Len(file), hmac_key)

VInv == Typed /\ HonestChained /\ LoopStart /\ LoopChained /\ Verdict

\* No lines, no history.
LEMMA NoHistory ==
  ASSUME NEW ls \in Seq(Line), NEW key \in Keys
  PROVE  history(ls, 0, key) = GENESIS_PREV
<1>1. 0 \in 0..Len(ls) /\ Parses(ls, 0)
  BY LenProperties DEF Parses
<1>2. history(ls, 0, key) \in Seq(Link) /\ Len(history(ls, 0, key)) = 0
  BY <1>1, HistoryType
<1> QED
  BY <1>2, EmptySeq DEF GENESIS_PREV

\* A recorded log is made of envelopes, so it parses.
LEMMA EnvelopesParse ==
  ASSUME NEW ls \in Seq(Envelope)
  PROVE  ls \in Seq(Line) /\ Readable(ls)
<1>1. ls \in Seq(Line)
  BY SeqMonotonic DEF Line
<1>2. \A j \in 1..Len(ls) : ls[j] \in Envelope
  BY ElementOfSeq
<1> QED
  BY <1>1, <1>2, TornAssumption DEF Readable, Parses

\* The head of a chained prefix is its history.
LEMMA ChainedHead ==
  ASSUME NEW ls \in Seq(Line), NEW k \in 0..Len(ls), NEW key \in Keys, Chained(ls, k, key)
  PROVE  head_id(ls, k) = history(ls, k, key)
<1>1. k \in Nat
  BY LenProperties
<1>2. CASE k = 0
  BY <1>2, NoHistory DEF head_id
<1>3. CASE k # 0
  BY <1>1, <1>3 DEF head_id, Chained, ChainedLine
<1> QED
  BY <1>2, <1>3

\* A line that agrees with the prefix before it extends the chained prefix.
LEMMA ChainedExtend ==
  ASSUME NEW ls \in Seq(Line), NEW k \in 1..Len(ls), Parses(ls, k), NEW key \in Keys,
         Chained(ls, k - 1, key),
         ls[k].seq = k - 1, ls[k].prev = history(ls, k - 1, key),
         ls[k].id = event_id(ls[k].seq, ls[k].content, ls[k].prev, key)
  PROVE  Chained(ls, k, key) /\ ls[k].id = history(ls, k, key)
<1>1. ls[k].id = history(ls, k, key)
  BY HistoryExtend
<1>2. k \in Nat
  BY LenProperties
<1>3. ChainedLine(ls, k, key)
  BY <1>1 DEF ChainedLine
<1> QED
  BY <1>1, <1>2, <1>3 DEF Chained

\* Chained looks at the first k lines only.
LEMMA ChainedAgree ==
  ASSUME NEW ls \in Seq(Line), NEW ms \in Seq(Line), NEW k \in Nat, NEW key \in Keys,
         \A j \in 1..k : ls[j] = ms[j], Chained(ls, k, key)
  PROVE  Chained(ms, k, key)
<1> SUFFICES ASSUME NEW j \in 1..k PROVE ChainedLine(ms, j, key)
  BY DEF Chained
<1>1. ChainedLine(ls, j, key)
  BY DEF Chained
<1>2. history(ls, j - 1, key) = history(ms, j - 1, key)
      /\ history(ls, j, key) = history(ms, j, key)
  BY DEF history
<1> QED
  BY <1>1, <1>2 DEF ChainedLine

-----------------------------------------------------------------------------
LEMMA HonestChainedRecord ==
  ASSUME Typed, HonestChained, NEW c \in Contents, Record(c)
  PROVE  HonestChained'
<1> DEFINE n == Len(honest) + 1
           e == checked_envelope(Len(honest), c, head_id(honest, Len(honest)), write_key)
<1>0. honest \in Seq(Envelope) /\ write_key \in Keys
  BY DEF Typed, TypeOK
<1>1. honest \in Seq(Line) /\ Readable(honest) /\ Len(honest) \in Nat
  BY <1>0, EnvelopesParse, LenProperties
<1>2. head_id(honest, Len(honest)) = history(honest, Len(honest), write_key)
  BY <1>0, <1>1, ChainedHead DEF HonestChained
<1>3. head_id(honest, Len(honest)) \in Digest
  BY <1>1, HeadType DEF Readable
<1>4. e \in Envelope
  BY <1>0, <1>1, <1>3, EnvelopeType
<1>5. honest' = Append(honest, e) /\ write_key' = write_key
  BY DEF Record
<1>6. /\ e.seq = n - 1 /\ e.prev = history(honest, Len(honest), write_key)
      /\ e.id = event_id(e.seq, e.content, e.prev, write_key)
  BY <1>1, <1>2 DEF checked_envelope
<1> HIDE DEF e
<1>7. /\ honest' \in Seq(Envelope) /\ Len(honest') = n
      /\ \A j \in 1..Len(honest) : honest'[j] = honest[j]
      /\ honest'[n] = e
  BY <1>0, <1>4, <1>5, AppendProperties
<1>8. honest' \in Seq(Line) /\ Readable(honest')
  BY <1>7, EnvelopesParse
<1>9. Chained(honest', n - 1, write_key)
  BY <1>0, <1>1, <1>7, <1>8, ChainedAgree DEF HonestChained
<1>10. history(honest', n - 1, write_key) = history(honest, Len(honest), write_key)
  BY <1>1, <1>7 DEF history
<1>11. n \in 1..Len(honest') /\ Parses(honest', n)
  BY <1>1, <1>7, <1>8 DEF Readable
<1>12. Chained(honest', n, write_key)
  BY <1>0, <1>6, <1>7, <1>8, <1>9, <1>10, <1>11, ChainedExtend
<1> QED
  BY <1>5, <1>7, <1>12 DEF HonestChained

LEMMA LoopChainedCheck ==
  ASSUME Typed, LoopChained, CheckLine
  PROVE  LoopChained'
<1>1. /\ file \in Seq(Line) /\ Readable(file) /\ hmac_key \in Keys /\ phase = "loop"
      /\ i \in 1..Len(file) /\ Len(file) \in Nat
  BY LenProperties DEF Typed, TypeOK, CheckLine
<1>2. /\ file' = file /\ hmac_key' = hmac_key /\ phase' = phase /\ ok' = ok /\ i' = i + 1
      /\ errors' = errors \cup line_errors(file[i])
      /\ expected_seq' = file[i].seq + 1 /\ expected_prev' = file[i].id
  BY DEF CheckLine
<1>3. i' <= Len(file') + 1 /\ ~ok'
  BY <1>1, <1>2 DEF LoopChained
<1>4. ASSUME errors' = {}
      PROVE  /\ Chained(file, i, hmac_key) /\ expected_seq' = i
             /\ expected_prev' = history(file, i, hmac_key)
  <2>1. errors = {} /\ line_errors(file[i]) = {}
    BY <1>2, <1>4
  <2>2. /\ Chained(file, i - 1, hmac_key) /\ expected_seq = i - 1
        /\ expected_prev = history(file, i - 1, hmac_key)
    BY <1>1, <2>1 DEF LoopChained
  <2>3. /\ file[i].seq = expected_seq /\ file[i].prev = expected_prev
        /\ file[i].id = event_id(file[i].seq, file[i].content, file[i].prev, hmac_key)
    BY <2>1 DEF line_errors
  <2>4. Parses(file, i)
    BY <1>1 DEF Readable, Parses
  <2>5. Chained(file, i, hmac_key) /\ file[i].id = history(file, i, hmac_key)
    BY <1>1, <2>2, <2>3, <2>4, ChainedExtend
  <2> QED
    BY <1>1, <1>2, <2>2, <2>3, <2>5
<1>5. i' - 1 = i
  BY <1>1, <1>2
<1> QED
  BY <1>2, <1>3, <1>4, <1>5 DEF LoopChained

LEMMA VInvInit == Init => VInv
<1> SUFFICES ASSUME Init PROVE VInv
  OBVIOUS
<1>1. Typed
  BY TypedInit
<1>2. LoopStart /\ LoopChained /\ Verdict
  BY DEF Init, LoopStart, LoopChained, Verdict
<1>3. HonestChained
  <2>1. Len(honest) = 0
    BY EmptySeq DEF Init
  <2> QED
    BY <2>1 DEF HonestChained, Chained
<1> QED
  BY <1>1, <1>2, <1>3 DEF VInv

LEMMA VInvNext == VInv /\ [Next]_vars => VInv'
<1> SUFFICES ASSUME VInv, [Next]_vars PROVE VInv'
  OBVIOUS
<1> USE DEF VInv
<1>0. Typed'
  BY TypedNext
<1>1. ASSUME NEW c \in Contents \ Unsupported, Record(c) PROVE VInv'
  <2>1. HonestChained'
    BY <1>1, HonestChainedRecord
  <2>2. LoopStart' /\ LoopChained' /\ Verdict'
    BY <1>1 DEF Record, loop, LoopStart, LoopChained, Verdict
  <2> QED
    BY <1>0, <2>1, <2>2
<1>2. CASE Close
  <2>1. HonestChained'
    BY <1>2 DEF Close, log, HonestChained
  <2>2. LoopStart' /\ LoopChained' /\ Verdict'
    BY <1>2 DEF Close, loop, LoopStart, LoopChained, Verdict
  <2> QED
    BY <1>0, <2>1, <2>2
<1>3. CASE Edit
  <2>1. HonestChained'
    BY <1>3 DEF Edit, log, HonestChained
  <2>2. LoopStart' /\ LoopChained' /\ Verdict'
    BY <1>3 DEF Edit, loop, LoopStart, LoopChained, Verdict
  <2> QED
    BY <1>0, <2>1, <2>2
<1>4. CASE Read
  <2>1. HonestChained'
    BY <1>4 DEF Read, log, HonestChained
  <2>2. /\ i' = 1 /\ expected_seq' = 0 /\ expected_prev' = GENESIS_PREV /\ ~ok'
        /\ phase' \in {"loop", "done"} /\ file' = file /\ hmac_key' = hmac_key
    <3>1. phase' \in {"loop", "done"}
      BY <1>4 DEF Read
    <3> QED
      BY <1>4, <3>1 DEF Read, LoopStart
  <2>3. file \in Seq(Line) /\ hmac_key \in Keys /\ Len(file) \in Nat
    BY LenProperties DEF Typed, TypeOK
  <2>4. Chained(file, 0, hmac_key) /\ history(file, 0, hmac_key) = GENESIS_PREV
    BY <2>3, NoHistory DEF Chained
  <2>5. LoopStart' /\ LoopChained' /\ Verdict'
    BY <2>2, <2>3, <2>4 DEF LoopStart, LoopChained, Verdict
  <2> QED
    BY <1>0, <2>1, <2>5
<1>5. CASE CheckLine
  <2>1. HonestChained'
    BY <1>5 DEF CheckLine, log, HonestChained
  <2>2. LoopStart' /\ Verdict'
    BY <1>5 DEF CheckLine, LoopStart, Verdict
  <2>3. LoopChained'
    BY <1>5, LoopChainedCheck
  <2> QED
    BY <1>0, <2>1, <2>2, <2>3
<1>6. CASE Conclude
  <2>1. HonestChained'
    BY <1>6 DEF Conclude, log, HonestChained
  <2>2. LoopStart' /\ LoopChained'
    BY <1>6 DEF Conclude, LoopStart, LoopChained
  <2>3. ASSUME ok' PROVE Readable(file) /\ Chained(file, Len(file), hmac_key)
    <3>1. phase = "loop" /\ i > Len(file) /\ errors \subseteq errors' /\ errors' = {}
      BY <1>6, <2>3 DEF Conclude
    <3>2. i \in Nat /\ Len(file) \in Nat
      BY LenProperties DEF Typed, TypeOK
    <3>3. i - 1 = Len(file)
      BY <3>1, <3>2 DEF LoopChained
    <3> QED
      BY <3>1, <3>3 DEF LoopChained, Typed
  <2>4. Verdict'
    BY <1>6, <2>3 DEF Conclude, Verdict
  <2> QED
    BY <1>0, <2>1, <2>2, <2>4
<1>7. CASE UNCHANGED vars
  BY <1>0, <1>7 DEF vars, log, loop, HonestChained, LoopStart, LoopChained, Verdict
<1> QED
  BY <1>1, <1>2, <1>3, <1>4, <1>5, <1>6, <1>7 DEF Next

LEMMA Inductive == Spec => []VInv
BY VInvInit, VInvNext, PTL DEF Spec

-----------------------------------------------------------------------------
\* What a positive verdict says: the file parses and is one chain under the
\* key that verify_log was given.
LEMMA VerifiedFile ==
  ASSUME VInv, phase = "done", ok
  PROVE  /\ file \in Seq(Line) /\ honest \in Seq(Line)
         /\ Readable(file) /\ Readable(honest)
         /\ Chained(file, Len(file), hmac_key) /\ Chained(honest, Len(honest), write_key)
         /\ hmac_key \in Keys /\ write_key \in Keys
         /\ Len(file) \in Nat /\ Len(honest) \in Nat
<1>1. file \in Seq(Line) /\ honest \in Seq(Envelope) /\ hmac_key \in Keys /\ write_key \in Keys
  BY DEF VInv, Typed, TypeOK
<1>2. honest \in Seq(Line) /\ Readable(honest)
  BY <1>1, EnvelopesParse
<1> QED
  BY <1>1, <1>2, LenProperties DEF VInv, Verdict, HonestChained

LEMMA VInvEditDetected == VInv => EditDetected
<1> SUFFICES ASSUME VInv, phase = "done", ok, hmac_key = write_key,
                    chain_head(file) = chain_head(honest)
             PROVE  file = honest
  BY DEF EditDetected
<1>1. /\ file \in Seq(Line) /\ honest \in Seq(Line)
      /\ Readable(file) /\ Readable(honest)
      /\ Chained(file, Len(file), hmac_key) /\ Chained(honest, Len(honest), write_key)
      /\ hmac_key \in Keys /\ write_key \in Keys
      /\ Len(file) \in Nat /\ Len(honest) \in Nat
  BY VerifiedFile
<1>2. CASE file = <<>> \/ honest = <<>>
  <2>1. file # <<>> => file[Len(file)].seq = Len(file) - 1 /\ Len(file) > 0
    BY <1>1, EmptySeq DEF Chained, ChainedLine
  <2>2. honest # <<>> => honest[Len(honest)].seq = Len(honest) - 1 /\ Len(honest) > 0
    BY <1>1, EmptySeq DEF Chained, ChainedLine
  <2>3. chain_head(file).seq = chain_head(honest).seq
    OBVIOUS
  <2> QED
    BY <1>1, <1>2, <2>1, <2>2, <2>3 DEF chain_head
<1>3. CASE file # <<>> /\ honest # <<>>
  <2>1. Len(file) \in 1..Len(file) /\ Len(honest) \in 1..Len(honest)
    BY <1>1, <1>3, EmptySeq
  <2>2. file[Len(file)].id = honest[Len(honest)].id
    BY <1>3 DEF chain_head
  <2>3. Len(file) = Len(honest) /\ \A j \in 1..Len(file) : file[j] = honest[j]
    BY <1>1, <2>1, <2>2, EqualIds DEF Readable
  <2> QED
    BY <1>1, <2>3, SeqEqual
<1> QED
  BY <1>2, <1>3

LEMMA VInvWrongKeyFails == VInv => WrongKeyFails
<1> SUFFICES ASSUME VInv, phase = "done", file = honest, hmac_key # write_key,
                    honest # <<>>, ok
             PROVE  FALSE
  BY DEF WrongKeyFails
<1>1. /\ file \in Seq(Line) /\ honest \in Seq(Line)
      /\ Readable(file) /\ Readable(honest)
      /\ Chained(file, Len(file), hmac_key) /\ Chained(honest, Len(honest), write_key)
      /\ hmac_key \in Keys /\ write_key \in Keys
      /\ Len(file) \in Nat
  BY VerifiedFile
<1>2. Len(file) \in 1..Len(file)
  BY <1>1, EmptySeq
<1> QED
  BY <1>1, <1>2, EqualIds DEF Readable

\* An edited, deleted or reordered log that verifies under its own key does not
\* have the anchored head.
THEOREM AnchoredEdits == Spec => []EditDetected
BY Inductive, VInvEditDetected, PTL

\* A log verified under another key than it was written with fails.
THEOREM KeyMismatch == Spec => []WrongKeyFails
BY Inductive, VInvWrongKeyFails, PTL

-----------------------------------------------------------------------------
(***************************************************************************)
(* Keyed logs.  An edit leaves ids that were in the file and ids hashed    *)
(* under a key of who edits, so without the key of the recorder every id   *)
(* of that key in the file is one the recorder wrote.                      *)
(***************************************************************************)
\* The key an id was hashed with last.
last_key(id) == id[Len(id)].key

\* Line e keeps an id of the file or has one of who edits it.
EditedLine(e) ==
  \/ e = Torn
  \/ \E k \in 1..Len(file) : file[k] # Torn /\ e.id = file[k].id
  \/ last_key(e.id) \in EditKeys

LEMMA KeptLine ==
  ASSUME NEW k \in 1..Len(file)
  PROVE  EditedLine(file[k])
BY DEF EditedLine

LEMMA FreshIdKey ==
  ASSUME NEW seq \in Nat, NEW c \in Contents, NEW p \in Digest, NEW key \in Keys
  PROVE  last_key(event_id(seq, c, p, key)) = key
<1> DEFINE x == [seq |-> seq, content |-> c, key |-> key]
<1>1. x \in Link /\ x.key = key
  BY DEF Link
<1>2. event_id(seq, c, p, key) = Append(p, x)
  BY DEF event_id
<1>3. p \in Seq(Link)
  BY DEF Digest
<1> HIDE DEF x
<1>4. Len(Append(p, x)) = Len(p) + 1 /\ Append(p, x)[Len(p) + 1] = x
  BY <1>1, <1>3, AppendProperties
<1> QED
  BY <1>1, <1>2, <1>4 DEF last_key

\* Joined parts of edited lines, and parts of the file.
LEMMA ConcatEdited ==
  ASSUME NEW s \in Seq(Line), NEW t \in Seq(Line),
         \A j \in 1..Len(s) : EditedLine(s[j]),
         \A j \in 1..Len(t) : EditedLine(t[j])
  PROVE  \A j \in 1..Len(s \o t) : EditedLine((s \o t)[j])
<1> SUFFICES ASSUME NEW j \in 1..Len(s \o t) PROVE EditedLine((s \o t)[j])
  OBVIOUS
<1>1. Len(s) \in Nat /\ Len(t) \in Nat
  BY LenProperties
<1>2. j \in 1..(Len(s) + Len(t))
      /\ (s \o t)[j] = IF j <= Len(s) THEN s[j] ELSE t[j - Len(s)]
  <2>1. Len(s \o t) = Len(s) + Len(t)
    BY ConcatProperties
  <2> QED
    BY <1>1, <2>1, ConcatProperties
<1>3. CASE j <= Len(s)
  BY <1>1, <1>2, <1>3
<1>4. CASE j > Len(s)
  <2>1. j - Len(s) \in 1..Len(t) /\ (s \o t)[j] = t[j - Len(s)]
    BY <1>1, <1>2, <1>4
  <2> QED
    BY <2>1
<1> QED
  BY <1>1, <1>2, <1>3, <1>4

LEMMA PartEdited ==
  ASSUME file \in Seq(Line), NEW m \in 1..(Len(file) + 1), NEW n \in 0..Len(file)
  PROVE  /\ SubSeq(file, m, n) \in Seq(Line)
         /\ \A j \in 1..Len(SubSeq(file, m, n)) : EditedLine(SubSeq(file, m, n)[j])
<1> DEFINE s == SubSeq(file, m, n)
<1>1. Len(file) \in Nat
  BY LenProperties
<1>2. \A j \in m..n : file[j] \in Line
  BY <1>1, ElementOfSeq
<1>3. /\ s \in Seq(Line) /\ Len(s) = IF m <= n THEN n - m + 1 ELSE 0
      /\ \A j \in 1..(n - m + 1) : s[j] = file[m + j - 1]
  BY <1>1, <1>2, SubSeqProperties
<1> HIDE DEF s
<1>4. ASSUME NEW j \in 1..Len(s) PROVE EditedLine(s[j])
  <2>1. m + j - 1 \in 1..Len(file) /\ s[j] = file[m + j - 1]
    BY <1>1, <1>3
  <2> QED
    BY <2>1, KeptLine
<1> QED
  BY <1>3, <1>4 DEF s

LEMMA EditLines ==
  ASSUME file \in Seq(Line), Delete \/ Swap \/ Duplicate \/ Tear \/ Modify \/ Rechain
  PROVE  \A j \in 1..Len(file') : EditedLine(file'[j])
<1>0. Torn \in Line /\ Len(file) \in Nat
  BY LenProperties DEF Line
<1>1. CASE Delete
  <2> PICK k \in 1..Len(file) : file' = without(file, k)
    BY <1>1 DEF Delete
  <2>1. /\ k - 1 \in 0..Len(file) /\ k + 1 \in 1..(Len(file) + 1)
        /\ 1 \in 1..(Len(file) + 1) /\ Len(file) \in 0..Len(file)
    BY <1>0
  <2> QED
    BY <2>1, PartEdited, ConcatEdited DEF without
<1>2. CASE Swap
  <2> PICK k, m \in 1..Len(file) :
             k < m /\ file' = [file EXCEPT ![k] = file[m], ![m] = file[k]]
    BY <1>2 DEF Swap
  <2>1. Len(file') = Len(file)
    <3>1. file[k] \in Line /\ file[m] \in Line
      BY ElementOfSeq
    <3>2. [file EXCEPT ![k] = file[m]] \in Seq(Line)
          /\ Len([file EXCEPT ![k] = file[m]]) = Len(file)
      BY <3>1, ExceptSeq
    <3> QED
      BY <3>1, <3>2, ExceptSeq
  <2>2. ASSUME NEW j \in 1..Len(file') PROVE EditedLine(file'[j])
    <3>1. \E n \in 1..Len(file) : file'[j] = file[n]
      BY <2>1, LenProperties
    <3> QED
      BY <3>1, KeptLine
  <2> QED
    BY <2>2
<1>3. CASE Duplicate
  <2> PICK k \in 1..Len(file) :
             file' = SubSeq(file, 1, k) \o SubSeq(file, k, Len(file))
    BY <1>3 DEF Duplicate
  <2>1. /\ k \in 0..Len(file) /\ k \in 1..(Len(file) + 1)
        /\ 1 \in 1..(Len(file) + 1) /\ Len(file) \in 0..Len(file)
    BY <1>0
  <2> QED
    BY <2>1, PartEdited, ConcatEdited
<1>4. CASE Tear
  <2> PICK k \in 1..Len(file) : file' = [file EXCEPT ![k] = Torn]
    BY <1>4 DEF Tear
  <2>1. Len(file') = Len(file)
    BY <1>0, ExceptSeq
  <2>2. ASSUME NEW j \in 1..Len(file') PROVE EditedLine(file'[j])
    <3>1. file'[j] = Torn \/ file'[j] = file[j]
      BY <2>1, LenProperties
    <3> QED
      BY <2>1, <3>1, KeptLine DEF EditedLine
  <2> QED
    BY <2>2
<1>5. CASE Modify
  <2> PICK k \in 1..Len(file), c \in Contents :
        /\ file[k] # Torn
        /\ \/ file' = [file EXCEPT ![k].content = c]
           \/ \E key \in EditKeys :
                file' = [file EXCEPT ![k].content = c,
                                     ![k].id = event_id(file[k].seq, c, file[k].prev, key)]
    BY <1>5 DEF Modify
  <2>1. file[k] \in Envelope
    BY ElementOfSeq DEF Line
  <2>2. \E e \in Line : file' = [file EXCEPT ![k] = e] /\ EditedLine(e)
    <3>1. CASE file' = [file EXCEPT ![k].content = c]
      <4> DEFINE e == [file[k] EXCEPT !.content = c]
      <4>1. e \in Line /\ e.id = file[k].id
        BY <2>1 DEF Envelope, Line
      <4>2. file' = [file EXCEPT ![k] = e]
        BY <3>1
      <4> HIDE DEF e
      <4> QED
        BY <4>1, <4>2 DEF EditedLine
    <3>2. ASSUME NEW key \in EditKeys,
                 file' = [file EXCEPT ![k].content = c,
                                      ![k].id = event_id(file[k].seq, c, file[k].prev, key)]
          PROVE  \E e \in Line : file' = [file EXCEPT ![k] = e] /\ EditedLine(e)
      <4>1. event_id(file[k].seq, c, file[k].prev, key) \in Digest
            /\ last_key(event_id(file[k].seq, c, file[k].prev, key)) = key
        BY <2>1, EnvelopeType, FreshIdKey, KindsAssumption DEF Envelope
      <4> DEFINE e == [file[k] EXCEPT !.content = c,
                                      !.id = event_id(file[k].seq, c, file[k].prev, key)]
      <4>2. e \in Line /\ e.id = event_id(file[k].seq, c, file[k].prev, key)
        BY <2>1, <4>1 DEF Envelope, Line
      <4>3. file' = [file EXCEPT ![k] = e]
        BY <3>2
      <4> HIDE DEF e
      <4>4. EditedLine(e)
        BY <4>1, <4>2 DEF EditedLine
      <4> QED
        BY <4>2, <4>3, <4>4
    <3> QED
      BY <3>1, <3>2
  <2>3. PICK e \in Line : file' = [file EXCEPT ![k] = e] /\ EditedLine(e)
    BY <2>2
  <2>4. Len(file') = Len(file)
    BY <2>3, ExceptSeq
  <2>5. ASSUME NEW j \in 1..Len(file') PROVE EditedLine(file'[j])
    <3>1. file'[j] = e \/ file'[j] = file[j]
      BY <2>3, <2>4, LenProperties
    <3> QED
      BY <2>3, <2>4, <3>1, KeptLine
  <2> QED
    BY <2>5
<1>6. CASE Rechain
  <2> PICK k \in 0..Len(file), n \in 1..MaxEvents, key \in EditKeys :
             Parses(file, k) /\ \E cs \in [1..n -> Contents] :
                                 file' = rechained(file, k, cs, key)
    BY <1>6 DEF Rechain
  <2> PICK cs \in [1..n -> Contents] : file' = rechained(file, k, cs, key)
    OBVIOUS
  <2>1. n \in Nat /\ key \in Keys /\ 1 \in 1..(Len(file) + 1)
    BY <1>0, KindsAssumption
  <2>2. /\ file' = SubSeq(file, 1, k) \o forged(file, k, cs, key, n)
        /\ forged(file, k, cs, key, n) \in Seq(Line)
        /\ Len(forged(file, k, cs, key, n)) = n
    BY <2>1, RechainedShape
  <2>3. ASSUME NEW m \in 1..n PROVE EditedLine(forged(file, k, cs, key, n)[m])
    <3>1. forged(file, k, cs, key, n)[m].id = hist(file, k, cs, key, m)
      BY DEF forged
    <3>2. m \in 0..n /\ m > 0
      BY <2>1
    <3>3. last_key(forged(file, k, cs, key, n)[m].id) = key
      BY <2>1, <3>1, <3>2, HistType DEF last_key
    <3> QED
      BY <3>3 DEF EditedLine
  <2> QED
    BY <2>1, <2>2, <2>3, PartEdited, ConcatEdited
<1> QED
  BY <1>1, <1>2, <1>3, <1>4, <1>5, <1>6

-----------------------------------------------------------------------------
\* Whoever edits does not know the key of the recorder: every id of that key in
\* the file is the id of an event on record.
NoForgery ==
  write_key \notin EditKeys /\ phase # "record" =>
    \A j \in 1..Len(file) :
      file[j] # Torn /\ last_key(file[j].id) = write_key =>
        \E m \in 1..Len(honest) : file[j].id = honest[m].id

LEMMA NoForgeryNext == Typed /\ NoForgery /\ [Next]_vars => NoForgery'
<1> SUFFICES ASSUME Typed, NoForgery, [Next]_vars PROVE NoForgery'
  OBVIOUS
<1>1. ASSUME NEW c \in Contents \ Unsupported, Record(c) PROVE NoForgery'
  BY <1>1 DEF Record, NoForgery
<1>2. CASE Close
  <2>1. /\ file' = honest /\ honest' = honest /\ write_key' = write_key
    BY <1>2 DEF Close, log
  <2> QED
    BY <2>1 DEF NoForgery
<1>3. CASE Edit
  <2>1. /\ phase = "edit" /\ phase' = phase /\ write_key' = write_key /\ honest' = honest
        /\ Delete \/ Swap \/ Duplicate \/ Tear \/ Modify \/ Rechain
    BY <1>3 DEF Edit, log
  <2>2. \A j \in 1..Len(file') : EditedLine(file'[j])
    BY <2>1, EditLines DEF Typed, TypeOK
  <2>3. ASSUME write_key \notin EditKeys, NEW j \in 1..Len(file'),
               file'[j] # Torn, last_key(file'[j].id) = write_key
        PROVE  \E m \in 1..Len(honest) : file'[j].id = honest[m].id
    <3>1. PICK k \in 1..Len(file) : file[k] # Torn /\ file'[j].id = file[k].id
      BY <2>2, <2>3 DEF EditedLine
    <3> QED
      BY <2>1, <2>3, <3>1 DEF NoForgery
  <2> QED
    BY <2>1, <2>3 DEF NoForgery
<1>4. CASE Read \/ CheckLine \/ Conclude
  <2>1. /\ file' = file /\ honest' = honest /\ write_key' = write_key
        /\ phase # "record"
    BY <1>4 DEF Read, CheckLine, Conclude, log
  <2> QED
    BY <2>1 DEF NoForgery
<1>5. CASE UNCHANGED vars
  BY <1>5 DEF vars, log, NoForgery
<1> QED
  BY <1>1, <1>2, <1>3, <1>4, <1>5 DEF Next

LEMMA NoForgeryAlways == Spec => []NoForgery
<1>1. Init => NoForgery
  BY DEF Init, NoForgery
<1>2. Init => Typed
  BY TypedInit
<1>3. Typed /\ [Next]_vars => Typed'
  BY TypedNext
<1> QED
  BY <1>1, <1>2, <1>3, NoForgeryNext, PTL DEF Spec

LEMMA VInvKeyed == VInv /\ NoForgery => KeyedLogOnlyTruncated
<1> SUFFICES ASSUME VInv, NoForgery, phase = "done", ok, hmac_key = write_key,
                    write_key \notin EditKeys
             PROVE  Len(file) <= Len(honest) /\ file = SubSeq(honest, 1, Len(file))
  BY DEF KeyedLogOnlyTruncated
<1> DEFINE n == Len(file)
<1>1. /\ file \in Seq(Line) /\ honest \in Seq(Line)
      /\ Readable(file) /\ Readable(honest)
      /\ Chained(file, n, hmac_key) /\ Chained(honest, Len(honest), write_key)
      /\ hmac_key \in Keys /\ write_key \in Keys
      /\ n \in Nat /\ Len(honest) \in Nat
  BY VerifiedFile
<1>2. n <= Len(honest) /\ \A j \in 1..n : file[j] = honest[j]
  <2>1. CASE n = 0
    BY <1>1, <2>1
  <2>2. CASE n # 0
    <3>1. n \in 1..n /\ file[n] # Torn
      BY <1>1, <2>2 DEF Readable, Parses
    <3>2. file[n].id = history(file, n, write_key)
      BY <1>1, <3>1 DEF Chained, ChainedLine
    <3>3. Len(history(file, n, write_key)) = n
      BY <1>1, HistoryType DEF Readable
    <3>4. last_key(file[n].id) = write_key
      BY <3>1, <3>2, <3>3 DEF last_key, history
    <3>5. PICK m \in 1..Len(honest) : file[n].id = honest[m].id
      BY <3>1, <3>4 DEF NoForgery
    <3>6. Parses(honest, m) /\ Chained(honest, m, write_key)
      BY <1>1 DEF Readable, Parses, Chained
    <3>7. n = m /\ \A j \in 1..n : file[j] = honest[j]
      BY <1>1, <3>1, <3>5, <3>6, EqualIds DEF Readable
    <3> QED
      BY <3>7
  <2> QED
    BY <2>1, <2>2
<1>3. /\ SubSeq(honest, 1, n) \in Seq(Line) /\ Len(SubSeq(honest, 1, n)) = n
      /\ \A j \in 1..n : SubSeq(honest, 1, n)[j] = honest[j]
  <2>1. \A j \in 1..n : honest[j] \in Line
    BY <1>1, <1>2, ElementOfSeq
  <2>2. \A j \in 1..(n - 1 + 1) : SubSeq(honest, 1, n)[j] = honest[1 + j - 1]
    BY <1>1, <2>1, SubSeqProperties
  <2>3. SubSeq(honest, 1, n) \in Seq(Line) /\ Len(SubSeq(honest, 1, n)) = n
    BY <1>1, <2>1, SubSeqProperties
  <2> QED
    BY <1>1, <2>2, <2>3
<1> QED
  BY <1>1, <1>2, <1>3, SeqEqual

\* Without the key a keyed log can only lose lines at its end: any other edit
\* fails verification, with no anchor needed.
THEOREM KeyedEdits == Spec => []KeyedLogOnlyTruncated
BY Inductive, NoForgeryAlways, VInvKeyed, PTL

-----------------------------------------------------------------------------
(***************************************************************************)
(* What verify_log blames.  The loop compares a line with locals that it   *)
(* carries along, so the first thing to know is that these are always what *)
(* the line before calls for.  Then a chain error at a line means that the *)
(* file and the log as recorded differ up to there, and an untouched log   *)
(* can only be found open.                                                 *)
(***************************************************************************)
ChainKinds == {"version", "seq", "prev", "id"}

\* The first k lines of the file are those of the log as recorded.
Same(k) ==
  k <= Len(honest) /\ k <= Len(file) /\ \A j \in 1..k : file[j] = honest[j]

\* The last run in the first n lines is not closed.
OpenUpTo(ls, n) ==
  \E k \in 1..n : ls[k].content \in Starts /\ \A m \in k..n : ls[m].content \notin Ends

\* The recorder writes contents of its own version only.
HonestSupported == \A j \in 1..Len(honest) : honest[j].content \notin Unsupported

NothingYet ==
  phase \in {"record", "edit"} =>
    i = 1 /\ expected_seq = 0 /\ expected_prev = GENESIS_PREV /\ ~ok
      /\ errors = {} /\ run_open_at = NoLine /\ first_id_mismatch_at = NoLine

LoopLocals ==
  phase = "loop" =>
    /\ i <= Len(file) + 1
    /\ expected_seq = seq_at(file, i) /\ expected_prev = prev_at(file, i)
    /\ \A x \in errors : x.what \in ChainKinds
    /\ run_open_at # NoLine <=> OpenUpTo(file, i - 1)
    /\ first_id_mismatch_at # NoLine => errors # {}

Blame ==
  \A x \in errors : x.what \in ChainKinds =>
    x.at \in 1..Len(file) /\ (hmac_key = write_key => ~Same(x.at))

BInv ==
  /\ Typed /\ HonestChained /\ HonestSupported
  /\ NothingYet /\ LoopLocals /\ Blame /\ NoFalseAlarm

\* Every line of the log as recorded passes the three comparisons.
LEMMA HonestLineOK ==
  ASSUME Typed, HonestChained, NEW j \in 1..Len(honest)
  PROVE  LineOK(honest, j, write_key)
<1>1. /\ honest \in Seq(Envelope) /\ write_key \in Keys
      /\ honest \in Seq(Line) /\ Readable(honest) /\ Len(honest) \in Nat
  BY EnvelopesParse, LenProperties DEF Typed, TypeOK
<1>2. ChainedLine(honest, j, write_key)
  BY DEF HonestChained, Chained
<1>3. Parses(honest, j)
  BY <1>1 DEF Readable, Parses
<1>4. honest[j].seq = seq_at(honest, j)
  <2>1. CASE j = 1
    BY <1>2, <2>1 DEF ChainedLine, seq_at
  <2>2. CASE j # 1
    <3>1. j - 1 \in 1..Len(honest)
      BY <1>1, <2>2
    <3>2. ChainedLine(honest, j - 1, write_key)
      BY <3>1 DEF HonestChained, Chained
    <3> QED
      BY <1>1, <1>2, <2>2, <3>2 DEF ChainedLine, seq_at
  <2> QED
    BY <2>1, <2>2
<1>5. honest[j].prev = prev_at(honest, j)
  <2>1. CASE j = 1
    BY <1>1, <1>2, <2>1, NoHistory DEF ChainedLine, prev_at
  <2>2. CASE j # 1
    <3>1. j - 1 \in 1..Len(honest)
      BY <1>1, <2>2
    <3>2. ChainedLine(honest, j - 1, write_key)
      BY <3>1 DEF HonestChained, Chained
    <3> QED
      BY <1>1, <1>2, <2>2, <3>2 DEF ChainedLine, prev_at
  <2> QED
    BY <2>1, <2>2
<1>6. honest[j].id = event_id(honest[j].seq, honest[j].content, honest[j].prev, write_key)
  BY <1>1, <1>2, <1>3, HistoryExtend DEF ChainedLine
<1> QED
  BY <1>4, <1>5, <1>6 DEF LineOK

\* A line of the recorded log, with the recorded log before it, has no error.
LEMMA SameLineNoError ==
  ASSUME BInv, phase = "loop", i \in 1..Len(file), hmac_key = write_key, Same(i)
  PROVE  line_errors(file[i]) = {}
<1>1. /\ i \in 1..Len(honest) /\ file[i] = honest[i]
      /\ i # 1 => file[i - 1] = honest[i - 1]
  BY LenProperties DEF Same, BInv, Typed, TypeOK
<1>2. LineOK(honest, i, write_key)
  BY <1>1, HonestLineOK DEF BInv
<1>3. seq_at(file, i) = seq_at(honest, i) /\ prev_at(file, i) = prev_at(honest, i)
  BY <1>1 DEF seq_at, prev_at
<1>4. honest[i].content \notin Unsupported
  BY <1>1 DEF BInv, HonestSupported
<1>5. expected_seq = seq_at(file, i) /\ expected_prev = prev_at(file, i)
  BY DEF BInv, LoopLocals
<1> QED
  BY <1>1, <1>2, <1>3, <1>4, <1>5 DEF LineOK, line_errors

\* One more line closes the open run, opens one, or leaves it as it is.
LEMMA OpenUpToNext ==
  ASSUME NEW ls, NEW n \in Nat
  PROVE  OpenUpTo(ls, n + 1) <=>
           \/ ls[n + 1].content \in Starts
           \/ ls[n + 1].content \notin Ends /\ OpenUpTo(ls, n)
<1>1. ASSUME OpenUpTo(ls, n + 1), ls[n + 1].content \notin Starts
      PROVE  ls[n + 1].content \notin Ends /\ OpenUpTo(ls, n)
  <2>1. PICK k \in 1..(n + 1) : /\ ls[k].content \in Starts
                               /\ \A m \in k..(n + 1) : ls[m].content \notin Ends
    BY <1>1 DEF OpenUpTo
  <2>2. k # n + 1
    BY <1>1, <2>1
  <2> QED
    BY <2>1, <2>2 DEF OpenUpTo
<1>2. ASSUME ls[n + 1].content \in Starts
      PROVE  OpenUpTo(ls, n + 1)
  <2>1. ls[n + 1].content \notin Ends
    BY <1>2, KindsAssumption
  <2>2. n + 1 \in 1..(n + 1) /\ \A m \in (n + 1)..(n + 1) : m = n + 1
    OBVIOUS
  <2> QED
    BY <1>2, <2>1, <2>2 DEF OpenUpTo
<1>3. ASSUME ls[n + 1].content \notin Ends, OpenUpTo(ls, n)
      PROVE  OpenUpTo(ls, n + 1)
  <2>1. PICK k \in 1..n : /\ ls[k].content \in Starts
                         /\ \A m \in k..n : ls[m].content \notin Ends
    BY <1>3 DEF OpenUpTo
  <2>2. k \in 1..(n + 1) /\ \A m \in k..(n + 1) : ls[m].content \notin Ends
    BY <1>3, <2>1
  <2> QED
    BY <2>1, <2>2 DEF OpenUpTo
<1> QED
  BY <1>1, <1>2, <1>3

LEMMA BInvInit == Init => BInv
<1> SUFFICES ASSUME Init PROVE BInv
  OBVIOUS
<1>1. Typed /\ HonestChained
  BY VInvInit DEF VInv
<1>2. HonestSupported
  <2>1. Len(honest) = 0
    BY EmptySeq DEF Init
  <2> QED
    BY <2>1 DEF HonestSupported
<1>3. NothingYet /\ LoopLocals /\ Blame /\ NoFalseAlarm
  BY DEF Init, NothingYet, LoopLocals, Blame, NoFalseAlarm
<1> QED
  BY <1>1, <1>2, <1>3 DEF BInv

\* A chain error is reported only at a line that differs, or behind one.
LEMMA BlameCheck ==
  ASSUME BInv, CheckLine
  PROVE  /\ Blame'
         /\ \A x \in errors' : x.what \in ChainKinds
<1>1. /\ phase = "loop" /\ i \in 1..Len(file) /\ Len(file) \in Nat
  BY LenProperties DEF BInv, Typed, TypeOK, CheckLine
<1>2. /\ file' = file /\ hmac_key' = hmac_key /\ UNCHANGED log
      /\ errors' = errors \cup line_errors(file[i])
  BY DEF CheckLine
<1>3. ASSUME NEW x \in line_errors(file[i])
      PROVE  x.at = i /\ x.what \in ChainKinds
  BY DEF line_errors, report, ChainKinds
<1>4. hmac_key = write_key /\ Same(i) => line_errors(file[i]) = {}
  BY <1>1, SameLineNoError
<1>5. ASSUME NEW k PROVE Same(k)' <=> Same(k)
  BY <1>2 DEF Same, log
<1>6. ASSUME NEW x \in errors'
      PROVE  /\ x.what \in ChainKinds
             /\ x.at \in 1..Len(file) /\ (hmac_key = write_key => ~Same(x.at))
  <2>1. CASE x \in errors
    BY <1>1, <2>1 DEF BInv, LoopLocals, Blame
  <2>2. CASE x \in line_errors(file[i])
    BY <1>1, <1>3, <1>4, <2>2
  <2> QED
    BY <1>2, <2>1, <2>2
<1> QED
  BY <1>2, <1>5, <1>6 DEF Blame, log

\* The locals of the next turn are those that its line calls for.
LEMMA LocalsCheck ==
  ASSUME BInv, CheckLine
  PROVE  LoopLocals'
<1>1. /\ phase = "loop" /\ i \in 1..Len(file) /\ Len(file) \in Nat
      /\ file \in Seq(Line) /\ Readable(file)
  BY LenProperties DEF BInv, Typed, TypeOK, CheckLine
<1>2. file[i] \in Envelope
  BY <1>1, ElementOfSeq DEF Readable, Parses, Line
<1>3. /\ file' = file /\ i' = i + 1 /\ phase' = phase
      /\ expected_seq' = file[i].seq + 1 /\ expected_prev' = file[i].id
      /\ errors' = errors \cup line_errors(file[i])
  BY DEF CheckLine
<1>4. expected_seq' = seq_at(file', i') /\ expected_prev' = prev_at(file', i')
  BY <1>1, <1>3 DEF seq_at, prev_at
<1>5. run_open_at' # NoLine <=> OpenUpTo(file', i' - 1)
  <2>1. OpenUpTo(file, i) <=>
          \/ file[i].content \in Starts
          \/ file[i].content \notin Ends /\ OpenUpTo(file, i - 1)
    <3>1. i - 1 \in Nat /\ (i - 1) + 1 = i
      BY <1>1
    <3> QED
      BY <3>1, OpenUpToNext
  <2>2. run_open_at # NoLine <=> OpenUpTo(file, i - 1)
    BY <1>1 DEF BInv, LoopLocals
  <2>3. run_open_at' = IF file[i].content \in Starts THEN file[i].seq
                       ELSE IF file[i].content \in Ends THEN NoLine ELSE run_open_at
    BY DEF CheckLine
  <2>4. file[i].seq # NoLine
    BY <1>2 DEF Envelope, NoLine
  <2>5. i' - 1 = i
    BY <1>1, <1>3
  <2> QED
    BY <1>3, <2>1, <2>2, <2>3, <2>4, <2>5
<1>6. first_id_mismatch_at' # NoLine => errors' # {}
  <2>1. first_id_mismatch_at' =
          IF report("id") \in line_errors(file[i]) /\ first_id_mismatch_at = NoLine
            THEN file[i].seq ELSE first_id_mismatch_at
    BY DEF CheckLine
  <2>2. first_id_mismatch_at # NoLine => errors # {}
    BY <1>1 DEF BInv, LoopLocals
  <2> QED
    BY <1>3, <2>1, <2>2
<1>7. i' <= Len(file') + 1
  BY <1>1, <1>3
<1>8. \A x \in errors' : x.what \in ChainKinds
  BY BlameCheck
<1> QED
  BY <1>4, <1>5, <1>6, <1>7, <1>8 DEF LoopLocals

\* The verdict on an untouched log.
LEMMA ConcludeHonest ==
  ASSUME BInv, Conclude
  PROVE  NoFalseAlarm' /\ Blame'
<1>1. /\ phase = "loop" /\ i > Len(file) /\ i \in Nat /\ Len(file) \in Nat
  BY LenProperties DEF BInv, Typed, TypeOK, Conclude
<1>2. i - 1 = Len(file)
  BY <1>1 DEF BInv, LoopLocals
<1>3. /\ file' = file /\ hmac_key' = hmac_key /\ UNCHANGED log
      /\ ok' = (errors' = {})
      /\ errors' = errors
           \cup (IF first_id_mismatch_at = 0 THEN {report("key")} ELSE {})
           \cup (IF run_open_at # NoLine THEN {report("open run")} ELSE {})
  BY DEF Conclude
<1>4. Blame'
  <2>1. report("key").what \notin ChainKinds /\ report("open run").what \notin ChainKinds
    BY DEF report, ChainKinds
  <2>2. \A x \in errors' : x.what \in ChainKinds => x \in errors
    BY <1>3, <2>1
  <2>3. \A k : Same(k)' <=> Same(k)
    BY <1>3 DEF Same, log
  <2> QED
    BY <1>3, <2>2, <2>3 DEF BInv, Blame, log
<1>5. ASSUME file = honest, hmac_key = write_key
      PROVE  ok' <=> ~LastRunOpen(honest)
  <2>1. \A k \in 1..Len(file) : Same(k)
    BY <1>1, <1>5 DEF Same
  <2>2. errors = {}
    BY <1>1, <1>5, <2>1 DEF BInv, LoopLocals, Blame
  <2>3. first_id_mismatch_at = NoLine
    BY <1>1, <2>2 DEF BInv, LoopLocals
  <2>4. ok' <=> run_open_at = NoLine
    <3>1. errors' = IF run_open_at # NoLine THEN {report("open run")} ELSE {}
      <4>1. errors' = errors
               \cup (IF first_id_mismatch_at = 0 THEN {report("key")} ELSE {})
               \cup (IF run_open_at # NoLine THEN {report("open run")} ELSE {})
        BY <1>3, Zenon
      <4>2. first_id_mismatch_at # 0
        BY <2>3 DEF NoLine
      <4> QED
        BY <2>2, <4>1, <4>2
    <3>2. errors' = {} <=> run_open_at = NoLine
      BY <3>1
    <3> QED
      BY <1>3, <3>2, Zenon
  <2>5. run_open_at # NoLine <=> OpenUpTo(file, Len(file))
    BY <1>1, <1>2 DEF BInv, LoopLocals
  <2>6. OpenUpTo(honest, Len(honest)) <=> LastRunOpen(honest)
    BY DEF OpenUpTo, LastRunOpen
  <2> QED
    BY <1>5, <2>4, <2>5, <2>6
<1>6. NoFalseAlarm'
  <2>1. ok' \in BOOLEAN /\ LastRunOpen(honest) \in BOOLEAN
    BY <1>3 DEF LastRunOpen
  <2>2. LastRunOpen(honest') = LastRunOpen(honest)
    BY <1>3 DEF log
  <2> QED
    BY <1>3, <1>5, <2>1, <2>2 DEF NoFalseAlarm, log
<1> QED
  BY <1>4, <1>6

LEMMA BInvNext == BInv /\ [Next]_vars => BInv'
<1> SUFFICES ASSUME BInv, [Next]_vars PROVE BInv'
  OBVIOUS
<1> USE DEF BInv
<1>0. Typed'
  BY TypedNext
<1>1. ASSUME NEW c \in Contents \ Unsupported, Record(c) PROVE BInv'
  <2>1. HonestChained'
    BY <1>1, HonestChainedRecord
  <2>2. HonestSupported'
    <3> DEFINE e == checked_envelope(Len(honest), c, head_id(honest, Len(honest)), write_key)
    <3>1. /\ honest \in Seq(Envelope) /\ write_key \in Keys /\ Len(honest) \in Nat
          /\ honest \in Seq(Line) /\ Parses(honest, Len(honest))
      BY EnvelopesParse, LenProperties DEF Typed, TypeOK, Readable
    <3>2. e \in Envelope
      BY <3>1, EnvelopeType, HeadType
    <3>3. e.content = c /\ honest' = Append(honest, e)
      BY <1>1 DEF Record, checked_envelope
    <3> HIDE DEF e
    <3>4. /\ Len(honest') = Len(honest) + 1 /\ honest'[Len(honest) + 1] = e
          /\ \A j \in 1..Len(honest) : honest'[j] = honest[j]
      BY <3>1, <3>2, <3>3, AppendProperties
    <3> QED
      BY <3>1, <3>3, <3>4 DEF HonestSupported
  <2>3. NothingYet' /\ LoopLocals' /\ Blame' /\ NoFalseAlarm'
    BY <1>1 DEF Record, loop, NothingYet, LoopLocals, Blame, NoFalseAlarm
  <2> QED
    BY <1>0, <2>1, <2>2, <2>3
<1>2. CASE Close \/ Edit
  <2>1. /\ UNCHANGED <<log, loop, ok, hmac_key>> /\ phase \in {"record", "edit"}
        /\ phase' = "edit"
    BY <1>2 DEF Close, Edit, loop, log
  <2>2. HonestChained' /\ HonestSupported'
    BY <2>1 DEF log, HonestChained, HonestSupported
  <2>3. NothingYet' /\ LoopLocals' /\ Blame' /\ NoFalseAlarm'
    BY <2>1 DEF loop, NothingYet, LoopLocals, Blame, NoFalseAlarm
  <2> QED
    BY <1>0, <2>2, <2>3
<1>3. CASE Read
  <2>1. /\ phase = "edit" /\ UNCHANGED log /\ file' = file /\ hmac_key' = hmac_key
        /\ i' = i /\ expected_seq' = expected_seq /\ expected_prev' = expected_prev
        /\ run_open_at' = run_open_at /\ first_id_mismatch_at' = first_id_mismatch_at
        /\ ok' = ok
        /\ \/ phase' = "loop" /\ errors' = errors
           \/ phase' = "done" /\ errors' = {report("unreadable")} /\ ~Readable(file)
    <3>1. CASE Readable(file)
      BY <1>3, <3>1 DEF Read
    <3>2. CASE ~Readable(file)
      BY <1>3, <3>2 DEF Read
    <3> QED
      BY <3>1, <3>2
  <2>2. HonestChained' /\ HonestSupported'
    BY <2>1 DEF log, HonestChained, HonestSupported
  <2>3. /\ i = 1 /\ expected_seq = 0 /\ expected_prev = GENESIS_PREV /\ errors = {}
        /\ run_open_at = NoLine /\ first_id_mismatch_at = NoLine
    BY <2>1 DEF NothingYet
  <2>4. LoopLocals'
    <3>1. Len(file) \in Nat
      BY LenProperties DEF Typed, TypeOK
    <3>2. ~OpenUpTo(file, 0)
      BY DEF OpenUpTo
    <3> QED
      BY <2>1, <2>3, <3>1, <3>2 DEF LoopLocals, seq_at, prev_at
  <2>5. Blame'
    BY <2>1, <2>3 DEF Blame, report, ChainKinds
  <2>6. NothingYet' /\ NoFalseAlarm'
    <3>1. file = honest => Readable(file)
      BY EnvelopesParse DEF Typed, TypeOK
    <3> QED
      BY <2>1, <3>1 DEF NothingYet, NoFalseAlarm, log
  <2> QED
    BY <1>0, <2>2, <2>4, <2>5, <2>6
<1>4. CASE CheckLine
  <2>1. UNCHANGED log /\ phase = "loop" /\ phase' = phase
    BY <1>4 DEF CheckLine
  <2>2. HonestChained' /\ HonestSupported' /\ NothingYet' /\ NoFalseAlarm'
    BY <2>1 DEF log, HonestChained, HonestSupported, NothingYet, NoFalseAlarm
  <2> QED
    BY <1>0, <1>4, <2>2, BlameCheck, LocalsCheck
<1>5. CASE Conclude
  <2>1. UNCHANGED log /\ phase' = "done"
    BY <1>5 DEF Conclude
  <2>2. HonestChained' /\ HonestSupported' /\ NothingYet' /\ LoopLocals'
    BY <2>1 DEF log, HonestChained, HonestSupported, NothingYet, LoopLocals
  <2> QED
    BY <1>0, <1>5, <2>2, ConcludeHonest
<1>6. CASE UNCHANGED vars
  BY <1>0, <1>6 DEF vars, log, loop, HonestChained, HonestSupported, NothingYet,
                    LoopLocals, Blame, Same, NoFalseAlarm
<1> QED
  BY <1>1, <1>2, <1>3, <1>4, <1>5, <1>6 DEF Next

LEMMA BlameAlways == Spec => []BInv
BY BInvInit, BInvNext, PTL DEF Spec

\* Whatever was edited, a version, seq, prev or id error of verify_log never
\* blames a line of a part of the file that is as it was recorded.
THEOREM BlameIsDeserved == Spec => []BlameNotEarlier
<1>1. BInv => BlameNotEarlier
  <2> SUFFICES ASSUME BInv, hmac_key = write_key, NEW x \in errors,
                      x.what \in ChainKinds
               PROVE  \/ x.at > Len(honest)
                      \/ SubSeq(file, 1, x.at) # SubSeq(honest, 1, x.at)
    BY DEF BlameNotEarlier, ChainKinds
  <2>1. /\ x.at \in 1..Len(file) /\ ~Same(x.at)
        /\ file \in Seq(Line) /\ honest \in Seq(Envelope)
        /\ Len(file) \in Nat /\ Len(honest) \in Nat
    BY LenProperties DEF BInv, Blame, Typed, TypeOK
  <2>2. /\ \A j \in 1..x.at : SubSeq(file, 1, x.at)[j] = file[j]
        /\ \A j \in 1..x.at : SubSeq(honest, 1, x.at)[j] = honest[j]
    BY <2>1, SubSeqProperties
  <2> QED
    BY <2>1, <2>2 DEF Same
<1> QED
  BY <1>1, BlameAlways, PTL

\* verify_log has no false alarm: an untouched log, verified under its own key, is
\* refused exactly when its last run is open.
THEOREM UntouchedVerifies == Spec => []NoFalseAlarm
<1>1. BInv => NoFalseAlarm
  BY DEF BInv
<1> QED
  BY <1>1, BlameAlways, PTL
=============================================================================
