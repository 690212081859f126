---------------------------- MODULE ChainProofs ----------------------------
(***************************************************************************)
(* Lemmas about the operators of Chain: the types of envelopes and heads,  *)
(* what keeps a file linked, and the number of its readable lines.         *)
(***************************************************************************)
EXTENDS Chain, SequenceTheorems, FiniteSetTheorems, TLAPS

\* checked_envelope builds an envelope from well-typed parts.
LEMMA EnvelopeType ==
  ASSUME NEW seq \in Nat, NEW c \in Contents, NEW p \in Digest, NEW key \in Keys
  PROVE  /\ checked_envelope(seq, c, p, key) \in Envelope
         /\ event_id(seq, c, p, key) \in Digest
<1>1. [seq |-> seq, content |-> c, key |-> key] \in Link
  BY DEF Link
<1>2. event_id(seq, c, p, key) \in Digest
  BY <1>1, AppendProperties DEF event_id, Digest
<1> QED
  BY <1>2 DEF checked_envelope, Envelope

\* The head of a prefix that parses is an id.
LEMMA HeadType ==
  ASSUME NEW ls \in Seq(Line), NEW k \in 0..Len(ls), Parses(ls, k)
  PROVE  head_id(ls, k) \in Digest
<1>1. CASE k = 0
  BY <1>1, EmptySeq DEF head_id, GENESIS_PREV, Digest
<1>2. CASE k # 0
  <2>1. k \in 1..Len(ls)
    BY <1>2, LenProperties
  <2>2. ls[k] \in Envelope
    BY <2>1, ElementOfSeq DEF Line, Parses
  <2> QED
    BY <1>2, <2>2 DEF head_id, Envelope
<1> QED
  BY <1>1, <1>2

\* Two files that agree up to the first unreadable line of one of them.
LEMMA LinkedAgree ==
  ASSUME NEW ls \in Seq(Line), NEW ms \in Seq(Line), NEW key,
         Linked(ls, key),
         \A i \in 1..Len(ms) :
           Parses(ms, i) => i <= Len(ls) /\ \A j \in 1..i : ms[j] = ls[j]
  PROVE  Linked(ms, key)
<1> SUFFICES ASSUME NEW i \in 1..Len(ms), Parses(ms, i)
             PROVE  LineOK(ms, i, key) /\ ms[i].seq = i - 1
  BY DEF Linked
<1>1. i \in 1..Len(ls) /\ \A j \in 1..i : ms[j] = ls[j]
  BY LenProperties
<1>2. Parses(ls, i)
  BY <1>1 DEF Parses
<1>3. LineOK(ls, i, key) /\ ls[i].seq = i - 1
  BY <1>1, <1>2 DEF Linked
<1>4. ms[i] = ls[i] /\ (i # 1 => ms[i - 1] = ls[i - 1])
  BY <1>1
<1> QED
  BY <1>3, <1>4 DEF LineOK, seq_at, prev_at

\* The next envelope extends the chain.
LEMMA LinkedAppend ==
  ASSUME NEW ls \in Seq(Line), NEW key, NEW c, NEW e \in Envelope,
         Readable(ls), Linked(ls, key),
         e = checked_envelope(Len(ls), c, head_id(ls, Len(ls)), key)
  PROVE  /\ Readable(Append(ls, e)) /\ Linked(Append(ls, e), key)
         /\ Len(Append(ls, e)) = Len(ls) + 1
         /\ \A i \in 1..Len(ls) : Append(ls, e)[i] = ls[i]
         /\ Append(ls, e)[Len(ls) + 1] = e
<1> DEFINE ms == Append(ls, e)
<1>1. e \in Line /\ e # Torn
  BY TornAssumption DEF Line
<1>2. /\ ms \in Seq(Line) /\ Len(ms) = Len(ls) + 1 /\ Len(ls) \in Nat
      /\ \A i \in 1..Len(ls) : ms[i] = ls[i]
      /\ ms[Len(ls) + 1] = e
  BY <1>1, AppendProperties, LenProperties
<1> HIDE DEF ms
<1>3. Readable(ms)
  BY <1>1, <1>2 DEF Readable, Parses
<1>4. ASSUME NEW i \in 1..Len(ms)
      PROVE  LineOK(ms, i, key) /\ ms[i].seq = i - 1
  <2>1. CASE i <= Len(ls)
    <3>1. i \in 1..Len(ls) /\ Parses(ls, i)
      BY <1>2, <2>1 DEF Readable, Parses
    <3>2. LineOK(ls, i, key) /\ ls[i].seq = i - 1
      BY <3>1 DEF Linked
    <3>3. ms[i] = ls[i] /\ (i # 1 => ms[i - 1] = ls[i - 1])
      BY <1>2, <3>1
    <3> QED
      BY <3>2, <3>3 DEF LineOK, seq_at, prev_at
  <2>2. CASE i = Len(ls) + 1
    <3>1. ms[i] = e /\ (i # 1 => ms[i - 1] = ls[Len(ls)])
      BY <1>2, <2>2
    <3>2. i # 1 => ls[Len(ls)].seq = Len(ls) - 1
      <4> SUFFICES ASSUME i # 1 PROVE ls[Len(ls)].seq = Len(ls) - 1
        OBVIOUS
      <4>1. Len(ls) \in 1..Len(ls) /\ Parses(ls, Len(ls))
        BY <1>2, <2>2 DEF Readable
      <4> QED
        BY <4>1 DEF Linked
    <3>3. /\ e.seq = Len(ls) /\ e.content = c /\ e.prev = head_id(ls, Len(ls))
          /\ e.id = event_id(Len(ls), c, head_id(ls, Len(ls)), key)
      BY DEF checked_envelope
    <3>4. ms[i].seq = seq_at(ms, i)
      BY <1>2, <2>2, <3>1, <3>2, <3>3 DEF seq_at
    <3>5. ms[i].prev = prev_at(ms, i)
      BY <1>2, <2>2, <3>1, <3>3 DEF prev_at, head_id
    <3> QED
      BY <1>2, <2>2, <3>1, <3>3, <3>4, <3>5 DEF LineOK
  <2> QED
    BY <1>2, <2>1, <2>2
<1>5. Linked(ms, key)
  BY <1>4 DEF Linked
<1> QED
  BY <1>2, <1>3, <1>5 DEF ms

\* In a file that parses, Linked is what verify_log checks.
LEMMA ReadableLinkedOK ==
  ASSUME NEW ls \in Seq(Line), NEW key, Readable(ls), Linked(ls, key)
  PROVE  ChainOK(ls, key)
<1> SUFFICES ASSUME NEW i \in 1..Len(ls) PROVE LineOK(ls, i, key)
  BY DEF ChainOK
<1>1. Parses(ls, i)
  BY LenProperties DEF Readable, Parses
<1> QED
  BY <1>1 DEF Linked

\* At most one number satisfies IsValidLen, so ValidLen is that number.
LEMMA ValidLenUnique ==
  ASSUME NEW ls \in Seq(Line), NEW k \in 0..Len(ls), IsValidLen(ls, k)
  PROVE  ValidLen(ls) = k
<1> DEFINE m == ValidLen(ls)
<1>1. m \in 0..Len(ls) /\ IsValidLen(ls, m)
  BY DEF ValidLen
<1> HIDE DEF m
<1>2. Len(ls) \in Nat
  BY LenProperties
<1>3. ~(m < k) /\ ~(k < m)
  BY <1>1, <1>2 DEF IsValidLen, Parses
<1> QED
  BY <1>1, <1>2, <1>3 DEF m

\* In a file that parses every line is on record.
LEMMA ReadableValidLen ==
  ASSUME NEW ls \in Seq(Line), Readable(ls)
  PROVE  ValidLen(ls) = Len(ls)
<1>1. Len(ls) \in 0..Len(ls) /\ IsValidLen(ls, Len(ls))
  BY LenProperties DEF IsValidLen, Readable
<1> QED
  BY <1>1, ValidLenUnique

\* A set of numbers below a bound has a largest one.
LEMMA HasMaximum ==
  ASSUME NEW n \in Nat, NEW S \in SUBSET (0..n), S # {}
  PROVE  \E m \in S : \A y \in S : y <= m
<1> DEFINE Above(x) == {y \in S : x < y}
           family == {Above(x) : x \in S}
<1>1. IsFiniteSet(S)
  <2>1. 0 \in Int /\ n \in Int
    OBVIOUS
  <2>2. IsFiniteSet(0..n)
    BY <2>1, FS_Interval
  <2> QED
    BY <2>2, FS_Subset, Zenon
<1>2. family \subseteq FiniteSubsetsOf(S) /\ family # {}
  <2>1. \A x \in S : Above(x) \subseteq S /\ IsFiniteSet(Above(x))
    BY <1>1, FS_Subset
  <2> QED
    BY <2>1 DEF FiniteSubsetsOf
<1>3. PICK T \in family :
        \A U \in family : <<U, T>> \notin StrictSubsetOrdering(S)
  <2>1. IsWellFoundedOn(StrictSubsetOrdering(S), FiniteSubsetsOf(S))
    BY FS_StrictSubsetOrderingWellFounded
  <2> HIDE DEF family
  <2> QED
    BY <1>2, <2>1, WFMin
<1>4. PICK m \in S : T = Above(m)
  BY <1>3
<1>5. ASSUME NEW y \in S, ~(y <= m) PROVE FALSE
  <2>1. m < y /\ m \in Int /\ y \in Int
    BY <1>5
  <2>2. y \in Above(m) /\ y \notin Above(y) /\ Above(y) \subseteq Above(m)
    <3>1. \A z \in S : y < z => m < z
      BY <2>1
    <3>2. ~(y < y)
      BY <2>1
    <3> QED
      BY <2>1, <3>1, <3>2
  <2>3. <<Above(y), Above(m)>> \in StrictSubsetOrdering(S)
    BY <2>2 DEF StrictSubsetOrdering
  <2> QED
    BY <1>3, <1>4, <2>3
<1> QED
  BY <1>5

\* Every file has a number of lines before the first unreadable one.
LEMMA ValidLenProperties ==
  ASSUME NEW ls \in Seq(Line)
  PROVE  ValidLen(ls) \in 0..Len(ls) /\ IsValidLen(ls, ValidLen(ls))
<1> DEFINE parsed == {k \in 0..Len(ls) : Parses(ls, k)}
<1>1. Len(ls) \in Nat
  BY LenProperties
<1>2. 0 \in parsed
  BY <1>1 DEF Parses
<1>3. PICK m \in parsed : \A k \in parsed : k <= m
  BY <1>1, <1>2, HasMaximum
<1>4. m < Len(ls) => ls[m + 1] = Torn
  <2> SUFFICES ASSUME m < Len(ls), ls[m + 1] # Torn PROVE FALSE
    OBVIOUS
  <2>1. m + 1 \in parsed
    BY <1>1, <1>3 DEF Parses
  <2> QED
    BY <1>1, <1>3, <2>1
<1> QED
  BY <1>3, <1>4 DEF IsValidLen, ValidLen
=============================================================================
