--------------------------- MODULE TimelineProofs ---------------------------
(***************************************************************************)
(* What the one-pass algorithms of Timeline compute, for every log.        *)
(***************************************************************************)
EXTENDS Timeline, SequenceTheorems, FiniteSetTheorems, FunctionTheorems,
        WellFoundedInduction, TLAPS

-----------------------------------------------------------------------------
(***************************************************************************)
(* Induction along a log, as a fact about sets of positions.               *)
(***************************************************************************)
\* Numbers up to n that have 0 and with a number the next one are all of them.
LEMMA UpTo ==
  ASSUME NEW n \in Nat, NEW S \in SUBSET (0..n), 0 \in S,
         \A k \in 1..n : k - 1 \in S => k \in S
  PROVE  S = 0..n
<1> DEFINE T == 0..n \ S
           R == {p \in Nat \X Nat : p[1] < p[2]}
<1>1. SUFFICES ASSUME T # {} PROVE FALSE
  OBVIOUS
<1>2. T \subseteq Nat
  OBVIOUS
<1>3. PICK x \in T : \A y \in T : <<y, x>> \notin R
  <2> HIDE DEF T, R
  <2>1. IsWellFoundedOn(R, Nat)
    BY NatLessThanWellFounded DEF OpToRel, R
  <2> QED
    BY <1>1, <1>2, <2>1, WFMin, Zenon
<1>4. x \in 1..n /\ x - 1 \in 0..n
  OBVIOUS
<1>5. x - 1 \in T
  BY <1>4
<1>6. <<x - 1, x>> \in R
  BY <1>4
<1> QED
  BY <1>3, <1>5, <1>6

\* The numbers below n include the largest one of any set of them.
LEMMA MaxIn ==
  ASSUME NEW n \in Nat
  PROVE  \A s \in SUBSET (1..n) : s # {} => Max(s) \in s
<1> DEFINE S == {k \in 0..n : \A s \in SUBSET (1..k) : s # {} => Max(s) \in s}
<1>1. 0 \in S
  <2>1. 1..0 = {} /\ 0 \in 0..n
    OBVIOUS
  <2> QED
    BY <2>1
<1>2. ASSUME NEW k \in 1..n, k - 1 \in S PROVE k \in S
  <2> SUFFICES ASSUME NEW s \in SUBSET (1..k), s # {} PROVE Max(s) \in s
    OBVIOUS
  <2>1. CASE k \in s
    <3>1. \A y \in s : k >= y
      OBVIOUS
    <3> QED
      BY <2>1, <3>1 DEF Max
  <2>2. CASE k \notin s
    <3>1. s \in SUBSET (1..(k - 1))
      BY <2>2
    <3> QED
      BY <1>2, <3>1
  <2> QED
    BY <2>1, <2>2
<1>3. S = 0..n
  <2> HIDE DEF S
  <2>1. S \in SUBSET (0..n)
    BY DEF S
  <2> QED
    BY <1>1, <1>2, <2>1, UpTo
<1> QED
  BY <1>3

\* f is the fold over the sets of numbers up to n: step F from the largest number.
Folds(f, n, base, F) ==
  \A s \in SUBSET (1..n) :
    f[s] = IF s = {} THEN base ELSE F[<<f[s \ {Max(s)}], Max(s)>>]

\* The recursion of a fold, with a step F over accumulators D, has a solution.
LEMMA FoldExists ==
  ASSUME NEW n \in Nat, NEW D, NEW base \in D, NEW F \in [D \X (1..n) -> D]
  PROVE  \E f \in [SUBSET (1..n) -> D] : Folds(f, n, base, F)
<1> DEFINE S == {k \in 0..n : \E f \in [SUBSET (1..k) -> D] : Folds(f, k, base, F)}
<1>1. 0 \in S
  <2>9. 1..0 = {} /\ 0 \in 0..n
    OBVIOUS
  <2>1. [s \in SUBSET (1..0) |-> base] \in [SUBSET (1..0) -> D]
    OBVIOUS
  <2>2. Folds([s \in SUBSET (1..0) |-> base], 0, base, F)
    BY <2>9 DEF Folds
  <2> QED
    BY <2>9, <2>1, <2>2
<1>2. ASSUME NEW k \in 1..n, k - 1 \in S PROVE k \in S
  <2>1. PICK f \in [SUBSET (1..(k - 1)) -> D] : Folds(f, k - 1, base, F)
    BY <1>2
  <2> DEFINE g == [s \in SUBSET (1..k) |->
                     IF k \in s THEN F[<<f[s \ {k}], k>>] ELSE f[s]]
  <2>2. \A s \in SUBSET (1..k) : s \ {k} \in SUBSET (1..(k - 1))
    OBVIOUS
  <2>3. \A s \in SUBSET (1..k) : k \notin s => s \in SUBSET (1..(k - 1))
    OBVIOUS
  <2>4. g \in [SUBSET (1..k) -> D]
    <3>1. ASSUME NEW s \in SUBSET (1..k)
          PROVE (IF k \in s THEN F[<<f[s \ {k}], k>>] ELSE f[s]) \in D
      BY <2>2, <2>3
    <3> QED
      BY <3>1
  <2>5. ASSUME NEW s \in SUBSET (1..k)
        PROVE  g[s] = IF s = {} THEN base ELSE F[<<g[s \ {Max(s)}], Max(s)>>]
    <3>1. CASE k \in s
      <4>1. \A y \in s : k >= y
        OBVIOUS
      <4>2. Max(s) = k
        <5>1. \A x \in s : (\A y \in s : x >= y) => x = k
          BY <3>1
        <5> QED
          BY <3>1, <4>1, <5>1 DEF Max
      <4>3. g[s \ {k}] = f[s \ {k}]
        BY <2>2
      <4> QED
        BY <3>1, <4>2, <4>3
    <3>2. CASE k \notin s
      <4>1. s \in SUBSET (1..(k - 1)) /\ s \ {Max(s)} \in SUBSET (1..(k - 1))
        BY <3>2, <2>3
      <4>2. k \notin s \ {Max(s)} /\ s \ {Max(s)} \in SUBSET (1..k)
        BY <3>2
      <4>3. g[s] = f[s] /\ g[s \ {Max(s)}] = f[s \ {Max(s)}]
        BY <3>2, <4>2
      <4> QED
        BY <2>1, <4>1, <4>3 DEF Folds
    <3> QED
      BY <3>1, <3>2
  <2>6. Folds(g, k, base, F)
    BY <2>5 DEF Folds
  <2> HIDE DEF g
  <2> QED
    BY <2>4, <2>6
<1>3. S = 0..n
  <2> HIDE DEF S
  <2>1. S \in SUBSET (0..n)
    BY DEF S
  <2> QED
    BY <1>1, <1>2, <2>1, UpTo
<1>4. \E f \in [SUBSET (1..n) -> D] : Folds(f, n, base, F)
  <2>1. n \in 0..n
    OBVIOUS
  <2> QED
    BY <1>3, <2>1
<1> QED
  BY <1>4

\* The largest number of an initial segment, and what is left without it.
LEMMA Segment ==
  ASSUME NEW k \in Nat, k # 0
  PROVE  1..k # {} /\ Max(1..k) = k /\ (1..k) \ {Max(1..k)} = 1..(k - 1)
<1>1. k \in 1..k /\ \A y \in 1..k : k >= y
  OBVIOUS
<1>2. \A x \in 1..k : (\A y \in 1..k : x >= y) => x = k
  BY <1>1
<1>3. Max(1..k) = k
  BY <1>1, <1>2 DEF Max
<1>4. (1..k) \ {k} = 1..(k - 1)
  OBVIOUS
<1> QED
  BY <1>1, <1>3, <1>4

\* iter is the fold, as far as it is known to be over accumulators.
Iterates(iter, n, D, base, F) ==
  /\ iter[{}] = base
  /\ \A s \in SUBSET (1..n) : s # {} /\ iter[s \ {Max(s)}] \in D =>
       iter[s] = F[<<iter[s \ {Max(s)}], Max(s)>>]

\* The accumulators a lead from base to end, with one step per position.
Passes(a, n, D, base, F, end) ==
  /\ a \in [0..n -> D] /\ a[0] = base /\ a[n] = end
  /\ \A k \in 1..n : a[k] = F[<<a[k - 1], k>>]

\* A fold takes one step per position, over accumulators.
LEMMA FoldSteps ==
  ASSUME NEW n \in Nat, NEW D, NEW base \in D, NEW F \in [D \X (1..n) -> D],
         NEW iter, Iterates(iter, n, D, base, F)
  PROVE  \E a : Passes(a, n, D, base, F, iter[1..n])
<1> DEFINE S == {k \in 0..n : iter[1..k] \in D}
           a == [k \in 0..n |-> iter[1..k]]
<1>1. 1..0 = {} /\ 0 \in 0..n /\ n \in 0..n
  OBVIOUS
<1>2. ASSUME NEW k \in 1..n, iter[1..(k - 1)] \in D
      PROVE  iter[1..k] = F[<<iter[1..(k - 1)], k>>]
  <2>1. 1..k # {} /\ Max(1..k) = k /\ (1..k) \ {Max(1..k)} = 1..(k - 1)
    <3>1. k \in Nat /\ k # 0
      OBVIOUS
    <3> QED
      BY <3>1, Segment
  <2>2. 1..k \in SUBSET (1..n)
    OBVIOUS
  <2> QED
    BY <1>2, <2>1, <2>2 DEF Iterates
<1>3. ASSUME NEW k \in 1..n, k - 1 \in S PROVE k \in S
  <2>1. k \in 0..n /\ iter[1..(k - 1)] \in D
    BY <1>3
  <2> QED
    BY <1>2, <2>1
<1>4. S = 0..n
  <2>1. 0 \in S /\ S \in SUBSET (0..n)
    BY <1>1 DEF Iterates
  <2> HIDE DEF S
  <2> QED
    BY <1>3, <2>1, UpTo
<1>5. a \in [0..n -> D]
  BY <1>4
<1>6. \A k \in 1..n : k \in 0..n /\ k - 1 \in 0..n
  OBVIOUS
<1>7. \A k \in 1..n : a[k] = F[<<a[k - 1], k>>]
  BY <1>2, <1>4, <1>6
<1>8. a[0] = base /\ a[n] = iter[1..n]
  BY <1>1 DEF Iterates
<1> HIDE DEF a
<1> QED
  BY <1>5, <1>7, <1>8 DEF Passes

-----------------------------------------------------------------------------
(***************************************************************************)
(* The failure report.                                                     *)
(***************************************************************************)
Streaks(log) == [label : {log[i].label : i \in DOMAIN log}, start_seq : Nat, length : Nat]

Reports(log) ==
  [errors : Seq(Nat), models : SUBSET Nat, node_time : SUBSET Nat,
   interrupted_runs : Nat, checkpoints : Nat,
   prev_call_label : SUBSET {log[i].label : i \in DOMAIN log},
   streak : SUBSET Streaks(log), streaks : SUBSET Streaks(log)]

\* A failure is added to a report.
LEMMA ErrorType ==
  ASSUME NEW log, NEW a \in Reports(log), NEW i \in Nat
  PROVE  /\ [a EXCEPT !.errors = Append(@, i)] \in Reports(log)
         /\ [a EXCEPT !.errors = Append(@, i)].errors = Append(a.errors, i)
         /\ [a EXCEPT !.errors = Append(@, i)].models = a.models
         /\ [a EXCEPT !.errors = Append(@, i)].node_time = a.node_time
         /\ [a EXCEPT !.errors = Append(@, i)].prev_call_label = a.prev_call_label
         /\ [a EXCEPT !.errors = Append(@, i)].streak = a.streak
         /\ [a EXCEPT !.errors = Append(@, i)].streaks = a.streaks
<1> DEFINE es == Append(a.errors, i)
<1>1. es \in Seq(Nat)
  BY AppendProperties DEF Reports
<1>2. [a EXCEPT !.errors = Append(@, i)] = [a EXCEPT !.errors = es]
  OBVIOUS
<1> HIDE DEF es
<1>3. [a EXCEPT !.errors = es] \in Reports(log)
  BY <1>1 DEF Reports
<1>4. /\ [a EXCEPT !.errors = es].errors = es
      /\ [a EXCEPT !.errors = es].models = a.models
      /\ [a EXCEPT !.errors = es].node_time = a.node_time
      /\ [a EXCEPT !.errors = es].prev_call_label = a.prev_call_label
      /\ [a EXCEPT !.errors = es].streak = a.streak
      /\ [a EXCEPT !.errors = es].streaks = a.streaks
  BY DEF Reports
<1> QED
  BY <1>2, <1>3, <1>4 DEF es

LEMMA CountCallType ==
  ASSUME NEW E, NEW log \in Seq(E), NEW a \in Reports(log), NEW i \in 1..Len(log)
  PROVE  /\ count_call(a, log[i].label, i) \in Reports(log)
         /\ count_call(a, log[i].label, i).errors = a.errors
         /\ count_call(a, log[i].label, i).models = a.models
         /\ count_call(a, log[i].label, i).node_time = a.node_time
<1> DEFINE label == log[i].label
           new == [label |-> label, start_seq |-> i, length |-> 2]
           longer == {[s EXCEPT !.length = @ + 1] : s \in a.streak}
<1>1. i \in DOMAIN log /\ i \in Nat
  OBVIOUS
<1>2. new \in Streaks(log) /\ label \in {log[j].label : j \in DOMAIN log}
  BY <1>1 DEF Streaks
<1>3. longer \subseteq Streaks(log)
  <2>1. \A s \in Streaks(log) : [s EXCEPT !.length = @ + 1] \in Streaks(log)
    BY DEF Streaks
  <2>2. a.streak \subseteq Streaks(log)
    BY DEF Reports
  <2> QED
    BY <2>1, <2>2
<1>4. [a EXCEPT !.streak = IF @ = {} THEN {new} ELSE longer] \in Reports(log)
  <2>1. (IF a.streak = {} THEN {new} ELSE longer) \in SUBSET Streaks(log)
    BY <1>2, <1>3
  <2> HIDE DEF new, longer
  <2> QED
    BY <2>1 DEF Reports
<1>5. [a EXCEPT !.streaks = @ \cup a.streak, !.streak = {}, !.prev_call_label = {label}]
        \in Reports(log)
  BY <1>2 DEF Reports
<1>6. count_call(a, label, i) \in Reports(log)
  BY <1>4, <1>5 DEF count_call
<1>7. /\ count_call(a, label, i).errors = a.errors
      /\ count_call(a, label, i).models = a.models
      /\ count_call(a, label, i).node_time = a.node_time
  <2> HIDE DEF label
  <2> QED
    BY DEF count_call, Reports
<1> QED
  BY <1>6, <1>7

\* What the first chain does: an event of another kind passes it.
Fails(e) == e.kind \in {"tool/result", "llm/call"} /\ ~e.ok

LEMMA CallChain ==
  ASSUME NEW E, NEW log \in Seq(E), NEW a \in Reports(log), NEW i \in 1..Len(log),
         NEW d, d = call_chain(a, log[i], i)
  PROVE  /\ d \in Reports(log)
         /\ d.errors = IF Fails(log[i]) THEN Append(a.errors, i) ELSE a.errors
         /\ d.models = a.models /\ d.node_time = a.node_time
         /\ log[i].kind # "tool/call" =>
              /\ d.prev_call_label = a.prev_call_label
              /\ d.streak = a.streak /\ d.streaks = a.streaks
<1>1. CASE log[i].kind = "tool/call"
  <2>1. d = count_call(a, log[i].label, i) /\ ~Fails(log[i])
    BY <1>1 DEF call_chain, Fails
  <2> QED
    BY <1>1, <2>1, CountCallType
<1>2. CASE log[i].kind # "tool/call" /\ Fails(log[i])
  <2>1. d = [a EXCEPT !.errors = Append(@, i)] /\ i \in Nat
    BY <1>2 DEF call_chain, Fails
  <2> QED
    BY <1>2, <2>1, ErrorType
<1>3. CASE log[i].kind # "tool/call" /\ ~Fails(log[i])
  <2>1. d = a
    BY <1>3 DEF call_chain, Fails
  <2> QED
    BY <1>3, <2>1
<1> QED
  BY <1>1, <1>2, <1>3

LEMMA ModelChain ==
  ASSUME NEW E, NEW log \in Seq(E), NEW a \in Reports(log), NEW i \in 1..Len(log),
         NEW d, d = model_chain(a, log[i], i)
  PROVE  /\ d \in Reports(log)
         /\ d.errors = IF log[i].kind = "node/end" /\ ~log[i].ok
                         THEN Append(a.errors, i) ELSE a.errors
         /\ d.models = a.models \cup {j \in {i} : log[i].kind = "llm/call"}
         /\ d.node_time = a.node_time
         /\ d.prev_call_label = a.prev_call_label
         /\ d.streak = a.streak /\ d.streaks = a.streaks
<1>1. i \in Nat
  OBVIOUS
<1>2. CASE log[i].kind = "llm/call"
  <2>1. d = [a EXCEPT !.models = @ \cup {i}]
    BY <1>2 DEF model_chain
  <2> QED
    BY <1>1, <1>2, <2>1 DEF Reports
<1>3. CASE log[i].kind = "node/end" /\ ~log[i].ok
  <2>1. d = [a EXCEPT !.errors = Append(@, i)]
    BY <1>3 DEF model_chain
  <2> QED
    BY <1>1, <1>3, <2>1, ErrorType
<1>4. CASE log[i].kind # "llm/call" /\ ~(log[i].kind = "node/end" /\ ~log[i].ok)
  <2>1. d = a
    BY <1>4 DEF model_chain
  <2> QED
    BY <1>4, <2>1
<1> QED
  BY <1>2, <1>3, <1>4

\* A number is counted up in a report.
LEMMA CountedUp ==
  ASSUME NEW log, NEW a \in Reports(log),
         NEW d, d \in {[a EXCEPT !.interrupted_runs = @ + 1], [a EXCEPT !.checkpoints = @ + 1]}
  PROVE  /\ d \in Reports(log)
         /\ d.errors = a.errors /\ d.models = a.models /\ d.node_time = a.node_time
         /\ d.prev_call_label = a.prev_call_label
         /\ d.streak = a.streak /\ d.streaks = a.streaks
<1>1. a.interrupted_runs + 1 \in Nat /\ a.checkpoints + 1 \in Nat
  BY DEF Reports
<1>2. \A k \in Nat : [a EXCEPT !.interrupted_runs = k] \in Reports(log)
                   /\ [a EXCEPT !.checkpoints = k] \in Reports(log)
  BY DEF Reports
<1>3. \/ d = [a EXCEPT !.interrupted_runs = a.interrupted_runs + 1]
      \/ d = [a EXCEPT !.checkpoints = a.checkpoints + 1]
  OBVIOUS
<1>4. d \in Reports(log)
  BY <1>1, <1>2, <1>3
<1>5. \A k : /\ [a EXCEPT !.interrupted_runs = k].errors = a.errors
             /\ [a EXCEPT !.interrupted_runs = k].models = a.models
             /\ [a EXCEPT !.interrupted_runs = k].node_time = a.node_time
             /\ [a EXCEPT !.interrupted_runs = k].prev_call_label = a.prev_call_label
             /\ [a EXCEPT !.interrupted_runs = k].streak = a.streak
             /\ [a EXCEPT !.interrupted_runs = k].streaks = a.streaks
  BY DEF Reports
<1>6. \A k : /\ [a EXCEPT !.checkpoints = k].errors = a.errors
             /\ [a EXCEPT !.checkpoints = k].models = a.models
             /\ [a EXCEPT !.checkpoints = k].node_time = a.node_time
             /\ [a EXCEPT !.checkpoints = k].prev_call_label = a.prev_call_label
             /\ [a EXCEPT !.checkpoints = k].streak = a.streak
             /\ [a EXCEPT !.checkpoints = k].streaks = a.streaks
  BY DEF Reports
<1> QED
  BY <1>3, <1>4, <1>5, <1>6

LEMMA NodeChain ==
  ASSUME NEW E, NEW log \in Seq(E), NEW a \in Reports(log), NEW i \in 1..Len(log),
         NEW d, d = node_chain(a, log[i], i)
  PROVE  /\ d \in Reports(log)
         /\ d.errors = a.errors /\ d.models = a.models
         /\ d.node_time = a.node_time \cup {j \in {i} : log[i].kind = "node/end"}
         /\ d.streak = a.streak /\ d.streaks = a.streaks
         /\ d.prev_call_label = IF log[i].kind = "state/snapshot" THEN {}
                                  ELSE a.prev_call_label
<1>1. i \in Nat
  OBVIOUS
<1>2. CASE log[i].kind = "node/end"
  <2>1. d = [a EXCEPT !.node_time = @ \cup {i}]
    BY <1>2 DEF node_chain
  <2> QED
    BY <1>1, <1>2, <2>1 DEF Reports
<1>3. CASE log[i].kind = "run/end" /\ log[i].status = "interrupted"
  <2>1. d = [a EXCEPT !.interrupted_runs = @ + 1]
    BY <1>3 DEF node_chain
  <2>2. log[i].kind # "node/end" /\ log[i].kind # "state/snapshot"
    BY <1>3
  <2> QED
    BY <2>2, <2>1, CountedUp
<1>4. CASE log[i].kind = "state/snapshot"
  <2> DEFINE b == [a EXCEPT !.checkpoints = @ + 1]
  <2>1. b \in Reports(log) /\ b.errors = a.errors /\ b.models = a.models
        /\ b.node_time = a.node_time /\ b.streak = a.streak /\ b.streaks = a.streaks
    BY CountedUp
  <2>2. d = [b EXCEPT !.prev_call_label = {}]
    BY <1>4 DEF node_chain
  <2> HIDE DEF b
  <2> QED
    BY <1>4, <2>1, <2>2 DEF Reports
<1>5. CASE /\ log[i].kind \notin {"node/end", "state/snapshot"}
           /\ ~(log[i].kind = "run/end" /\ log[i].status = "interrupted")
  <2>1. d = a
    BY <1>5 DEF node_chain
  <2> QED
    BY <1>5, <2>1
<1> QED
  BY <1>2, <1>3, <1>4, <1>5

\* What the report is after one more event.
Failing(e) == Fails(e) \/ (e.kind = "node/end" /\ ~e.ok)

LEMMA TallyStep ==
  ASSUME NEW E, NEW log \in Seq(E), NEW a \in Reports(log), NEW i \in 1..Len(log),
         NEW d, d = tally(log, a, i)
  PROVE  /\ d \in Reports(log)
         /\ d.errors = IF Failing(log[i]) THEN Append(a.errors, i) ELSE a.errors
         /\ d.models = a.models \cup {j \in {i} : log[i].kind = "llm/call"}
         /\ d.node_time = a.node_time \cup {j \in {i} : log[i].kind = "node/end"}
         /\ log[i].kind # "tool/call" =>
              /\ d.streak = a.streak /\ d.streaks = a.streaks
              /\ d.prev_call_label = IF log[i].kind = "state/snapshot" THEN {}
                                       ELSE a.prev_call_label
<1> DEFINE b == call_chain(a, log[i], i)
           c == model_chain(b, log[i], i)
<1>1. d = node_chain(c, log[i], i)
  BY DEF tally
<1>2. /\ b \in Reports(log)
      /\ b.errors = IF Fails(log[i]) THEN Append(a.errors, i) ELSE a.errors
      /\ b.models = a.models /\ b.node_time = a.node_time
      /\ log[i].kind # "tool/call" =>
           /\ b.prev_call_label = a.prev_call_label
           /\ b.streak = a.streak /\ b.streaks = a.streaks
  BY CallChain
<1> HIDE DEF b
<1>3. /\ c \in Reports(log)
      /\ c.errors = IF log[i].kind = "node/end" /\ ~log[i].ok
                      THEN Append(b.errors, i) ELSE b.errors
      /\ c.models = b.models \cup {j \in {i} : log[i].kind = "llm/call"}
      /\ c.node_time = b.node_time
      /\ c.prev_call_label = b.prev_call_label
      /\ c.streak = b.streak /\ c.streaks = b.streaks
  BY <1>2, ModelChain
<1> HIDE DEF c
<1>4. /\ d \in Reports(log)
      /\ d.errors = c.errors /\ d.models = c.models
      /\ d.node_time = c.node_time \cup {j \in {i} : log[i].kind = "node/end"}
      /\ d.streak = c.streak /\ d.streaks = c.streaks
      /\ d.prev_call_label = IF log[i].kind = "state/snapshot" THEN {}
                               ELSE c.prev_call_label
  <2>1. c \in Reports(log)
    BY <1>3
  <2> QED
    BY <1>1, <2>1, NodeChain
<1>5. d.errors = IF Failing(log[i]) THEN Append(a.errors, i) ELSE a.errors
  <2> DEFINE ended == log[i].kind = "node/end" /\ ~log[i].ok
  <2>1. Fails(log[i]) => ~ended
    BY DEF Fails
  <2>2. Failing(log[i]) <=> (Fails(log[i]) \/ ended)
    BY DEF Failing
  <2>3. d.errors = IF ended THEN Append(b.errors, i) ELSE b.errors
    BY <1>3, <1>4
  <2> HIDE DEF ended
  <2> QED
    BY <1>2, <2>1, <2>2, <2>3
<1> QED
  BY <1>2, <1>3, <1>4, <1>5

LEMMA TallyType ==
  ASSUME NEW E, NEW log \in Seq(E), NEW a \in Reports(log), NEW i \in 1..Len(log)
  PROVE  tally(log, a, i) \in Reports(log)
  BY TallyStep

\* analyze_log takes one step per event.
LEMMA TallyFolds ==
  ASSUME NEW E, NEW log \in Seq(E), NEW base \in Reports(log)
  PROVE  \E a \in [0..Len(log) -> Reports(log)] :
           /\ a[0] = base
           /\ \A k \in 1..Len(log) : a[k] = tally(log, a[k - 1], k)
           /\ FoldLeftDomain(LAMBDA r, i : tally(log, r, i), base, log) = a[Len(log)]
<1> DEFINE n == Len(log)
           D == Reports(log)
           F == [p \in D \X (1..n) |-> tally(log, p[1], p[2])]
           Next(f) == [s \in SUBSET (1..n) |->
                         IF s = {} THEN base
                         ELSE LET x == Max(s) IN tally(log, f[s \ {x}], [i \in 1..n |-> i][x])]
           iter == CHOOSE f : f = Next(f)
<1>1. n \in Nat /\ DOMAIN log = 1..n
  OBVIOUS
<1>2. F \in [D \X (1..n) -> D]
  <2>1. \A d \in D, i \in 1..n : tally(log, d, i) \in D
    BY TallyType
  <2> HIDE DEF D, n
  <2> QED
    BY <2>1
<1>3. \A s \in SUBSET (1..n) : s # {} => Max(s) \in 1..n
  BY <1>1, MaxIn
<1>4. \E f : f = Next(f)
  <2>1. PICK f \in [SUBSET (1..n) -> D] : Folds(f, n, base, F)
    <3> HIDE DEF F, n
    <3> QED
      BY <1>1, <1>2, FoldExists
  <2> HIDE DEF D, n
  <2> QED
    BY <1>3, <2>1 DEF Folds
<1>5. iter = Next(iter)
  <2> HIDE DEF Next
  <2> QED
    BY <1>4
<1>6. FoldLeftDomain(LAMBDA r, i : tally(log, r, i), base, log) = iter[1..n]
  BY <1>1 DEF FoldLeftDomain, FoldLeft, MapThenFoldSet
<1>7. \E a : Passes(a, n, D, base, F, iter[1..n])
  <2> HIDE DEF iter, D, n
  <2>1. Iterates(iter, n, D, base, F)
    BY <1>3, <1>5 DEF Iterates
  <2>2. base \in D
    BY DEF D
  <2> HIDE DEF F
  <2> QED
    BY <1>1, <1>2, <2>1, <2>2, FoldSteps
<1> HIDE DEF iter, D, n
<1>8. \A k \in 1..n : k - 1 \in 0..n
  BY <1>1
<1> QED
  BY <1>6, <1>7, <1>8 DEF D, n, Passes

NoReport == [errors |-> <<>>, models |-> {}, node_time |-> {},
             interrupted_runs |-> 0, checkpoints |-> 0,
             prev_call_label |-> {}, streak |-> {}, streaks |-> {}]

\* The report, from what the pass over the log leads to.
LEMMA ReportPasses ==
  ASSUME NEW E, NEW log \in Seq(E)
  PROVE  \E a \in [0..Len(log) -> Reports(log)] :
           /\ a[0] = NoReport
           /\ \A k \in 1..Len(log) : a[k] = tally(log, a[k - 1], k)
           /\ analyze_log(log).errors = a[Len(log)].errors
           /\ analyze_log(log).models = a[Len(log)].models
           /\ analyze_log(log).node_time = a[Len(log)].node_time
           /\ analyze_log(log).streaks = a[Len(log)].streaks \cup a[Len(log)].streak
<1>1. NoReport \in Reports(log)
  BY DEF NoReport, Reports
<1>2. PICK a \in [0..Len(log) -> Reports(log)] :
        /\ a[0] = NoReport
        /\ \A k \in 1..Len(log) : a[k] = tally(log, a[k - 1], k)
        /\ FoldLeftDomain(LAMBDA r, i : tally(log, r, i), NoReport, log) = a[Len(log)]
  BY <1>1, TallyFolds
<1> DEFINE end == a[Len(log)]
<1>3. analyze_log(log) = [end EXCEPT !.streaks = @ \cup end.streak]
  BY <1>2 DEF analyze_log, NoReport
<1>4. end \in Reports(log)
  <2>1. Len(log) \in 0..Len(log)
    OBVIOUS
  <2> QED
    BY <2>1
<1>5. /\ analyze_log(log).errors = end.errors
      /\ analyze_log(log).models = end.models
      /\ analyze_log(log).node_time = end.node_time
      /\ analyze_log(log).streaks = end.streaks \cup end.streak
  <2> HIDE DEF end
  <2> QED
    BY <1>3, <1>4 DEF Reports
<1> QED
  BY <1>2, <1>5

\* The report lists every failing event once, in the order of the log, and
\* counts every model call and every node, for every log.
LEMMA ReportLists ==
  ASSUME NEW E, NEW log \in Seq(E), NEW report, report = analyze_log(log)
  PROVE  /\ \A m, n \in DOMAIN report.errors : m < n => report.errors[m] < report.errors[n]
         /\ \A n \in DOMAIN report.errors :
              report.errors[n] \in DOMAIN log /\ Failing(log[report.errors[n]])
         /\ \A i \in DOMAIN log : Failing(log[i]) =>
              \E n \in DOMAIN report.errors : report.errors[n] = i
         /\ report.models = at(log, "llm/call")
         /\ report.node_time = at(log, "node/end")
<1>1. PICK a \in [0..Len(log) -> Reports(log)] :
        /\ a[0] = NoReport
        /\ \A k \in 1..Len(log) : a[k] = tally(log, a[k - 1], k)
        /\ report.errors = a[Len(log)].errors
        /\ report.models = a[Len(log)].models
        /\ report.node_time = a[Len(log)].node_time
  BY ReportPasses
<1> DEFINE Listed(es, k) ==
             /\ \A m, n \in 1..Len(es) : m < n => es[m] < es[n]
             /\ \A n \in 1..Len(es) : es[n] \in 1..k /\ Failing(log[es[n]])
             /\ \A i \in 1..k : Failing(log[i]) => \E n \in 1..Len(es) : es[n] = i
           Counts(d, k) ==
             /\ d.models = {i \in 1..k : log[i].kind = "llm/call"}
             /\ d.node_time = {i \in 1..k : log[i].kind = "node/end"}
           S == {k \in 0..Len(log) : Listed(a[k].errors, k) /\ Counts(a[k], k)}
<1>2. 0 \in S
  <2>1. Len(<<>>) = 0 /\ 1..0 = {} /\ 0 \in 0..Len(log)
    BY EmptySeq
  <2>2. a[0].errors = <<>> /\ a[0].models = {} /\ a[0].node_time = {}
    BY <1>1 DEF NoReport
  <2>3. Listed(a[0].errors, 0)
    BY <2>1, <2>2
  <2>4. Counts(a[0], 0)
    BY <2>1, <2>2
  <2> QED
    BY <2>1, <2>3, <2>4
<1>3. ASSUME NEW k \in 1..Len(log), k - 1 \in S PROVE k \in S
  <2> DEFINE d == a[k]
             r == a[k - 1]
  <2>1. r \in Reports(log) /\ Listed(r.errors, k - 1) /\ Counts(r, k - 1)
    BY <1>3
  <2>2. d = tally(log, r, k)
    BY <1>1
  <2> HIDE DEF d, r
  <2>3. /\ d.errors = IF Failing(log[k]) THEN Append(r.errors, k) ELSE r.errors
        /\ d.models = r.models \cup {j \in {k} : log[k].kind = "llm/call"}
        /\ d.node_time = r.node_time \cup {j \in {k} : log[k].kind = "node/end"}
    BY <2>1, <2>2, TallyStep
  <2>4. 1..k = (1..(k - 1)) \cup {k} /\ k - 1 \in Nat
    OBVIOUS
  <2>5. Counts(d, k)
    <3>1. {i \in 1..k : log[i].kind = "llm/call"}
            = {i \in 1..(k - 1) : log[i].kind = "llm/call"}
                \cup {j \in {k} : log[k].kind = "llm/call"}
      BY <2>4
    <3>2. {i \in 1..k : log[i].kind = "node/end"}
            = {i \in 1..(k - 1) : log[i].kind = "node/end"}
                \cup {j \in {k} : log[k].kind = "node/end"}
      BY <2>4
    <3> QED
      BY <2>1, <2>3, <3>1, <3>2
  <2>6. Listed(d.errors, k)
    <3> DEFINE es == r.errors
               fs == d.errors
    <3>1. es \in Seq(Nat)
      BY <2>1 DEF Reports
    <3> HIDE DEF es, fs
    <3>2. Len(es) \in Nat /\ Listed(es, k - 1)
      BY <2>1, <3>1, LenProperties DEF es
    <3>3. CASE ~Failing(log[k])
      <4>1. fs = es
        BY <2>3, <3>3 DEF es, fs
      <4>2. Listed(es, k)
        BY <2>4, <3>2, <3>3
      <4> QED
        BY <4>1, <4>2 DEF fs
    <3>4. CASE Failing(log[k])
      <4>1. /\ fs \in Seq(Nat) /\ Len(fs) = Len(es) + 1 /\ fs[Len(es) + 1] = k
            /\ \A n \in 1..Len(es) : fs[n] = es[n]
        <5>1. fs = Append(es, k) /\ k \in Nat
          BY <2>3, <3>4 DEF es, fs
        <5> QED
          BY <3>1, <5>1, AppendProperties
      <4>2. \A n \in 1..Len(fs) : n \in 1..Len(es) \/ n = Len(es) + 1
        BY <3>2, <4>1
      <4>3. \A n \in 1..Len(es) : n \in 1..Len(fs) /\ es[n] \in 1..(k - 1)
        BY <3>2, <4>1
      <4>4. ASSUME NEW m \in 1..Len(fs), NEW n \in 1..Len(fs), m < n
            PROVE  fs[m] < fs[n]
        <5>1. m \in 1..Len(es)
          BY <3>2, <4>1, <4>4
        <5>2. CASE n \in 1..Len(es)
          BY <3>2, <4>1, <4>4, <5>1, <5>2
        <5>3. CASE n = Len(es) + 1
          BY <4>1, <4>3, <5>1, <5>3
        <5> QED
          BY <4>2, <5>2, <5>3
      <4>5. \A n \in 1..Len(fs) : fs[n] \in 1..k /\ Failing(log[fs[n]])
        BY <2>4, <3>2, <3>4, <4>1, <4>2, <4>3
      <4>6. ASSUME NEW i \in 1..k, Failing(log[i]) PROVE \E n \in 1..Len(fs) : fs[n] = i
        <5>1. CASE i = k
          <6>1. Len(es) + 1 \in 1..Len(fs)
            BY <3>2, <4>1
          <6> QED
            BY <4>1, <5>1, <6>1
        <5>2. CASE i \in 1..(k - 1)
          <6>1. PICK n \in 1..Len(es) : es[n] = i
            BY <3>2, <4>6, <5>2
          <6> QED
            BY <4>1, <4>3, <6>1
        <5> QED
          BY <2>4, <5>1, <5>2
      <4>7. Listed(fs, k)
        BY <4>4, <4>5, <4>6
      <4> QED
        BY <4>7 DEF fs
    <3> QED
      BY <3>3, <3>4
  <2>7. k \in 0..Len(log)
    OBVIOUS
  <2> QED
    BY <2>5, <2>6, <2>7 DEF d
<1>4. S = 0..Len(log)
  <2>1. Len(log) \in Nat /\ S \in SUBSET (0..Len(log))
    OBVIOUS
  <2> HIDE DEF S
  <2> QED
    BY <1>2, <1>3, <2>1, UpTo
<1>5. Len(log) \in 0..Len(log) /\ DOMAIN log = 1..Len(log)
  OBVIOUS
<1>6. Listed(report.errors, Len(log)) /\ Counts(a[Len(log)], Len(log))
  BY <1>1, <1>4, <1>5
<1>7. DOMAIN report.errors = 1..Len(report.errors)
  BY <1>1, <1>5, LenProperties DEF Reports
<1>8. report.models = at(log, "llm/call") /\ report.node_time = at(log, "node/end")
  BY <1>1, <1>5, <1>6 DEF at
<1> QED
  BY <1>5, <1>6, <1>7, <1>8

-----------------------------------------------------------------------------
(***************************************************************************)
(* The DAG.                                                                *)
(***************************************************************************)
\* The dictionaries from keys in K to values in V.
Dicts(K, V) == UNION {[S -> V] : S \in SUBSET K}

LEMMA PutDict ==
  ASSUME NEW K, NEW V, NEW d \in Dicts(K, V), NEW k \in K, NEW v \in V
  PROVE  /\ put(d, k, v) \in Dicts(K, V) /\ put_first(d, k, v) \in Dicts(K, V)
         /\ DOMAIN put(d, k, v) = DOMAIN d \cup {k}
         /\ \A x \in DOMAIN d \cup {k} : put(d, k, v)[x] = IF x = k THEN v ELSE d[x]
<1>1. PICK S \in SUBSET K : d \in [S -> V]
  BY DEF Dicts
<1>2. put(d, k, v) \in [S \cup {k} -> V] /\ S \cup {k} \in SUBSET K
  BY <1>1 DEF put
<1> QED
  BY <1>1, <1>2 DEF Dicts, put, put_first

EdgeKinds == {"chain", "call", "writes", "parent"}

Edges == Dicts(Nat \X Nat, EdgeKinds)

LEMMA Priorities ==
  /\ Priority["chain"] = 1 /\ Priority["writes"] = 2
  /\ Priority["call"] = 3 /\ Priority["parent"] = 4
  BY DEF Priority

LEMMA AddEdgeType ==
  ASSUME NEW edges \in Edges, NEW src \in Nat, NEW dst \in Nat, NEW kind \in EdgeKinds
  PROVE  add_edge(edges, src, dst, kind) \in Edges
<1>1. <<src, dst>> \in Nat \X Nat
  OBVIOUS
<1>2. put(edges, <<src, dst>>, kind) \in Edges
  BY <1>1, PutDict DEF Edges
<1> QED
  BY <1>2 DEF add_edge

\* The sets of at most one position.
AtMostOne == {{}} \cup {{i} : i \in Nat}

LEMMA MaxOfOne == \A i \in Nat : Max({i}) = i
<1> SUFFICES ASSUME NEW i \in Nat PROVE Max({i}) = i
  OBVIOUS
<1>1. \A x \in {i} : \A y \in {i} : x >= y
  OBVIOUS
<1>2. Max({i}) \in {i}
  BY <1>1 DEF Max
<1> QED
  BY <1>2

\* The edges into i that visit adds: the chain, and an edge of this kind from srcs.
Drawn(edges, i, srcs, kind) ==
  LET chained == IF i = 1 THEN edges ELSE add_edge(edges, i - 1, i, "chain")
  IN  IF srcs = {} THEN chained ELSE add_edge(chained, Max(srcs), i, kind)

Keys(log) == UNION {{log[i].run, log[i].label, log[i].cp} : i \in DOMAIN log}

Dags(log) ==
  [edges : Edges, call_by_run : Dicts(Keys(log), Nat), call_by_label : Dicts(Keys(log), Nat),
   snapshot_by_cp : Dicts(Keys(log), Nat), last_snapshot_seq : AtMostOne]

\* What event i of the log is connected to, and how.
sources(log, dag, i) ==
  LET e == log[i] IN
  CASE e.kind = "tool/result" -> source(dag, e)
    [] e.kind = "state/snapshot" ->
         IF e.parent \in DOMAIN dag.snapshot_by_cp THEN {dag.snapshot_by_cp[e.parent]} ELSE {}
    [] e.kind = "checkpoint/writes" -> dag.last_snapshot_seq
    [] OTHER -> {}

edge_kind(e) ==
  CASE e.kind = "state/snapshot" -> "parent"
    [] e.kind = "checkpoint/writes" -> "writes"
    [] OTHER -> "call"

LEMMA DictValues ==
  ASSUME NEW K, NEW V, NEW d \in Dicts(K, V), NEW k \in DOMAIN d
  PROVE  d[k] \in V
  BY DEF Dicts

LEMMA SourcesType ==
  ASSUME NEW log, NEW dag \in Dags(log), NEW i
  PROVE  sources(log, dag, i) \in AtMostOne /\ edge_kind(log[i]) \in EdgeKinds
<1>1. \A k \in DOMAIN dag.call_by_run : dag.call_by_run[k] \in Nat
  BY DictValues DEF Dags
<1>2. \A k \in DOMAIN dag.call_by_label : dag.call_by_label[k] \in Nat
  BY DictValues DEF Dags
<1>3. \A k \in DOMAIN dag.snapshot_by_cp : dag.snapshot_by_cp[k] \in Nat
  BY DictValues DEF Dags
<1>4. dag.last_snapshot_seq \in AtMostOne /\ {} \in AtMostOne /\ \A n \in Nat : {n} \in AtMostOne
  BY DEF Dags, AtMostOne
<1>5. source(dag, log[i]) \in AtMostOne
  BY <1>1, <1>2, <1>4 DEF source
<1>6. sources(log, dag, i) \in AtMostOne
  BY <1>3, <1>4, <1>5 DEF sources
<1> QED
  BY <1>6 DEF edge_kind, EdgeKinds

LEMMA DrawnType ==
  ASSUME NEW edges \in Edges, NEW i \in Nat \ {0}, NEW srcs \in AtMostOne, NEW kind \in EdgeKinds
  PROVE  /\ Drawn(edges, i, srcs, kind) \in Edges
         /\ Drawn(edges, i, {}, kind) \in Edges
<1> DEFINE chained == IF i = 1 THEN edges ELSE add_edge(edges, i - 1, i, "chain")
<1>1. chained \in Edges
  <2>1. i - 1 \in Nat /\ i \in Nat /\ "chain" \in EdgeKinds
    BY DEF EdgeKinds
  <2> QED
    BY <2>1, AddEdgeType
<1>2. srcs # {} => Max(srcs) \in Nat
  BY MaxOfOne DEF AtMostOne
<1> HIDE DEF chained
<1>3. srcs # {} => add_edge(chained, Max(srcs), i, kind) \in Edges
  BY <1>1, <1>2, AddEdgeType
<1> QED
  BY <1>1, <1>3 DEF Drawn, chained

\* One turn of the loop of build_dag takes dag to d.
Visited(log, dag, i, d) ==
  LET e == log[i] IN
  /\ d \in Dags(log)
  /\ d.edges = Drawn(dag.edges, i, sources(log, dag, i), edge_kind(e))
  /\ d.call_by_run = IF e.kind = "tool/call" THEN put(dag.call_by_run, e.run, i)
                     ELSE dag.call_by_run
  /\ d.call_by_label = IF e.kind = "tool/call" THEN put_first(dag.call_by_label, e.label, i)
                       ELSE dag.call_by_label
  /\ d.snapshot_by_cp = IF e.kind = "state/snapshot" THEN put(dag.snapshot_by_cp, e.cp, i)
                        ELSE dag.snapshot_by_cp
  /\ d.last_snapshot_seq = IF e.kind = "state/snapshot" THEN {i} ELSE dag.last_snapshot_seq

LEMMA VisitEffect ==
  ASSUME NEW E, NEW log \in Seq(E), NEW dag \in Dags(log), NEW i \in 1..Len(log)
  PROVE  Visited(log, dag, i, visit(log, dag, i))
<1> SUFFICES ASSUME NEW e, e = log[i], NEW d, d = visit(log, dag, i)
             PROVE  Visited(log, dag, i, d)
  OBVIOUS
<1> DEFINE srcs == sources(log, dag, i)
           chained == IF i = 1 THEN dag.edges ELSE add_edge(dag.edges, i - 1, i, "chain")
           dag1 == IF i = 1 THEN dag ELSE [dag EXCEPT !.edges = add_edge(@, i - 1, i, "chain")]
           drawn == Drawn(dag.edges, i, srcs, edge_kind(e))
<1>1. /\ i \in Nat \ {0} /\ i \in Nat /\ i \in DOMAIN log /\ srcs \in AtMostOne
      /\ edge_kind(e) \in EdgeKinds /\ dag.edges \in Edges
  BY SourcesType DEF Dags
<1>2. drawn \in Edges /\ chained \in Edges
  BY <1>1, DrawnType DEF Drawn
<1>3. /\ dag1.edges = chained /\ dag1.call_by_run = dag.call_by_run
      /\ dag1.call_by_label = dag.call_by_label /\ dag1.snapshot_by_cp = dag.snapshot_by_cp
      /\ dag1.last_snapshot_seq = dag.last_snapshot_seq
      /\ dag1 \in Dags(log)
  <2> HIDE DEF chained
  <2>1. CASE i = 1
    BY <2>1 DEF Dags, chained
  <2>2. CASE i # 1
    <3>1. dag1 = [dag EXCEPT !.edges = chained]
      BY <2>2 DEF chained
    <3> HIDE DEF dag1
    <3> QED
      BY <1>2, <3>1 DEF Dags
  <2> QED
    BY <2>1, <2>2
<1>4. source(dag1, e) = source(dag, e)
  BY <1>3 DEF source
<1>5. {e.run, e.label, e.cp} \subseteq Keys(log)
  BY <1>1 DEF Keys
<1>6. CASE e.kind = "tool/call"
  <2>1. srcs = {} /\ drawn = chained
    BY <1>6 DEF sources, Drawn
  <2>2. d = [dag1 EXCEPT !.call_by_run = put(@, e.run, i),
                         !.call_by_label = put_first(@, e.label, i)]
    BY <1>6 DEF visit
  <2>3. /\ put(dag.call_by_run, e.run, i) \in Dicts(Keys(log), Nat)
        /\ put_first(dag.call_by_label, e.label, i) \in Dicts(Keys(log), Nat)
    BY <1>1, <1>5, PutDict DEF Dags
  <2> HIDE DEF dag1, drawn, srcs
  <2>4. d = [edges |-> chained, call_by_run |-> put(dag.call_by_run, e.run, i),
             call_by_label |-> put_first(dag.call_by_label, e.label, i),
             snapshot_by_cp |-> dag.snapshot_by_cp, last_snapshot_seq |-> dag.last_snapshot_seq]
    BY <1>3, <2>2 DEF Dags
  <2>5. d \in Dags(log)
    BY <1>2, <1>3, <2>3, <2>4 DEF Dags
  <2> HIDE DEF chained
  <2> QED
    BY <1>6, <2>1, <2>4, <2>5 DEF Visited, drawn, srcs
<1>7. CASE e.kind = "tool/result"
  <2>1. srcs = source(dag1, e) /\ edge_kind(e) = "call"
    BY <1>4, <1>7 DEF sources, edge_kind
  <2>2. d = [dag1 EXCEPT !.edges = drawn]
    BY <1>3, <1>7, <2>1 DEF visit, Drawn
  <2> HIDE DEF dag1, drawn, srcs
  <2> QED
    BY <1>2, <1>3, <1>7, <2>2 DEF Visited, Dags, drawn, srcs
<1>8. CASE e.kind = "state/snapshot"
  <2>1. srcs = (IF e.parent \in DOMAIN dag1.snapshot_by_cp
                  THEN {dag1.snapshot_by_cp[e.parent]} ELSE {})
        /\ edge_kind(e) = "parent"
    BY <1>3, <1>8 DEF sources, edge_kind
  <2>2. d = [dag1 EXCEPT !.edges = drawn,
                         !.snapshot_by_cp = put(@, e.cp, i),
                         !.last_snapshot_seq = {i}]
    BY <1>3, <1>8, <2>1 DEF visit, Drawn
  <2>3. put(dag.snapshot_by_cp, e.cp, i) \in Dicts(Keys(log), Nat)
    BY <1>1, <1>5, PutDict DEF Dags
  <2>4. {i} \in AtMostOne
    BY <1>1 DEF AtMostOne
  <2> HIDE DEF dag1, drawn, srcs
  <2>5. d = [edges |-> drawn, call_by_run |-> dag.call_by_run,
             call_by_label |-> dag.call_by_label,
             snapshot_by_cp |-> put(dag.snapshot_by_cp, e.cp, i), last_snapshot_seq |-> {i}]
    BY <1>3, <2>2 DEF Dags
  <2>6. d \in Dags(log)
    BY <1>2, <1>3, <2>3, <2>4, <2>5 DEF Dags
  <2> QED
    BY <1>8, <2>5, <2>6 DEF Visited, drawn, srcs
<1>9. CASE e.kind = "checkpoint/writes"
  <2>1. srcs = dag1.last_snapshot_seq /\ edge_kind(e) = "writes"
    BY <1>3, <1>9 DEF sources, edge_kind
  <2>2. d = [dag1 EXCEPT !.edges = drawn]
    BY <1>3, <1>9, <2>1 DEF visit, Drawn
  <2> HIDE DEF dag1, drawn, srcs
  <2> QED
    BY <1>2, <1>3, <1>9, <2>2 DEF Visited, Dags, drawn, srcs
<1>10. CASE e.kind \notin {"tool/call", "tool/result", "state/snapshot", "checkpoint/writes"}
  <2>1. srcs = {} /\ drawn = chained
    BY <1>10 DEF sources, Drawn
  <2>2. d = dag1
    BY <1>10 DEF visit
  <2> HIDE DEF dag1, drawn, srcs
  <2> QED
    BY <1>3, <1>10, <2>1, <2>2 DEF Visited, drawn, srcs
<1> QED
  BY <1>6, <1>7, <1>8, <1>9, <1>10

\* build_dag takes one step per event.
LEMMA VisitFolds ==
  ASSUME NEW E, NEW log \in Seq(E), NEW base \in Dags(log)
  PROVE  \E a \in [0..Len(log) -> Dags(log)] :
           /\ a[0] = base
           /\ \A k \in 1..Len(log) : a[k] = visit(log, a[k - 1], k)
           /\ FoldLeftDomain(LAMBDA r, i : visit(log, r, i), base, log) = a[Len(log)]
<1> DEFINE n == Len(log)
           D == Dags(log)
           F == [p \in D \X (1..n) |-> visit(log, p[1], p[2])]
           Next(f) == [s \in SUBSET (1..n) |->
                         IF s = {} THEN base
                         ELSE LET x == Max(s) IN visit(log, f[s \ {x}], [i \in 1..n |-> i][x])]
           iter == CHOOSE f : f = Next(f)
<1>1. n \in Nat /\ DOMAIN log = 1..n
  OBVIOUS
<1>2. F \in [D \X (1..n) -> D]
  <2>1. \A d \in D, i \in 1..n : visit(log, d, i) \in D
    BY VisitEffect DEF Visited
  <2> HIDE DEF D, n
  <2> QED
    BY <2>1
<1>3. \A s \in SUBSET (1..n) : s # {} => Max(s) \in 1..n
  BY <1>1, MaxIn
<1>4. \E f : f = Next(f)
  <2>1. PICK f \in [SUBSET (1..n) -> D] : Folds(f, n, base, F)
    <3> HIDE DEF F, n
    <3> QED
      BY <1>1, <1>2, FoldExists
  <2> HIDE DEF D, n
  <2> QED
    BY <1>3, <2>1 DEF Folds
<1>5. iter = Next(iter)
  <2> HIDE DEF Next
  <2> QED
    BY <1>4
<1>6. FoldLeftDomain(LAMBDA r, i : visit(log, r, i), base, log) = iter[1..n]
  BY <1>1 DEF FoldLeftDomain, FoldLeft, MapThenFoldSet
<1>7. \E a : Passes(a, n, D, base, F, iter[1..n])
  <2> HIDE DEF iter, D, n
  <2>1. Iterates(iter, n, D, base, F)
    BY <1>3, <1>5 DEF Iterates
  <2>2. base \in D
    BY DEF D
  <2> HIDE DEF F
  <2> QED
    BY <1>1, <1>2, <2>1, <2>2, FoldSteps
<1> HIDE DEF iter, D, n
<1>8. \A k \in 1..n : k - 1 \in 0..n
  BY <1>1
<1> QED
  BY <1>6, <1>7, <1>8 DEF D, n, Passes

calls(log, k) == {n \in 1..k : log[n].kind = "tool/call"}
snapshots(log, k) == {n \in 1..k : log[n].kind = "state/snapshot"}

\* No run has two calls on record.
OneCall(log) ==
  \A m, n \in at(log, "tool/call") : log[m].run = log[n].run => m = n

\* The dictionaries of build_dag after k events.
Indices(log, dag, k) ==
  /\ DOMAIN dag.call_by_run = {log[n].run : n \in calls(log, k)}
  /\ \A n \in calls(log, k) : dag.call_by_run[log[n].run] = n
  /\ DOMAIN dag.call_by_label = {log[n].label : n \in calls(log, k)}
  /\ \A x \in DOMAIN dag.call_by_label :
       LET v == dag.call_by_label[x] IN
       /\ v \in calls(log, k) /\ log[v].label = x
       /\ \A n \in calls(log, k) : log[n].label = x => v <= n
  /\ DOMAIN dag.snapshot_by_cp = {log[n].cp : n \in snapshots(log, k)}
  /\ \A x \in DOMAIN dag.snapshot_by_cp :
       LET v == dag.snapshot_by_cp[x] IN
       /\ v \in snapshots(log, k) /\ log[v].cp = x
       /\ \A n \in snapshots(log, k) : log[n].cp = x => n <= v
  /\ dag.last_snapshot_seq = last(snapshots(log, k))

\* A position behind all others is the last one.
LEMMA LastOfMore ==
  ASSUME NEW k \in Nat, NEW S, \A n \in S : n < k /\ n \in Nat
  PROVE  last(S \cup {k}) = {k}
<1>1. \A n \in S : n <= k /\ ~(k <= n)
  OBVIOUS
<1> QED
  BY <1>1 DEF last

LEMMA IndicesStep ==
  ASSUME NEW E, NEW log \in Seq(E), OneCall(log), NEW dag \in Dags(log),
         NEW k \in 1..Len(log), Indices(log, dag, k - 1)
  PROVE  Indices(log, visit(log, dag, k), k)
<1> SUFFICES ASSUME NEW d, d = visit(log, dag, k), NEW e, e = log[k]
             PROVE  Indices(log, d, k)
  OBVIOUS
<1>1. /\ d.call_by_run = IF e.kind = "tool/call" THEN put(dag.call_by_run, e.run, k)
                         ELSE dag.call_by_run
      /\ d.call_by_label = IF e.kind = "tool/call" THEN put_first(dag.call_by_label, e.label, k)
                           ELSE dag.call_by_label
      /\ d.snapshot_by_cp = IF e.kind = "state/snapshot" THEN put(dag.snapshot_by_cp, e.cp, k)
                            ELSE dag.snapshot_by_cp
      /\ d.last_snapshot_seq = IF e.kind = "state/snapshot" THEN {k} ELSE dag.last_snapshot_seq
  <2>1. Visited(log, dag, k, d)
    BY VisitEffect
  <2> QED
    BY <2>1 DEF Visited
<1>2. calls(log, k) = calls(log, k - 1) \cup (IF e.kind = "tool/call" THEN {k} ELSE {})
  BY DEF calls
<1>3. snapshots(log, k) = snapshots(log, k - 1) \cup (IF e.kind = "state/snapshot" THEN {k} ELSE {})
  BY DEF snapshots
<1>4. /\ \A n \in calls(log, k - 1) : n < k /\ n \in Nat /\ n \in at(log, "tool/call")
      /\ \A n \in snapshots(log, k - 1) : n < k /\ n \in Nat
      /\ k \in Nat /\ (e.kind = "tool/call" => k \in at(log, "tool/call"))
  BY DEF calls, snapshots, at
<1>5. /\ DOMAIN d.call_by_run = {log[n].run : n \in calls(log, k)}
      /\ \A n \in calls(log, k) : d.call_by_run[log[n].run] = n
  <2>1. CASE e.kind = "tool/call"
    <3>1. d.call_by_run = put(dag.call_by_run, e.run, k)
      BY <1>1, <2>1
    <3>2. \A n \in calls(log, k - 1) : log[n].run # e.run
      BY <1>4, <2>1 DEF OneCall
    <3> QED
      BY <1>2, <2>1, <3>1, <3>2 DEF put, Indices
  <2>2. CASE e.kind # "tool/call"
    BY <1>1, <1>2, <2>2 DEF Indices
  <2> QED
    BY <2>1, <2>2
<1>6. /\ DOMAIN d.call_by_label = {log[n].label : n \in calls(log, k)}
      /\ \A x \in DOMAIN d.call_by_label :
           LET v == d.call_by_label[x] IN
           /\ v \in calls(log, k) /\ log[v].label = x
           /\ \A n \in calls(log, k) : log[n].label = x => v <= n
  <2>1. CASE e.kind = "tool/call" /\ e.label \notin DOMAIN dag.call_by_label
    <3>1. d.call_by_label = put(dag.call_by_label, e.label, k)
      BY <1>1, <2>1 DEF put_first
    <3>2. \A n \in calls(log, k - 1) : log[n].label # e.label
      BY <2>1 DEF Indices
    <3> QED
      BY <1>2, <1>4, <2>1, <3>1, <3>2 DEF put, Indices
  <2>2. CASE e.kind = "tool/call" /\ e.label \in DOMAIN dag.call_by_label
    <3>1. d.call_by_label = dag.call_by_label
      BY <1>1, <2>2 DEF put_first
    <3> QED
      BY <1>2, <1>4, <2>2, <3>1 DEF Indices
  <2>3. CASE e.kind # "tool/call"
    BY <1>1, <1>2, <2>3 DEF Indices
  <2> QED
    BY <2>1, <2>2, <2>3
<1>7. /\ DOMAIN d.snapshot_by_cp = {log[n].cp : n \in snapshots(log, k)}
      /\ \A x \in DOMAIN d.snapshot_by_cp :
           LET v == d.snapshot_by_cp[x] IN
           /\ v \in snapshots(log, k) /\ log[v].cp = x
           /\ \A n \in snapshots(log, k) : log[n].cp = x => n <= v
  <2>1. CASE e.kind = "state/snapshot"
    <3>1. d.snapshot_by_cp = put(dag.snapshot_by_cp, e.cp, k)
      BY <1>1, <2>1
    <3> QED
      BY <1>3, <1>4, <2>1, <3>1 DEF put, Indices
  <2>2. CASE e.kind # "state/snapshot"
    BY <1>1, <1>3, <2>2 DEF Indices
  <2> QED
    BY <2>1, <2>2
<1>8. d.last_snapshot_seq = last(snapshots(log, k))
  <2>1. CASE e.kind = "state/snapshot"
    <3>1. last(snapshots(log, k)) = {k}
      BY <1>3, <1>4, <2>1, LastOfMore
    <3> QED
      BY <1>1, <2>1, <3>1
  <2>2. CASE e.kind # "state/snapshot"
    BY <1>1, <1>3, <2>2 DEF Indices
  <2> QED
    BY <2>1, <2>2
<1> QED
  BY <1>5, <1>6, <1>7, <1>8 DEF Indices

\* d has the edges that are there, and behind them those drawn into i.
Behind(edges, i, srcs, kind, d) ==
  /\ DOMAIN d = DOMAIN edges \cup {<<s, i>> : s \in srcs}
                  \cup (IF i = 1 THEN {} ELSE {<<i - 1, i>>})
  /\ \A p \in DOMAIN edges : d[p] = edges[p]
  /\ \A s \in srcs : d[<<s, i>>] = kind
  /\ i # 1 /\ i - 1 \notin srcs => d[<<i - 1, i>>] = "chain"

LEMMA DrawnEdges ==
  ASSUME NEW edges \in Edges, NEW i \in Nat \ {0}, NEW srcs \in AtMostOne,
         NEW kind \in EdgeKinds \ {"chain"}, \A p \in DOMAIN edges : p[2] < i,
         NEW d, d = Drawn(edges, i, srcs, kind)
  PROVE  Behind(edges, i, srcs, kind, d)
<1>1. \A n : <<n, i>> \notin DOMAIN edges
  <2> SUFFICES ASSUME NEW n, <<n, i>> \in DOMAIN edges PROVE FALSE
    OBVIOUS
  <2>1. <<n, i>>[2] < i
    OBVIOUS
  <2> QED
    BY <2>1
<1> SUFFICES ASSUME NEW c, c = IF i = 1 THEN edges ELSE add_edge(edges, i - 1, i, "chain")
             PROVE  Behind(edges, i, srcs, kind, d)
  OBVIOUS
<1>2. /\ DOMAIN c = DOMAIN edges \cup (IF i = 1 THEN {} ELSE {<<i - 1, i>>})
      /\ \A p \in DOMAIN edges : c[p] = edges[p]
      /\ i # 1 => c[<<i - 1, i>>] = "chain"
  <2>1. CASE i = 1
    BY <2>1
  <2>2. CASE i # 1
    <3>1. c = put(edges, <<i - 1, i>>, "chain")
      BY <1>1, <2>2 DEF add_edge
    <3> QED
      BY <1>1, <2>2, <3>1 DEF put
  <2> QED
    BY <2>1, <2>2
<1>3. CASE srcs = {}
  <2>1. d = c
    BY <1>3 DEF Drawn
  <2> QED
    BY <1>2, <1>3, <2>1 DEF Behind
<1>4. CASE srcs # {}
  <2>1. PICK x \in Nat : srcs = {x}
    BY <1>4 DEF AtMostOne
  <2>2. d = add_edge(c, x, i, kind)
    BY <1>4, <2>1, MaxOfOne DEF Drawn
  <2>3. <<x, i>> \in DOMAIN c => c[<<x, i>>] = "chain"
    BY <1>1, <1>2
  <2>4. Priority[kind] > Priority["chain"]
    BY Priorities DEF EdgeKinds
  <2>5. d = put(c, <<x, i>>, kind)
    <3>1. Priority[kind] \in Nat /\ Priority["chain"] \in Nat
      BY Priorities DEF EdgeKinds
    <3>2. ~(Priority["chain"] >= Priority[kind])
      BY <2>4, <3>1
    <3> QED
      BY <2>2, <2>3, <3>2 DEF add_edge
  <2>6. /\ DOMAIN d = DOMAIN c \cup {<<x, i>>} /\ d[<<x, i>>] = kind
        /\ \A p \in DOMAIN c : p # <<x, i>> => d[p] = c[p]
    BY <2>5 DEF put
  <2>7. DOMAIN d = DOMAIN edges \cup {<<s, i>> : s \in srcs}
                     \cup (IF i = 1 THEN {} ELSE {<<i - 1, i>>})
    BY <1>2, <2>1, <2>6
  <2>8. \A p \in DOMAIN edges : d[p] = edges[p]
    BY <1>1, <1>2, <2>6
  <2>9. i # 1 /\ i - 1 \notin srcs => d[<<i - 1, i>>] = "chain"
    BY <1>2, <2>1, <2>6
  <2> QED
    BY <2>1, <2>6, <2>7, <2>8, <2>9 DEF Behind
<1> QED
  BY <1>3, <1>4

\* What the dictionaries find for event k is what its relations to the events
\* before it say.
LEMMA SourcesRelated ==
  ASSUME NEW E, NEW log \in Seq(E), OneCall(log), NEW dag \in Dags(log),
         NEW k \in 1..Len(log), Indices(log, dag, k - 1)
  PROVE  \A m \in 1..(k - 1) :
           relations(log, m, k) =
             (IF m = k - 1 THEN {"chain"} ELSE {})
               \cup (IF m \in sources(log, dag, k) THEN {edge_kind(log[k])} ELSE {})
<1> SUFFICES ASSUME NEW m \in 1..(k - 1), NEW e, e = log[k],
                    NEW C, C = calls(log, k - 1), NEW P, P = snapshots(log, k - 1)
             PROVE  relations(log, m, k) =
                      (IF m = k - 1 THEN {"chain"} ELSE {})
                        \cup (IF m \in sources(log, dag, k) THEN {edge_kind(e)} ELSE {})
  OBVIOUS
<1>1. /\ C = {n \in at(log, "tool/call") : n < k}
      /\ P = {n \in at(log, "state/snapshot") : n < k}
      /\ C \subseteq Nat /\ P \subseteq Nat
  BY DEF calls, snapshots, at
<1> DEFINE own == {n \in C : log[n].run = e.run}
           same == {n \in C : log[n].label = e.label}
           called == e.kind = "tool/result" /\ (m \in own \/ (own = {} /\ m \in same /\ \A n \in same : m <= n))
           wrote == e.kind = "checkpoint/writes" /\ m \in last(P)
           forked == e.kind = "state/snapshot" /\ m \in last({n \in P : log[n].cp = e.parent})
<1>2. relations(log, m, k) =
        (IF m = k - 1 THEN {"chain"} ELSE {}) \cup (IF called THEN {"call"} ELSE {})
          \cup (IF wrote THEN {"writes"} ELSE {}) \cup (IF forked THEN {"parent"} ELSE {})
  <2>1. k = m + 1 <=> m = k - 1
    OBVIOUS
  <2> HIDE DEF called, wrote, forked
  <2>2. relations(log, m, k) =
          {x \in {"chain", "call", "writes", "parent"} :
             CASE x = "chain" -> k = m + 1
               [] x = "call" -> called
               [] x = "writes" -> wrote
               [] x = "parent" -> forked}
    BY <1>1 DEF relations, called, wrote, forked
  <2> QED
    BY <2>1, <2>2
<1>3. called <=> e.kind = "tool/result" /\ m \in sources(log, dag, k)
  <2> SUFFICES ASSUME e.kind = "tool/result" PROVE called <=> m \in source(dag, e)
    BY DEF sources
  <2>1. CASE e.run \in DOMAIN dag.call_by_run
    <3>1. source(dag, e) = {dag.call_by_run[e.run]}
      BY <2>1 DEF source
    <3>2. PICK n \in C : log[n].run = e.run /\ dag.call_by_run[e.run] = n
      BY <2>1 DEF Indices
    <3>3. own = {n}
      BY <1>1, <3>2 DEF OneCall
    <3> QED
      BY <3>1, <3>2, <3>3
  <2>2. CASE e.run \notin DOMAIN dag.call_by_run /\ e.label \in DOMAIN dag.call_by_label
    <3>1. source(dag, e) = {dag.call_by_label[e.label]}
      BY <2>2 DEF source
    <3>2. own = {}
      BY <2>2 DEF Indices
    <3>3. PICK v \in same : v = dag.call_by_label[e.label] /\ \A n \in same : v <= n
      BY <2>2 DEF Indices
    <3>4. m \in same /\ (\A n \in same : m <= n) <=> m = v
      BY <1>1, <3>3
    <3> QED
      BY <3>1, <3>2, <3>3, <3>4
  <2>3. CASE e.run \notin DOMAIN dag.call_by_run /\ e.label \notin DOMAIN dag.call_by_label
    <3>1. source(dag, e) = {}
      BY <2>3 DEF source
    <3>2. own = {} /\ same = {}
      BY <2>3 DEF Indices
    <3> QED
      BY <3>1, <3>2
  <2> QED
    BY <2>1, <2>2, <2>3
<1>4. wrote <=> e.kind = "checkpoint/writes" /\ m \in sources(log, dag, k)
  BY DEF Indices, sources
<1>5. forked <=> e.kind = "state/snapshot" /\ m \in sources(log, dag, k)
  <2> SUFFICES ASSUME e.kind = "state/snapshot"
               PROVE  m \in last({n \in P : log[n].cp = e.parent}) <=> m \in sources(log, dag, k)
    OBVIOUS
  <2> DEFINE mine == {n \in P : log[n].cp = e.parent}
  <2>1. CASE e.parent \in DOMAIN dag.snapshot_by_cp
    <3>1. sources(log, dag, k) = {dag.snapshot_by_cp[e.parent]}
      BY <2>1 DEF sources
    <3>2. PICK v \in mine : v = dag.snapshot_by_cp[e.parent] /\ \A n \in mine : n <= v
      BY <2>1 DEF Indices
    <3>3. m \in last(mine) <=> m = v
      BY <1>1, <3>2 DEF last
    <3> QED
      BY <3>1, <3>2, <3>3
  <2>2. CASE e.parent \notin DOMAIN dag.snapshot_by_cp
    <3>1. mine = {} /\ sources(log, dag, k) = {}
      BY <2>2 DEF sources, Indices
    <3> QED
      BY <3>1 DEF last
  <2> QED
    BY <2>1, <2>2
<1>6. m \in sources(log, dag, k) =>
        e.kind \in {"tool/result", "state/snapshot", "checkpoint/writes"}
  BY DEF sources
<1> HIDE DEF called, wrote, forked
<1> QED
  BY <1>2, <1>3, <1>4, <1>5, <1>6 DEF edge_kind

\* The edges among the first k events are their related pairs, each with the
\* strongest of its relations.
Matches(log, edges, k) ==
  /\ DOMAIN edges = {p \in (1..k) \X (1..k) : p[1] < p[2] /\ relations(log, p[1], p[2]) # {}}
  /\ \A p \in DOMAIN edges :
       /\ edges[p] \in relations(log, p[1], p[2])
       /\ \A x \in relations(log, p[1], p[2]) : Priority[x] <= Priority[edges[p]]

LEMMA MatchesStep ==
  ASSUME NEW E, NEW log \in Seq(E), OneCall(log), NEW dag \in Dags(log),
         NEW k \in 1..Len(log), Indices(log, dag, k - 1), Matches(log, dag.edges, k - 1)
  PROVE  Matches(log, visit(log, dag, k).edges, k)
<1> SUFFICES ASSUME NEW d, d = visit(log, dag, k).edges,
                    NEW srcs, srcs = sources(log, dag, k),
                    NEW kind, kind = edge_kind(log[k])
             PROVE  Matches(log, d, k)
  OBVIOUS
<1>1. k \in Nat \ {0} /\ dag.edges \in Edges /\ srcs \in AtMostOne
  BY SourcesType DEF Dags
<1>2. kind \in {"call", "writes", "parent"} /\ kind \in EdgeKinds \ {"chain"}
  BY DEF edge_kind, EdgeKinds
<1>3. srcs \subseteq 1..(k - 1)
  <2>1. \A x \in DOMAIN dag.call_by_run : dag.call_by_run[x] \in 1..(k - 1)
    BY DEF Indices, calls
  <2>2. \A x \in DOMAIN dag.call_by_label : dag.call_by_label[x] \in 1..(k - 1)
    BY DEF Indices, calls
  <2>3. \A x \in DOMAIN dag.snapshot_by_cp : dag.snapshot_by_cp[x] \in 1..(k - 1)
    BY DEF Indices, snapshots
  <2>4. dag.last_snapshot_seq \subseteq 1..(k - 1)
    BY DEF Indices, snapshots, last
  <2>5. source(dag, log[k]) \subseteq 1..(k - 1)
    BY <2>1, <2>2 DEF source
  <2> QED
    BY <2>3, <2>4, <2>5 DEF sources
<1>4. \A p \in DOMAIN dag.edges : p \in (1..(k - 1)) \X (1..(k - 1)) /\ p[2] < k
  BY <1>1 DEF Matches
<1>5. d = Drawn(dag.edges, k, srcs, kind)
  <2>1. Visited(log, dag, k, visit(log, dag, k))
    BY VisitEffect
  <2> QED
    BY <2>1 DEF Visited
<1>6. /\ DOMAIN d = DOMAIN dag.edges \cup {<<s, k>> : s \in srcs}
                      \cup (IF k = 1 THEN {} ELSE {<<k - 1, k>>})
      /\ \A p \in DOMAIN dag.edges : d[p] = dag.edges[p]
      /\ \A s \in srcs : d[<<s, k>>] = kind
      /\ k # 1 /\ k - 1 \notin srcs => d[<<k - 1, k>>] = "chain"
  <2>1. \A p \in DOMAIN dag.edges : p[2] < k
    BY <1>4
  <2>2. Behind(dag.edges, k, srcs, kind, d)
    BY <1>1, <1>2, <1>5, <2>1, DrawnEdges
  <2> QED
    BY <2>2 DEF Behind
<1>7. \A m \in 1..(k - 1) :
        relations(log, m, k) = (IF m = k - 1 THEN {"chain"} ELSE {})
                                 \cup (IF m \in srcs THEN {kind} ELSE {})
  BY SourcesRelated
<1>8. DOMAIN d = {p \in (1..k) \X (1..k) : p[1] < p[2] /\ relations(log, p[1], p[2]) # {}}
  <2>1. ASSUME NEW i \in 1..k, NEW j \in 1..k, i < j
        PROVE  <<i, j>> \in DOMAIN d <=> relations(log, i, j) # {}
    <3>1. CASE j = k
      <4>1. i \in 1..(k - 1)
        BY <2>1, <3>1
      <4>2. <<i, j>> \in DOMAIN d <=> i \in srcs \/ i = k - 1
        BY <1>4, <1>6, <3>1, <4>1
      <4> QED
        BY <1>7, <3>1, <4>1, <4>2
    <3>2. CASE j # k
      <4>1. i \in 1..(k - 1) /\ j \in 1..(k - 1)
        BY <2>1, <3>2
      <4>2. <<i, j>> \in DOMAIN d <=> <<i, j>> \in DOMAIN dag.edges
        BY <1>6, <3>2
      <4> QED
        BY <2>1, <4>1, <4>2 DEF Matches
    <3> QED
      BY <3>1, <3>2
  <2>2. ASSUME NEW p \in DOMAIN d PROVE p \in (1..k) \X (1..k) /\ p[1] < p[2]
    <3>1. CASE p \in DOMAIN dag.edges
      BY <3>1 DEF Matches
    <3>2. CASE p \notin DOMAIN dag.edges
      <4>1. PICK i \in 1..(k - 1) : p = <<i, k>>
        BY <1>3, <1>6, <3>2
      <4> QED
        BY <4>1
    <3> QED
      BY <3>1, <3>2
  <2> QED
    BY <2>1, <2>2
<1>9. ASSUME NEW p \in DOMAIN d
      PROVE  /\ d[p] \in relations(log, p[1], p[2])
             /\ \A x \in relations(log, p[1], p[2]) : Priority[x] <= Priority[d[p]]
  <2>1. CASE p \in DOMAIN dag.edges
    BY <1>6, <2>1 DEF Matches
  <2>2. CASE p \notin DOMAIN dag.edges
    <3>1. PICK i \in 1..(k - 1) : p = <<i, k>>
      BY <1>3, <1>6, <2>2
    <3>2. CASE i \in srcs
      <4>1. d[p] = kind /\ relations(log, i, k) \subseteq {"chain", kind}
            /\ kind \in relations(log, i, k)
        BY <1>6, <1>7, <3>1, <3>2
      <4> QED
        BY <1>2, <3>1, <4>1, Priorities
    <3>3. CASE i \notin srcs
      <4>1. i = k - 1 /\ k # 1
        BY <1>6, <2>2, <3>1, <3>3
      <4>2. d[p] = "chain" /\ relations(log, i, k) = {"chain"}
        BY <1>6, <1>7, <3>1, <3>3, <4>1
      <4> QED
        BY <3>1, <4>2, Priorities
    <3> QED
      BY <3>2, <3>3
  <2> QED
    BY <2>1, <2>2
<1> QED
  BY <1>8, <1>9 DEF Matches

NoDag == [edges |-> <<>>, call_by_run |-> <<>>, call_by_label |-> <<>>,
          snapshot_by_cp |-> <<>>, last_snapshot_seq |-> {}]

\* The DAG has the edges its definition names, for every log in which no run has
\* two calls on record.
LEMMA DagMatchesOn ==
  ASSUME NEW E, NEW log \in Seq(E), OneCall(log)
  PROVE  dag_as_related(log)
<1> DEFINE n == Len(log)
<1>1. NoDag \in Dags(log)
  <2>1. ASSUME NEW K, NEW V PROVE <<>> \in Dicts(K, V)
    <3>1. <<>> \in Seq(V) /\ Len(<<>>) = 0 /\ 1..0 = {}
      OBVIOUS
    <3>2. <<>> \in [1..0 -> V]
      BY <3>1, LenProperties
    <3>3. 1..0 \in SUBSET K
      BY <3>1
    <3> QED
      BY <3>2, <3>3 DEF Dicts
  <2> QED
    BY <2>1 DEF NoDag, Dags, Edges, AtMostOne
<1>2. PICK a \in [0..n -> Dags(log)] :
        /\ a[0] = NoDag
        /\ \A k \in 1..n : a[k] = visit(log, a[k - 1], k)
        /\ FoldLeftDomain(LAMBDA r, i : visit(log, r, i), NoDag, log) = a[n]
  BY <1>1, VisitFolds
<1>3. build_dag(log) = a[n]
  BY <1>2 DEF build_dag, NoDag
<1> DEFINE S == {k \in 0..n : Indices(log, a[k], k) /\ Matches(log, a[k].edges, k)}
<1>4. 0 \in S
  <2>1. 1..0 = {} /\ 0 \in 0..n
    OBVIOUS
  <2>2. Indices(log, NoDag, 0)
    BY <2>1 DEF Indices, NoDag, calls, snapshots, last
  <2>3. Matches(log, NoDag.edges, 0)
    BY <2>1 DEF Matches, NoDag
  <2> QED
    BY <1>2, <2>1, <2>2, <2>3
<1>5. ASSUME NEW k \in 1..n, k - 1 \in S PROVE k \in S
  <2>1. a[k - 1] \in Dags(log) /\ Indices(log, a[k - 1], k - 1) /\ Matches(log, a[k - 1].edges, k - 1)
    BY <1>5
  <2>2. a[k] = visit(log, a[k - 1], k)
    BY <1>2
  <2>3. Indices(log, a[k], k)
    BY <2>1, <2>2, IndicesStep
  <2>4. Matches(log, a[k].edges, k)
    BY <2>1, <2>2, MatchesStep
  <2> QED
    BY <2>3, <2>4
<1>6. S = 0..n
  <2>1. n \in Nat /\ S \in SUBSET (0..n)
    OBVIOUS
  <2> HIDE DEF S, n
  <2> QED
    BY <1>4, <1>5, <2>1, UpTo
<1>7. Matches(log, build_dag(log).edges, n)
  <2>1. n \in 0..n
    OBVIOUS
  <2> QED
    BY <1>3, <1>6, <2>1
<1>8. DOMAIN log = 1..n
  OBVIOUS
<1> QED
  BY <1>7, <1>8 DEF dag_as_related, Matches

-----------------------------------------------------------------------------
(***************************************************************************)
(* The replay.                                                             *)
(***************************************************************************)
\* SetToSeq lists the members of a finite set.
LEMMA ListOfSet ==
  ASSUME NEW S, IsFiniteSet(S)
  PROVE  /\ SetToSeq(S) \in Seq(S)
         /\ \A x \in S : \E i \in 1..Len(SetToSeq(S)) : SetToSeq(S)[i] = x
<1> DEFINE n == Cardinality(S)
           q == SetToSeq(S)
<1>1. n \in Nat /\ ExistsBijection(1..n, S)
  BY FS_CardinalityType
<1>2. PICK f : f \in Bijection(1..n, S)
  BY <1>1 DEF ExistsBijection
<1>3. f \in [1..n -> S] /\ IsInjective(f)
  <2>1. f \in Injection(1..n, S)
    BY <1>2 DEF Bijection
  <2> QED
    BY <2>1 DEF Injection
<1>4. q \in [1..n -> S] /\ IsInjective(q)
  BY <1>3 DEF SetToSeq
<1>5. q \in Seq(S) /\ Len(q) = n
  <2> HIDE DEF q
  <2> QED
    BY <1>1, <1>4
<1>6. q \in Surjection(1..n, S)
  <2>1. q \in Injection(1..n, S)
    BY <1>4 DEF Injection
  <2>2. Cardinality(1..n) = n
    BY <1>1, FS_Interval
  <2> HIDE DEF q
  <2> QED
    BY <2>1, <2>2, FS_Injection
<1>7. \A x \in S : \E i \in 1..n : q[i] = x
  BY <1>6 DEF Surjection
<1> QED
  BY <1>5, <1>7

Labels(log) == {log[i].label : i \in DOMAIN log}

\* The messages that the loop appends.
Messages(log) ==
  {[role |-> "assistant"]} \cup {[role |-> "tool_call", label |-> l] : l \in Labels(log)}
    \cup {[role |-> "tool", label |-> l, outcome |-> o] : l \in Labels(log), o \in {"ok", "failed"}}

Replays(log) == [messages : Seq(Messages(log)), pending_calls : SUBSET Labels(log)]

\* The event settles or opens calls by their label.
Replayed(log, i, r, s) ==
  LET e == log[i] IN
  /\ s \in Replays(log)
  /\ s.pending_calls = CASE e.kind = "tool/call" -> r.pending_calls \cup {e.label}
                         [] e.kind = "tool/result" -> r.pending_calls \ {e.label}
                         [] OTHER -> r.pending_calls

LEMMA ReplayEffect ==
  ASSUME NEW E, NEW log \in Seq(E), NEW r \in Replays(log), NEW i \in 1..Len(log)
  PROVE  Replayed(log, i, r, replay_step(log[i], r))
<1> SUFFICES ASSUME NEW e, e = log[i], NEW s, s = replay_step(e, r)
             PROVE  Replayed(log, i, r, s)
  OBVIOUS
<1> DEFINE ms == r.messages
<1>1. ms \in Seq(Messages(log)) /\ r.pending_calls \in SUBSET Labels(log)
  BY DEF Replays
<1>2. i \in DOMAIN log /\ e.label \in Labels(log)
  BY DEF Labels
<1>3. \A m \in Messages(log) : Append(ms, m) \in Seq(Messages(log))
  BY <1>1
<1>4. /\ [role |-> "assistant"] \in Messages(log)
      /\ [role |-> "tool_call", label |-> e.label] \in Messages(log)
      /\ [role |-> "tool", label |-> e.label, outcome |-> IF e.ok THEN "ok" ELSE "failed"]
           \in Messages(log)
  BY <1>2 DEF Messages
<1>5. CASE e.kind = "llm/call"
  <2>1. s = [r EXCEPT !.messages = Append(@, [role |-> "assistant"])]
    BY <1>5 DEF replay_step
  <2> QED
    BY <1>1, <1>3, <1>4, <1>5, <2>1 DEF Replayed, Replays
<1>6. CASE e.kind = "tool/call"
  <2>1. s = [messages |-> Append(ms, [role |-> "tool_call", label |-> e.label]),
             pending_calls |-> r.pending_calls \cup {e.label}]
    BY <1>6 DEF replay_step
  <2> QED
    BY <1>1, <1>2, <1>3, <1>4, <1>6, <2>1 DEF Replayed, Replays
<1>7. CASE e.kind = "tool/result"
  <2> DEFINE m == [role |-> "tool", label |-> e.label,
                   outcome |-> IF e.ok THEN "ok" ELSE "failed"]
  <2>1. s = [messages |-> Append(ms, m), pending_calls |-> r.pending_calls \ {e.label}]
    BY <1>7 DEF replay_step
  <2>2. Append(ms, m) \in Seq(Messages(log))
    BY <1>3, <1>4
  <2> HIDE DEF m
  <2> QED
    BY <1>1, <1>7, <2>1, <2>2 DEF Replayed, Replays
<1>8. CASE e.kind \notin {"llm/call", "tool/call", "tool/result"}
  BY <1>8 DEF replay_step, Replayed
<1> QED
  BY <1>5, <1>6, <1>7, <1>8

\* replay_messages takes one step per event.
LEMMA ReplayFolds ==
  ASSUME NEW E, NEW log \in Seq(E), NEW base \in Replays(log)
  PROVE  \E a \in [0..Len(log) -> Replays(log)] :
           /\ a[0] = base
           /\ \A k \in 1..Len(log) : a[k] = replay_step(log[k], a[k - 1])
           /\ FoldLeftDomain(LAMBDA r, i : replay_step(log[i], r), base, log) = a[Len(log)]
<1> DEFINE n == Len(log)
           D == Replays(log)
           F == [p \in D \X (1..n) |-> replay_step(log[p[2]], p[1])]
           Next(f) == [s \in SUBSET (1..n) |->
                         IF s = {} THEN base
                         ELSE LET x == Max(s)
                              IN replay_step(log[[i \in 1..n |-> i][x]], f[s \ {x}])]
           iter == CHOOSE f : f = Next(f)
<1>1. n \in Nat /\ DOMAIN log = 1..n
  OBVIOUS
<1>2. F \in [D \X (1..n) -> D]
  <2>1. \A d \in D, i \in 1..n : replay_step(log[i], d) \in D
    BY ReplayEffect DEF Replayed
  <2> HIDE DEF D, n
  <2> QED
    BY <2>1
<1>3. \A s \in SUBSET (1..n) : s # {} => Max(s) \in 1..n
  BY <1>1, MaxIn
<1>4. \E f : f = Next(f)
  <2>1. PICK f \in [SUBSET (1..n) -> D] : Folds(f, n, base, F)
    <3> HIDE DEF F, n
    <3> QED
      BY <1>1, <1>2, FoldExists
  <2> HIDE DEF D, n
  <2> QED
    BY <1>3, <2>1 DEF Folds
<1>5. iter = Next(iter)
  <2> HIDE DEF Next
  <2> QED
    BY <1>4
<1>6. FoldLeftDomain(LAMBDA r, i : replay_step(log[i], r), base, log) = iter[1..n]
  BY <1>1 DEF FoldLeftDomain, FoldLeft, MapThenFoldSet
<1>7. \E a : Passes(a, n, D, base, F, iter[1..n])
  <2> HIDE DEF iter, D, n
  <2>1. Iterates(iter, n, D, base, F)
    BY <1>3, <1>5 DEF Iterates
  <2>2. base \in D
    BY DEF D
  <2> HIDE DEF F
  <2> QED
    BY <1>1, <1>2, <2>1, <2>2, FoldSteps
<1> HIDE DEF iter, D, n
<1>8. \A k \in 1..n : k - 1 \in 0..n
  BY <1>1
<1> QED
  BY <1>6, <1>7, <1>8 DEF D, n, Passes

\* The calls among the first k events that no result of their label follows.
pending(log, k) ==
  {n \in 1..k : /\ log[n].kind = "tool/call"
                /\ \A j \in 1..k : log[j].kind = "tool/result" /\ log[j].label = log[n].label => j < n}

\* The replay reports the labels of the calls that no result of their label follows.
LEMMA InterruptedOn ==
  ASSUME NEW E, NEW log \in Seq(E)
  PROVE  interrupted_labels(log) = {log[i].label : i \in pending(log, Len(log))}
<1> DEFINE n == Len(log)
           base == [messages |-> <<>>, pending_calls |-> {}]
<1>1. n \in Nat /\ base \in Replays(log)
  BY DEF Replays
<1>2. PICK a \in [0..n -> Replays(log)] :
        /\ a[0] = base
        /\ \A k \in 1..n : a[k] = replay_step(log[k], a[k - 1])
        /\ FoldLeftDomain(LAMBDA r, i : replay_step(log[i], r), base, log) = a[n]
  BY <1>1, ReplayFolds
<1> DEFINE labels(k) == {log[i].label : i \in pending(log, k)}
           S == {k \in 0..n : a[k].pending_calls = labels(k)}
<1>3. 0 \in S
  <2>1. labels(0) = {}
    BY DEF pending
  <2>2. base.pending_calls = {}
    OBVIOUS
  <2>3. a[0] = base
    BY <1>2
  <2>4. a[0].pending_calls = {} /\ 0 \in 0..n
    <3> HIDE DEF base
    <3> QED
      BY <1>1, <2>2, <2>3
  <2> HIDE DEF labels, n
  <2> QED
    BY <2>1, <2>4
<1>4. ASSUME NEW k \in 1..n, k - 1 \in S PROVE k \in S
  <2>1. /\ a[k - 1] \in Replays(log) /\ a[k - 1].pending_calls = labels(k - 1)
        /\ a[k] = replay_step(log[k], a[k - 1])
    BY <1>2, <1>4
  <2>2. Replayed(log, k, a[k - 1], a[k])
    BY <2>1, ReplayEffect
  <2>3. CASE log[k].kind = "tool/call"
    <3>1. pending(log, k) = pending(log, k - 1) \cup {k}
      BY <2>3 DEF pending
    <3>2. a[k].pending_calls = labels(k - 1) \cup {log[k].label}
      BY <2>1, <2>2, <2>3 DEF Replayed
    <3> QED
      BY <3>1, <3>2
  <2>4. CASE log[k].kind = "tool/result"
    <3>1. pending(log, k) = {i \in pending(log, k - 1) : log[i].label # log[k].label}
      BY <2>4 DEF pending
    <3>2. a[k].pending_calls = labels(k - 1) \ {log[k].label}
      BY <2>1, <2>2, <2>4 DEF Replayed
    <3> QED
      BY <3>1, <3>2
  <2>5. CASE log[k].kind \notin {"tool/call", "tool/result"}
    <3>1. pending(log, k) = pending(log, k - 1)
      BY <2>5 DEF pending
    <3>2. a[k].pending_calls = labels(k - 1)
      BY <2>1, <2>2, <2>5 DEF Replayed
    <3> QED
      BY <3>1, <3>2
  <2> QED
    BY <2>3, <2>4, <2>5
<1>5. S = 0..n
  <2>1. S \in SUBSET (0..n)
    OBVIOUS
  <2> HIDE DEF S, n
  <2> QED
    BY <1>1, <1>3, <1>4, <2>1, UpTo
<1> DEFINE end == a[n]
           surfaced == {[role |-> "tool", label |-> l, outcome |-> "interrupted"] :
                          l \in end.pending_calls}
           more == SetToSeq(surfaced)
           messages == end.messages \o more
<1>6. end.pending_calls = labels(n) /\ end \in Replays(log)
  <2>1. n \in 0..n
    BY <1>1
  <2> QED
    BY <1>5, <2>1
<1>7. replay_messages(log) = messages
  BY <1>2 DEF replay_messages
<1>8. IsFiniteSet(surfaced)
  <2> DEFINE P == pending(log, n)
             f == [i \in P |-> [role |-> "tool", label |-> log[i].label, outcome |-> "interrupted"]]
  <2>1. IsFiniteSet(P)
    <3>1. P \subseteq 1..n
      BY DEF pending
    <3> QED
      <4>1. IsFiniteSet(1..n)
        BY <1>1, FS_Interval
      <4> QED
        BY <3>1, <4>1, FS_Subset
  <2>2. f \in [P -> surfaced] /\ \A t \in surfaced : \E i \in P : f[i] = t
    <3> HIDE DEF P, end
    <3> QED
      BY <1>6 DEF P
  <2>3. f \in Surjection(P, surfaced)
    <3> HIDE DEF P, surfaced, f
    <3> QED
      BY <2>2, Fun_IsSurj
  <2> HIDE DEF f, P, surfaced
  <2> QED
    BY <2>1, <2>3, FS_Surjection
<1>9. /\ more \in Seq(surfaced)
      /\ \A x \in surfaced : \E i \in 1..Len(more) : more[i] = x
  <2> HIDE DEF surfaced
  <2> QED
    BY <1>8, ListOfSet
<1>10. end.messages \in Seq(Messages(log))
  BY <1>6 DEF Replays
<1>11. \A m \in Messages(log) : ~(m.role = "tool" /\ m.outcome = "interrupted")
  BY DEF Messages
<1>12. \A m \in surfaced : m.role = "tool" /\ m.outcome = "interrupted" /\ m.label \in end.pending_calls
  OBVIOUS
<1>13. /\ DOMAIN messages = 1..(Len(end.messages) + Len(more))
       /\ \A j \in 1..Len(end.messages) : messages[j] \in Messages(log)
       /\ \A j \in DOMAIN messages : j > Len(end.messages) => messages[j] \in surfaced
       /\ \A i \in 1..Len(more) : /\ Len(end.messages) + i \in DOMAIN messages
                                  /\ messages[Len(end.messages) + i] = more[i]
  <2> HIDE DEF end, surfaced, more
  <2>1. /\ Len(end.messages) \in Nat /\ Len(more) \in Nat
        /\ \A j \in 1..Len(end.messages) : end.messages[j] \in Messages(log)
        /\ \A i \in 1..Len(more) : more[i] \in surfaced
    BY <1>9, <1>10
  <2>2. /\ DOMAIN messages = 1..(Len(end.messages) + Len(more))
        /\ \A j \in 1..Len(end.messages) : messages[j] = end.messages[j]
        /\ \A j \in 1..(Len(end.messages) + Len(more)) : j > Len(end.messages) =>
             messages[j] = more[j - Len(end.messages)]
    <3>1. end.messages \in Seq(Messages(log) \cup surfaced) /\ more \in Seq(Messages(log) \cup surfaced)
      BY <1>9, <1>10
    <3> QED
      BY <2>1, <3>1, ConcatProperties
  <2>3. \A i \in 1..Len(more) : /\ Len(end.messages) + i \in 1..(Len(end.messages) + Len(more))
                                /\ Len(end.messages) + i > Len(end.messages)
                                /\ (Len(end.messages) + i) - Len(end.messages) = i
    BY <2>1
  <2>4. \A j \in 1..(Len(end.messages) + Len(more)) : j > Len(end.messages) =>
          j - Len(end.messages) \in 1..Len(more)
    BY <2>1
  <2> HIDE DEF messages
  <2> QED
    BY <2>1, <2>2, <2>3, <2>4
<1>14. interrupted_labels(log) = end.pending_calls
  <2> DEFINE J == {j \in DOMAIN messages : messages[j].role = "tool" /\ messages[j].outcome = "interrupted"}
  <2>1. interrupted_labels(log) = {messages[j].label : j \in J}
    BY <1>7 DEF interrupted_labels
  <2>2. ASSUME NEW j \in J PROVE messages[j].label \in end.pending_calls
    <3>1. messages[j] \in surfaced
      <4> HIDE DEF surfaced, messages, end
      <4>1. j \in DOMAIN messages /\ j \notin 1..Len(end.messages)
        BY <1>11, <1>13
      <4> QED
        BY <1>10, <1>13, <4>1
    <3> HIDE DEF surfaced, messages
    <3> QED
      BY <1>12, <3>1
  <2>3. ASSUME NEW l \in end.pending_calls PROVE \E j \in J : messages[j].label = l
    <3>1. PICK x \in surfaced : x.label = l
      OBVIOUS
    <3> HIDE DEF surfaced
    <3>2. PICK i \in 1..Len(more) : more[i] = x
      BY <1>9
    <3> HIDE DEF messages, more
    <3> QED
      BY <1>12, <1>13, <3>1, <3>2
  <2> HIDE DEF J, messages
  <2> QED
    BY <2>1, <2>2, <2>3
<1> QED
  BY <1>6, <1>14

-----------------------------------------------------------------------------
(***************************************************************************)
(* The streaks of the failure report.                                      *)
(***************************************************************************)
\* A set of positions has a first and a last one.
LEMMA FirstIn ==
  ASSUME NEW n \in Nat
  PROVE  \A s \in SUBSET (1..n) : s # {} => \E m \in s : \A x \in s : m <= x
<1> DEFINE S == {k \in 0..n : \A s \in SUBSET (1..n) :
                   s \cap (1..k) # {} => \E m \in s : \A x \in s : m <= x}
<1>1. 0 \in S
  <2>1. 1..0 = {} /\ 0 \in 0..n
    OBVIOUS
  <2> QED
    BY <2>1
<1>2. ASSUME NEW k \in 1..n, k - 1 \in S PROVE k \in S
  <2> SUFFICES ASSUME NEW s \in SUBSET (1..n), s \cap (1..k) # {}
               PROVE  \E m \in s : \A x \in s : m <= x
    OBVIOUS
  <2>1. CASE s \cap (1..(k - 1)) # {}
    BY <1>2, <2>1
  <2>2. CASE s \cap (1..(k - 1)) = {}
    <3>1. k \in s
      BY <2>2
    <3>2. \A x \in s : k <= x
      BY <2>2
    <3> QED
      BY <3>1, <3>2
  <2> QED
    BY <2>1, <2>2
<1>3. S = 0..n
  <2>1. S \in SUBSET (0..n)
    OBVIOUS
  <2> HIDE DEF S
  <2> QED
    BY <1>1, <1>2, <2>1, UpTo
<1> QED
  <2>1. n \in S
    BY <1>3
  <2> QED
    BY <2>1

LEMMA LastIn ==
  ASSUME NEW n \in Nat
  PROVE  \A s \in SUBSET (1..n) : s # {} => \E m \in s : last(s) = {m}
<1> DEFINE S == {k \in 0..n : \A s \in SUBSET (1..k) : s # {} => \E m \in s : \A x \in s : x <= m}
<1>1. 0 \in S
  <2>1. 1..0 = {} /\ 0 \in 0..n
    OBVIOUS
  <2> QED
    BY <2>1
<1>2. ASSUME NEW k \in 1..n, k - 1 \in S PROVE k \in S
  <2> SUFFICES ASSUME NEW s \in SUBSET (1..k), s # {}
               PROVE  \E m \in s : \A x \in s : x <= m
    OBVIOUS
  <2>1. CASE k \in s
    BY <2>1
  <2>2. CASE k \notin s
    <3>1. s \in SUBSET (1..(k - 1))
      BY <2>2
    <3> QED
      BY <1>2, <3>1
  <2> QED
    BY <2>1, <2>2
<1>3. S = 0..n
  <2>1. S \in SUBSET (0..n)
    OBVIOUS
  <2> HIDE DEF S
  <2> QED
    BY <1>1, <1>2, <2>1, UpTo
<1>4. ASSUME NEW s \in SUBSET (1..n), s # {} PROVE \E m \in s : last(s) = {m}
  <2>1. n \in S
    BY <1>3
  <2>2. PICK m \in s : \A x \in s : x <= m
    BY <1>4, <2>1
  <2>3. \A x \in last(s) : x = m
    BY <2>2 DEF last
  <2> QED
    BY <2>2, <2>3 DEF last
<1> QED
  BY <1>4

\* From a to b the calls of the first k events repeat, and no longer block of
\* repeats among them has those.
block(log, k, a, b) ==
  /\ repeats(log, a, b)
  /\ \A c, d \in calls(log, k) : repeats(log, c, d) /\ c <= a /\ b <= d => c = a /\ d = b

\* The blocks that end with the last call, and those that do not.
Open(log, k) ==
  {p \in calls(log, k) \X calls(log, k) : block(log, k, p[1], p[2]) /\ p[2] \in last(calls(log, k))}

Shut(log, k) ==
  {p \in calls(log, k) \X calls(log, k) : block(log, k, p[1], p[2]) /\ p[2] \notin last(calls(log, k))}

\* The last call, unless a snapshot follows it.
Recent(log, k) == {i \in last(calls(log, k)) : snapshots(log, k) \cap (i..k) = {}}

\* A call after one of the same label makes the blocks that end there longer.
LEMMA RepeatsOn ==
  ASSUME NEW E, NEW log \in Seq(E), NEW k \in 1..Len(log), k \in at(log, "tool/call"),
         NEW i \in Recent(log, k - 1), log[i].label = log[k].label
  PROVE  /\ i \in calls(log, k - 1) /\ \A c \in calls(log, k - 1) : c <= i
         /\ \A a \in calls(log, k - 1) : repeats(log, a, k) <=> a = i \/ repeats(log, a, i)
<1>1. /\ i \in calls(log, k - 1) /\ \A c \in calls(log, k - 1) : c <= i
      /\ snapshots(log, k - 1) \cap (i..(k - 1)) = {}
  BY DEF Recent, last
<1>2. /\ calls(log, k - 1) = {n \in at(log, "tool/call") : n < k}
      /\ snapshots(log, k - 1) = {n \in at(log, "state/snapshot") : n < k}
      /\ at(log, "tool/call") \subseteq Nat /\ at(log, "state/snapshot") \subseteq Nat
      /\ k \notin at(log, "state/snapshot") /\ k \in Nat
  BY DEF calls, snapshots, at
<1>3. repeats(log, i, k)
  <2>1. \A n \in at(log, "tool/call") \cap (i..k) : n = i \/ n = k
    BY <1>1, <1>2
  <2>2. at(log, "state/snapshot") \cap (i..k) = {}
    BY <1>1, <1>2
  <2> QED
    BY <1>1, <1>2, <2>1, <2>2 DEF repeats
<1>4. ASSUME NEW a \in calls(log, k - 1), repeats(log, a, i) PROVE repeats(log, a, k)
  <2>1. \A n \in at(log, "tool/call") \cap (a..k) : n \in a..i \/ n = k
    BY <1>1, <1>2
  <2>2. at(log, "state/snapshot") \cap (a..k) = {}
    <3>1. \A n \in at(log, "state/snapshot") \cap (a..k) : n \in a..i \/ n \in i..(k - 1)
      BY <1>1, <1>2
    <3> QED
      BY <1>1, <1>2, <1>4, <3>1 DEF repeats
  <2>3. log[i].label = log[a].label
    BY <1>1, <1>2, <1>4 DEF repeats
  <2> QED
    BY <1>1, <1>2, <1>4, <2>1, <2>2, <2>3 DEF repeats
<1>5. ASSUME NEW a \in calls(log, k - 1), repeats(log, a, k), a # i PROVE repeats(log, a, i)
  <2>1. a < i /\ a..i \subseteq a..k
    BY <1>1, <1>2, <1>5
  <2> QED
    BY <1>1, <1>2, <1>5, <2>1 DEF repeats
<1> QED
  BY <1>1, <1>3, <1>4, <1>5

\* A call of another label, or after a snapshot, ends no block.
LEMMA RepeatsEnd ==
  ASSUME NEW E, NEW log \in Seq(E), NEW k \in 1..Len(log), k \in at(log, "tool/call"),
         \A i \in Recent(log, k - 1) : log[i].label # log[k].label
  PROVE  \A a \in calls(log, k - 1) : ~repeats(log, a, k)
<1> SUFFICES ASSUME NEW a \in calls(log, k - 1), repeats(log, a, k) PROVE FALSE
  OBVIOUS
<1>1. /\ calls(log, k - 1) = {n \in at(log, "tool/call") : n < k}
      /\ snapshots(log, k - 1) = {n \in at(log, "state/snapshot") : n < k}
      /\ at(log, "tool/call") \subseteq Nat /\ k \in Nat /\ k - 1 \in Nat
      /\ calls(log, k - 1) \in SUBSET (1..(k - 1))
  BY DEF calls, snapshots, at
<1>2. PICK i \in calls(log, k - 1) : last(calls(log, k - 1)) = {i}
  BY <1>1, LastIn
<1>3. i \in last(calls(log, k - 1)) /\ a <= i
  BY <1>2 DEF last
<1>4. i..(k - 1) \subseteq a..k /\ i \in a..k /\ k \in a..k
  BY <1>1, <1>3
<1>5. log[i].label = log[k].label
  BY <1>1, <1>4 DEF repeats
<1>6. snapshots(log, k - 1) \cap (i..(k - 1)) = {}
  BY <1>1, <1>4 DEF repeats
<1> QED
  BY <1>3, <1>5, <1>6 DEF Recent

\* The first calls from which the calls up to e repeat.
firsts(log, k, e) ==
  {a \in calls(log, k) : repeats(log, a, e) /\ \A c \in calls(log, k) : repeats(log, c, e) => a <= c}

LEMMA CallsOf ==
  ASSUME NEW E, NEW log \in Seq(E), NEW k \in 0..Len(log)
  PROVE  /\ calls(log, k) = {n \in at(log, "tool/call") : n <= k}
         /\ snapshots(log, k) = {n \in at(log, "state/snapshot") : n <= k}
         /\ at(log, "tool/call") \subseteq Nat /\ at(log, "state/snapshot") \subseteq Nat
         /\ calls(log, k) \in SUBSET (1..k) /\ k \in Nat
BY DEF calls, snapshots, at

\* The block that ends with the last call begins at the first call that can.
LEMMA OpenFrom ==
  ASSUME NEW E, NEW log \in Seq(E), NEW k \in 0..Len(log), NEW e \in last(calls(log, k))
  PROVE  Open(log, k) = {<<a, e>> : a \in firsts(log, k, e)}
<1>1. /\ e \in calls(log, k) /\ \A c \in calls(log, k) : c <= e
      /\ \A c \in last(calls(log, k)) : c = e
      /\ calls(log, k) \subseteq Nat
  <2>1. calls(log, k) \subseteq Nat
    BY CallsOf
  <2> QED
    BY <2>1 DEF last
<1>2. ASSUME NEW a \in firsts(log, k, e) PROVE <<a, e>> \in Open(log, k)
  <2>1. a \in calls(log, k) /\ repeats(log, a, e)
        /\ \A c \in calls(log, k) : repeats(log, c, e) => a <= c
    BY <1>2 DEF firsts
  <2>2. ASSUME NEW c \in calls(log, k), NEW d \in calls(log, k), repeats(log, c, d), c <= a, e <= d
        PROVE  c = a /\ d = e
    <3>1. d = e
      BY <1>1, <2>2
    <3>2. a <= c
      BY <2>1, <2>2, <3>1
    <3> QED
      BY <1>1, <2>1, <2>2, <3>1, <3>2
  <2>3. block(log, k, a, e)
    BY <2>1, <2>2 DEF block
  <2> QED
    BY <1>1, <2>1, <2>3 DEF Open
<1>3. ASSUME NEW p \in Open(log, k) PROVE p \in {<<a, e>> : a \in firsts(log, k, e)}
  <2>1. /\ p = <<p[1], p[2]>> /\ p[1] \in calls(log, k) /\ p[2] = e
        /\ block(log, k, p[1], e)
    BY <1>1, <1>3 DEF Open
  <2>2. ASSUME NEW c \in calls(log, k), repeats(log, c, e) PROVE p[1] <= c
    <3>1. c <= p[1] => c = p[1]
      BY <1>1, <2>1, <2>2 DEF block
    <3> QED
      BY <1>1, <2>1, <3>1
  <2>3. p[1] \in firsts(log, k, e)
    BY <2>1, <2>2 DEF block, firsts
  <2> QED
    BY <2>1, <2>3
<1> QED
  BY <1>2, <1>3

\* A call that repeats the last one makes its block longer, or begins one.
LEMMA FirstsOn ==
  ASSUME NEW E, NEW log \in Seq(E), NEW k \in 1..Len(log), k \in at(log, "tool/call"),
         NEW i \in Recent(log, k - 1), log[i].label = log[k].label
  PROVE  /\ firsts(log, k - 1, i) = {} => firsts(log, k, k) = {i}
         /\ \A a \in firsts(log, k - 1, i) : firsts(log, k, k) = {a}
<1> DEFINE C == calls(log, k - 1)
<1>1. /\ i \in C /\ \A c \in C : c <= i
      /\ \A a \in C : repeats(log, a, k) <=> a = i \/ repeats(log, a, i)
  BY RepeatsOn
<1>2. C \in SUBSET (1..(k - 1)) /\ C \subseteq Nat /\ k - 1 \in Nat /\ k \in Nat
  BY CallsOf
<1>3. calls(log, k) = C \cup {k}
  BY DEF calls, at
<1>4. ~repeats(log, k, k)
  BY <1>2 DEF repeats
<1>5. firsts(log, k, k) = {a \in C : /\ a = i \/ repeats(log, a, i)
                                     /\ \A c \in C : c = i \/ repeats(log, c, i) => a <= c}
  BY <1>1, <1>3, <1>4 DEF firsts
<1>6. firsts(log, k - 1, i) = {a \in C : /\ repeats(log, a, i)
                                         /\ \A c \in C : repeats(log, c, i) => a <= c}
  BY DEF firsts
<1> HIDE DEF C
<1>7. ASSUME firsts(log, k - 1, i) = {} PROVE firsts(log, k, k) = {i}
  <2>1. \A a \in C : ~repeats(log, a, i)
    <3> DEFINE R == {a \in C : repeats(log, a, i)}
    <3>1. R \in SUBSET (1..(k - 1))
      BY <1>2
    <3>2. R # {} => \E m \in R : \A x \in R : m <= x
      <4> HIDE DEF R
      <4> QED
        BY <1>2, <3>1, FirstIn
    <3> QED
      BY <1>6, <1>7, <3>2
  <2> QED
    BY <1>1, <1>2, <1>5, <2>1
<1>8. ASSUME NEW a \in firsts(log, k - 1, i) PROVE firsts(log, k, k) = {a}
  <2>1. a \in C /\ repeats(log, a, i) /\ \A c \in C : repeats(log, c, i) => a <= c
    BY <1>6, <1>8
  <2>2. a <= i
    BY <1>1, <2>1
  <2>3. a \in firsts(log, k, k)
    BY <1>5, <2>1, <2>2
  <2>4. \A b \in firsts(log, k, k) : b <= a /\ a <= b /\ b \in Nat /\ a \in Nat
    BY <1>2, <1>5, <2>1, <2>2
  <2> QED
    BY <2>3, <2>4
<1> QED
  BY <1>7, <1>8

\* The blocks that ended before stay what they were.
LEMMA ShutOn ==
  ASSUME NEW E, NEW log \in Seq(E), NEW k \in 1..Len(log), k \in at(log, "tool/call"),
         NEW i \in Recent(log, k - 1), log[i].label = log[k].label
  PROVE  Shut(log, k) = Shut(log, k - 1)
<1> DEFINE C == calls(log, k - 1)
<1>1. /\ i \in C /\ \A c \in C : c <= i
      /\ \A a \in C : repeats(log, a, k) <=> a = i \/ repeats(log, a, i)
  BY RepeatsOn
<1>2. C \subseteq Nat /\ k \in Nat /\ \A c \in C : c < k
  BY CallsOf
<1>3. calls(log, k) = C \cup {k}
  BY DEF calls, at
<1>4. last(C) = {i} /\ last(calls(log, k)) = {k}
  <2>1. last(C) = {i}
    BY <1>1, <1>2 DEF last
  <2>2. last(C \cup {k}) = {k}
    <3> HIDE DEF C
    <3> QED
      BY <1>2, LastOfMore
  <2> QED
    BY <1>3, <2>1, <2>2
<1>5. \A c, d \in C \cup {k} : repeats(log, c, d) => c < d /\ c \in C
  BY <1>2 DEF repeats
<1>6. ASSUME NEW a \in C, NEW b \in C, b # i
      PROVE  block(log, k, a, b) <=> block(log, k - 1, a, b)
  <2>1. ASSUME block(log, k - 1, a, b), NEW c \in C, repeats(log, c, k), c <= a PROVE FALSE
    <3>1. repeats(log, a, b) /\ a < b /\ b < i
      BY <1>1, <1>2, <1>5, <1>6, <2>1 DEF block
    <3>2. repeats(log, c, i)
      BY <1>1, <1>2, <2>1, <3>1
    <3> QED
      BY <1>1, <1>2, <1>6, <2>1, <3>1, <3>2 DEF block
  <2>2. b < k /\ ~(k <= b)
    BY <1>2
  <2>3. block(log, k, a, b) <=>
          /\ block(log, k - 1, a, b)
          /\ \A c \in C \cup {k} : repeats(log, c, k) /\ c <= a /\ b <= k => c = a /\ k = b
          /\ \A d \in C \cup {k} : repeats(log, k, d) /\ k <= a /\ b <= d => k = a /\ d = b
    BY <1>3 DEF block
  <2>4. \A d \in C \cup {k} : ~repeats(log, k, d)
    <3>1. k \notin C /\ k \in C \cup {k}
      BY <1>2
    <3> HIDE DEF C
    <3> QED
      BY <1>5, <3>1
  <2> QED
    BY <1>5, <2>1, <2>3, <2>4
<1>7. \A a \in C : ~block(log, k, a, i)
  <2> SUFFICES ASSUME NEW a \in C, block(log, k, a, i) PROVE FALSE
    OBVIOUS
  <2>1. repeats(log, a, k) /\ a \in calls(log, k) /\ k \in calls(log, k)
    BY <1>1, <1>3 DEF block
  <2>2. a <= a /\ i <= k /\ k # i
    BY <1>1, <1>2
  <2> QED
    BY <2>1, <2>2 DEF block
<1>8. Shut(log, k) = {p \in C \X C : block(log, k, p[1], p[2])}
  <2>1. \A p \in (C \cup {k}) \X (C \cup {k}) : block(log, k, p[1], p[2]) => p[1] \in C
    BY <1>5 DEF block
  <2>2. \A p \in C \X C : p[2] # k
    BY <1>2
  <2> QED
    BY <1>3, <1>4, <2>1, <2>2 DEF Shut
<1>9. Shut(log, k - 1) = {p \in C \X C : block(log, k - 1, p[1], p[2]) /\ p[2] # i}
  BY <1>4 DEF Shut
<1> HIDE DEF C
<1> QED
  BY <1>6, <1>7, <1>8, <1>9

\* The last call of the first k events, if the k-th is a call.
LEMMA LastCall ==
  ASSUME NEW E, NEW log \in Seq(E), NEW k \in 1..Len(log), k \in at(log, "tool/call")
  PROVE  /\ calls(log, k) = calls(log, k - 1) \cup {k} /\ \A c \in calls(log, k - 1) : c < k
         /\ last(calls(log, k)) = {k} /\ Recent(log, k) = {k}
<1>1. k - 1 \in 0..Len(log) /\ k \in Nat
  OBVIOUS
<1>2. calls(log, k) = calls(log, k - 1) \cup {k}
  BY DEF calls, at
<1>3. \A c \in calls(log, k - 1) : c < k /\ c \in Nat
  BY <1>1, CallsOf
<1>4. last(calls(log, k)) = {k}
  BY <1>1, <1>2, <1>3, LastOfMore
<1>5. k \notin snapshots(log, k) /\ k..k = {k}
  BY <1>1 DEF snapshots, at
<1> QED
  BY <1>2, <1>3, <1>4, <1>5 DEF Recent

\* A call that repeats none ends the block before it, if there is one.
LEMMA ShutEnd ==
  ASSUME NEW E, NEW log \in Seq(E), NEW k \in 1..Len(log), k \in at(log, "tool/call"),
         \A i \in Recent(log, k - 1) : log[i].label # log[k].label
  PROVE  Open(log, k) = {} /\ Shut(log, k) = Shut(log, k - 1) \cup Open(log, k - 1)
<1> DEFINE C == calls(log, k - 1)
<1>1. /\ calls(log, k) = C \cup {k} /\ last(calls(log, k)) = {k} /\ \A c \in C : c < k
      /\ C \subseteq Nat /\ k \in Nat
  BY LastCall, CallsOf
<1>2. \A a \in C : ~repeats(log, a, k)
  BY RepeatsEnd
<1>3. \A d \in C \cup {k} : ~repeats(log, k, d)
  <2>1. \A d \in C \cup {k} : ~(k < d)
    BY <1>1
  <2> QED
    BY <2>1 DEF repeats
<1>4. \A a, b \in C : block(log, k, a, b) <=> block(log, k - 1, a, b)
  BY <1>1, <1>2, <1>3 DEF block
<1>5. \A a, b \in C \cup {k} : block(log, k, a, b) => a \in C /\ b \in C
  BY <1>2, <1>3 DEF block
<1>6. k \notin C
  BY <1>1
<1>7. Open(log, k) = {}
  BY <1>1, <1>5, <1>6 DEF Open
<1>8. Shut(log, k) = {p \in C \X C : block(log, k - 1, p[1], p[2])}
  <2>1. Shut(log, k) = {p \in C \X C : block(log, k, p[1], p[2])}
    <3>1. Shut(log, k) \subseteq {p \in C \X C : block(log, k, p[1], p[2])}
      BY <1>1, <1>5 DEF Shut
    <3>2. {p \in C \X C : block(log, k, p[1], p[2])} \subseteq Shut(log, k)
      BY <1>1, <1>6 DEF Shut
    <3> QED
      BY <3>1, <3>2
  <2> QED
    BY <1>4, <2>1
<1> QED
  BY <1>7, <1>8 DEF Open, Shut

\* Other events end no block and begin none; a snapshot parts the calls.
LEMMA NoCall ==
  ASSUME NEW E, NEW log \in Seq(E), NEW k \in 1..Len(log), k \notin at(log, "tool/call")
  PROVE  /\ Open(log, k) = Open(log, k - 1) /\ Shut(log, k) = Shut(log, k - 1)
         /\ Recent(log, k) = IF k \in at(log, "state/snapshot") THEN {} ELSE Recent(log, k - 1)
<1>1. k \in Nat /\ k - 1 \in 0..Len(log) /\ k - 1 \in Nat
  OBVIOUS
<1>2. calls(log, k) = calls(log, k - 1)
  BY <1>1 DEF calls, at
<1>3. Open(log, k) = Open(log, k - 1) /\ Shut(log, k) = Shut(log, k - 1)
  BY <1>2 DEF Open, Shut, block
<1>4. \A i \in last(calls(log, k)) : i < k /\ i \in Nat
  BY <1>1, <1>2, CallsOf DEF last
<1>5. CASE k \in at(log, "state/snapshot")
  <2>1. k \in snapshots(log, k)
    BY <1>1, <1>5 DEF snapshots, at
  <2>2. \A i \in last(calls(log, k)) : k \in i..k
    BY <1>1, <1>4
  <2> QED
    BY <1>3, <1>5, <2>1, <2>2 DEF Recent
<1>6. CASE k \notin at(log, "state/snapshot")
  <2>1. snapshots(log, k) = snapshots(log, k - 1) /\ \A n \in snapshots(log, k) : n <= k - 1 /\ n \in Nat
    BY <1>1, <1>6 DEF snapshots, at
  <2>2. \A i \in last(calls(log, k)) :
          snapshots(log, k) \cap (i..k) = snapshots(log, k - 1) \cap (i..(k - 1))
    BY <1>1, <1>4, <2>1
  <2> QED
    BY <1>2, <1>3, <1>6, <2>2 DEF Recent
<1> QED
  BY <1>5, <1>6

\* What a report says of the calls from a to b.
Second(log, a) ==
  CHOOSE n \in at(log, "tool/call") : n > a /\ \A c \in at(log, "tool/call") : c > a => n <= c

Summary(log, a, b) ==
  [label |-> log[a].label, start_seq |-> Second(log, a),
   length |-> Cardinality(at(log, "tool/call") \cap (a..b))]

LEMMA SummaryNew ==
  ASSUME NEW E, NEW log \in Seq(E), NEW k \in 1..Len(log), k \in at(log, "tool/call"),
         NEW i \in last(calls(log, k - 1))
  PROVE  Summary(log, i, k) = [label |-> log[i].label, start_seq |-> k, length |-> 2]
<1>1. /\ i \in calls(log, k - 1) /\ \A c \in calls(log, k - 1) : c <= i
      /\ calls(log, k - 1) = {n \in at(log, "tool/call") : n <= k - 1}
      /\ at(log, "tool/call") \subseteq Nat /\ k \in Nat
  BY CallsOf DEF last
<1>2. Second(log, i) = k
  <2>1. k > i /\ \A c \in at(log, "tool/call") : c > i => k <= c
    BY <1>1
  <2>2. \A n \in at(log, "tool/call") :
          n > i /\ (\A c \in at(log, "tool/call") : c > i => n <= c) => n = k
    BY <1>1, <2>1
  <2> QED
    BY <2>1, <2>2 DEF Second
<1>3. at(log, "tool/call") \cap (i..k) = {i} \cup {k} /\ k \notin {i}
  BY <1>1
<1>4. Cardinality({i} \cup {k}) = 2
  <2>1. IsFiniteSet({i}) /\ Cardinality({i}) = 1
    BY FS_Singleton
  <2>2. Cardinality({i} \cup {k}) = Cardinality({i}) + 1
    BY <1>3, <2>1, FS_AddElement
  <2>3. 1 + 1 = 2
    OBVIOUS
  <2> QED
    BY <2>1, <2>2, <2>3, Zenon
<1> QED
  BY <1>2, <1>3, <1>4 DEF Summary

LEMMA SummaryOn ==
  ASSUME NEW E, NEW log \in Seq(E), NEW k \in 1..Len(log), k \in at(log, "tool/call"),
         NEW i \in last(calls(log, k - 1)), NEW a \in calls(log, k - 1)
  PROVE  Summary(log, a, k) = [Summary(log, a, i) EXCEPT !.length = @ + 1]
<1>1. /\ i \in calls(log, k - 1) /\ \A c \in calls(log, k - 1) : c <= i
      /\ calls(log, k - 1) = {n \in at(log, "tool/call") : n <= k - 1}
      /\ at(log, "tool/call") \subseteq Nat /\ k \in Nat
  BY CallsOf DEF last
<1> DEFINE S == at(log, "tool/call") \cap (a..i)
<1>2. at(log, "tool/call") \cap (a..k) = S \cup {k} /\ k \notin S
  BY <1>1
<1>3. IsFiniteSet(S)
  <2>1. IsFiniteSet(a..i)
    BY <1>1, FS_Interval
  <2>2. S \in SUBSET (a..i)
    OBVIOUS
  <2> QED
    BY <2>1, <2>2, FS_Subset
<1>4. Cardinality(S \cup {k}) = Cardinality(S) + 1
  <2> HIDE DEF S
  <2> QED
    BY <1>2, <1>3, FS_AddElement
<1>5. \A l, m, c : [label |-> l, start_seq |-> m, length |-> c + 1]
                  = [[label |-> l, start_seq |-> m, length |-> c] EXCEPT !.length = @ + 1]
  OBVIOUS
<1>6. Summary(log, a, k) = [label |-> log[a].label, start_seq |-> Second(log, a),
                            length |-> Cardinality(S) + 1]
  BY <1>2, <1>4 DEF Summary
<1>7. Summary(log, a, i) = [label |-> log[a].label, start_seq |-> Second(log, a),
                            length |-> Cardinality(S)]
  BY DEF Summary
<1> QED
  <2> HIDE DEF S
  <2> QED
    BY <1>5, <1>6, <1>7

Reported(log, P) == {Summary(log, p[1], p[2]) : p \in P}

\* The report after k events: the blocks among them, and the label to repeat.
Tallied(log, r, k) ==
  /\ r.prev_call_label = {log[i].label : i \in Recent(log, k)}
  /\ r.streak = Reported(log, Open(log, k))
  /\ r.streaks = Reported(log, Shut(log, k))

LEMMA TallyRepeats ==
  ASSUME NEW E, NEW log \in Seq(E), NEW k \in 1..Len(log), k \in at(log, "tool/call"),
         NEW r \in Reports(log), Tallied(log, r, k - 1),
         NEW i \in Recent(log, k - 1), log[i].label = log[k].label
  PROVE  Tallied(log, [r EXCEPT !.streak =
                         IF @ = {} THEN {[label |-> log[k].label, start_seq |-> k, length |-> 2]}
                         ELSE {[s EXCEPT !.length = @ + 1] : s \in @}], k)
<1> DEFINE new == IF r.streak = {}
                    THEN {[label |-> log[k].label, start_seq |-> k, length |-> 2]}
                    ELSE {[s EXCEPT !.length = @ + 1] : s \in r.streak}
<1>1. /\ i \in last(calls(log, k - 1)) /\ last(calls(log, k)) = {k} /\ Recent(log, k) = {k}
      /\ \A j \in Recent(log, k - 1) : j = i
  <2>1. calls(log, k - 1) \subseteq Nat
    BY CallsOf
  <2>2. last(calls(log, k)) = {k} /\ Recent(log, k) = {k}
    BY LastCall
  <2>3. i \in last(calls(log, k - 1)) /\ \A j \in Recent(log, k - 1) : j = i
    BY <2>1 DEF Recent, last
  <2> QED
    BY <2>2, <2>3
<1>2. /\ Open(log, k - 1) = {<<a, i>> : a \in firsts(log, k - 1, i)}
      /\ Open(log, k) = {<<a, k>> : a \in firsts(log, k, k)}
  BY <1>1, OpenFrom
<1>3. firsts(log, k - 1, i) = {} => firsts(log, k, k) = {i}
  BY FirstsOn
<1>4. \A a \in firsts(log, k - 1, i) : firsts(log, k, k) = {a}
  BY FirstsOn
<1>5. new = Reported(log, Open(log, k))
  <2>1. CASE firsts(log, k - 1, i) = {}
    <3>1. r.streak = {}
      BY <1>2, <2>1 DEF Tallied, Reported
    <3>2. Open(log, k) = {<<i, k>>}
      BY <1>2, <1>3, <2>1
    <3>3. Reported(log, Open(log, k)) = {Summary(log, i, k)}
      BY <3>2 DEF Reported
    <3>4. Summary(log, i, k) = [label |-> log[i].label, start_seq |-> k, length |-> 2]
      BY <1>1, SummaryNew
    <3> QED
      BY <3>1, <3>3, <3>4
  <2>2. CASE firsts(log, k - 1, i) # {}
    <3>1. PICK a \in firsts(log, k - 1, i) : TRUE
      BY <2>2
    <3>2. firsts(log, k, k) = {a} /\ a \in calls(log, k - 1)
      BY <1>4, <3>1 DEF firsts
    <3>3. \A b \in firsts(log, k - 1, i) : b = a
      BY <1>4, <3>2
    <3>4. Open(log, k - 1) = {<<a, i>>} /\ Open(log, k) = {<<a, k>>}
      BY <1>2, <3>1, <3>2, <3>3
    <3>5. r.streak = {Summary(log, a, i)} /\ Reported(log, Open(log, k)) = {Summary(log, a, k)}
      <4>1. \A b, c : Reported(log, {<<b, c>>}) = {Summary(log, b, c)}
        BY DEF Reported
      <4>2. r.streak = Reported(log, Open(log, k - 1))
        BY DEF Tallied
      <4> QED
        BY <3>4, <4>1, <4>2
    <3>6. Summary(log, a, k) = [Summary(log, a, i) EXCEPT !.length = @ + 1]
      BY <1>1, <3>2, SummaryOn
    <3> QED
      BY <3>5, <3>6
  <2> QED
    BY <2>1, <2>2
<1>6. Shut(log, k) = Shut(log, k - 1)
  BY ShutOn
<1>7. r.prev_call_label = {log[k].label}
  BY <1>1 DEF Tallied
<1>8. ASSUME NEW d, d = [r EXCEPT !.streak = new] PROVE Tallied(log, d, k)
  <2>1. d.prev_call_label = r.prev_call_label /\ d.streak = new /\ d.streaks = r.streaks
    <3> HIDE DEF new
    <3> QED
      BY <1>8 DEF Reports
  <2>2. {log[j].label : j \in Recent(log, k)} = {log[k].label}
    BY <1>1
  <2> HIDE DEF new
  <2> QED
    BY <1>5, <1>6, <1>7, <2>1, <2>2 DEF Tallied
<1> QED
  BY <1>8

LEMMA TallyEnds ==
  ASSUME NEW E, NEW log \in Seq(E), NEW k \in 1..Len(log), k \in at(log, "tool/call"),
         NEW r \in Reports(log), Tallied(log, r, k - 1),
         \A i \in Recent(log, k - 1) : log[i].label # log[k].label
  PROVE  Tallied(log, [r EXCEPT !.streaks = @ \cup r.streak, !.streak = {},
                                !.prev_call_label = {log[k].label}], k)
<1>1. Recent(log, k) = {k}
  BY LastCall
<1>2. Open(log, k) = {} /\ Shut(log, k) = Shut(log, k - 1) \cup Open(log, k - 1)
  BY ShutEnd
<1>3. /\ Reported(log, Open(log, k)) = {}
      /\ Reported(log, Shut(log, k)) = r.streaks \cup r.streak
  BY <1>2 DEF Reported, Tallied
<1>4. {log[j].label : j \in Recent(log, k)} = {log[k].label}
  BY <1>1
<1> QED
  BY <1>3, <1>4 DEF Tallied, Reports

LEMMA TallyOthers ==
  ASSUME NEW E, NEW log \in Seq(E), NEW k \in 1..Len(log), k \notin at(log, "tool/call"),
         NEW r \in Reports(log), Tallied(log, r, k - 1)
  PROVE  Tallied(log, tally(log, r, k), k)
<1> SUFFICES ASSUME NEW d, d = tally(log, r, k) PROVE Tallied(log, d, k)
  OBVIOUS
<1>1. /\ Open(log, k) = Open(log, k - 1) /\ Shut(log, k) = Shut(log, k - 1)
      /\ Recent(log, k) = IF k \in at(log, "state/snapshot") THEN {} ELSE Recent(log, k - 1)
  BY NoCall
<1>2. log[k].kind # "tool/call" /\ (k \in at(log, "state/snapshot") <=> log[k].kind = "state/snapshot")
  BY DEF at
<1>3. /\ d.streak = r.streak /\ d.streaks = r.streaks
      /\ d.prev_call_label = IF log[k].kind = "state/snapshot" THEN {} ELSE r.prev_call_label
  BY <1>2, TallyStep
<1> QED
  BY <1>1, <1>2, <1>3 DEF Tallied

\* Every event keeps the report true.
LEMMA TallyKeeps ==
  ASSUME NEW E, NEW log \in Seq(E), NEW k \in 1..Len(log),
         NEW r \in Reports(log), Tallied(log, r, k - 1)
  PROVE  Tallied(log, tally(log, r, k), k)
<1>1. CASE k \notin at(log, "tool/call")
  BY <1>1, TallyOthers
<1>2. CASE k \in at(log, "tool/call")
  <2>1. tally(log, r, k) = count_call(r, log[k].label, k)
    BY <1>2 DEF tally, call_chain, model_chain, node_chain, at
  <2>2. r.prev_call_label = {log[i].label : i \in Recent(log, k - 1)}
    BY DEF Tallied
  <2>3. CASE {log[k].label} = r.prev_call_label
    <3>1. PICK i \in Recent(log, k - 1) : log[i].label = log[k].label
      BY <2>2, <2>3
    <3>2. Tallied(log, [r EXCEPT !.streak =
            IF @ = {} THEN {[label |-> log[k].label, start_seq |-> k, length |-> 2]}
            ELSE {[s EXCEPT !.length = @ + 1] : s \in @}], k)
      BY <1>2, <3>1, TallyRepeats
    <3> QED
      BY <2>1, <2>3, <3>2 DEF count_call
  <2>4. CASE {log[k].label} # r.prev_call_label
    <3>1. ASSUME NEW i \in Recent(log, k - 1), log[i].label = log[k].label PROVE FALSE
      <4>1. calls(log, k - 1) \subseteq Nat
        BY CallsOf
      <4>2. \A j \in Recent(log, k - 1) : j = i
        BY <4>1 DEF Recent, last
      <4> QED
        BY <2>2, <2>4, <3>1, <4>2
    <3>2. Tallied(log, [r EXCEPT !.streaks = @ \cup r.streak, !.streak = {},
                                 !.prev_call_label = {log[k].label}], k)
      BY <1>2, <3>1, TallyEnds
    <3> QED
      BY <2>1, <2>4, <3>2 DEF count_call
  <2> QED
    BY <2>3, <2>4
<1> QED
  BY <1>1, <1>2

\* The streaks reported are the longest blocks of repeated calls, for every log.
LEMMA StreaksExactOn ==
  ASSUME NEW E, NEW log \in Seq(E)
  PROVE  streaks_as_blocks(log)
<1>1. PICK a \in [0..Len(log) -> Reports(log)] :
        /\ a[0] = NoReport
        /\ \A k \in 1..Len(log) : a[k] = tally(log, a[k - 1], k)
        /\ analyze_log(log).streaks = a[Len(log)].streaks \cup a[Len(log)].streak
  BY ReportPasses
<1> DEFINE S == {k \in 0..Len(log) : Tallied(log, a[k], k)}
<1>2. 0 \in S
  <2>1. calls(log, 0) = {} /\ 0 \in 0..Len(log)
    BY DEF calls
  <2>2. Recent(log, 0) = {} /\ Open(log, 0) = {} /\ Shut(log, 0) = {}
    BY <2>1 DEF Recent, last, Open, Shut
  <2> QED
    BY <1>1, <2>1, <2>2 DEF Tallied, Reported, NoReport
<1>3. ASSUME NEW k \in 1..Len(log), k - 1 \in S PROVE k \in S
  <2>1. a[k - 1] \in Reports(log) /\ Tallied(log, a[k - 1], k - 1) /\ k \in 0..Len(log)
    BY <1>3
  <2>2. Tallied(log, tally(log, a[k - 1], k), k)
    BY <2>1, TallyKeeps
  <2> QED
    BY <1>1, <2>1, <2>2
<1>4. S = 0..Len(log)
  <2>1. Len(log) \in Nat /\ S \in SUBSET (0..Len(log))
    OBVIOUS
  <2> HIDE DEF S
  <2> QED
    BY <1>2, <1>3, <2>1, UpTo
<1>5. Tallied(log, a[Len(log)], Len(log))
  <2>1. Len(log) \in 0..Len(log)
    OBVIOUS
  <2> QED
    BY <1>4, <2>1
<1> DEFINE n == Len(log)
           C == at(log, "tool/call")
           blocks == {p \in C \X C :
                        /\ repeats(log, p[1], p[2])
                        /\ \A q \in C \X C :
                             repeats(log, q[1], q[2]) /\ q[1] <= p[1] /\ p[2] <= q[2] => q = p}
<1>6. calls(log, n) = C
  <2>1. DOMAIN log = 1..n
    OBVIOUS
  <2> QED
    BY <2>1 DEF calls, at
<1>7. blocks = Open(log, n) \cup Shut(log, n)
  <2>1. Open(log, n) \cup Shut(log, n) = {p \in C \X C : block(log, n, p[1], p[2])}
    BY <1>6 DEF Open, Shut
  <2>2. ASSUME NEW p \in C \X C, repeats(log, p[1], p[2])
        PROVE  (\A q \in C \X C :
                  repeats(log, q[1], q[2]) /\ q[1] <= p[1] /\ p[2] <= q[2] => q = p)
               <=> \A c, d \in C : repeats(log, c, d) /\ c <= p[1] /\ p[2] <= d
                                     => c = p[1] /\ d = p[2]
    <3>1. ASSUME \A q \in C \X C :
                   repeats(log, q[1], q[2]) /\ q[1] <= p[1] /\ p[2] <= q[2] => q = p,
                 NEW c \in C, NEW d \in C, repeats(log, c, d), c <= p[1], p[2] <= d
          PROVE  c = p[1] /\ d = p[2]
      <4>1. <<c, d>> \in C \X C /\ <<c, d>>[1] = c /\ <<c, d>>[2] = d
        OBVIOUS
      <4>2. <<c, d>> = p
        BY <3>1, <4>1
      <4> QED
        BY <4>1, <4>2
    <3>2. ASSUME \A c, d \in C : repeats(log, c, d) /\ c <= p[1] /\ p[2] <= d
                                   => c = p[1] /\ d = p[2],
                 NEW q \in C \X C, repeats(log, q[1], q[2]), q[1] <= p[1], p[2] <= q[2]
          PROVE  q = p
      <4>1. q[1] = p[1] /\ q[2] = p[2]
        BY <3>2
      <4> QED
        BY <4>1
    <3> QED
      BY <3>1, <3>2
  <2>3. \A p \in C \X C : p \in blocks <=> block(log, n, p[1], p[2])
    BY <1>6, <2>2 DEF block
  <2> QED
    BY <2>1, <2>3
<1>8. analyze_log(log).streaks = Reported(log, blocks)
  <2>1. analyze_log(log).streaks
          = Reported(log, Open(log, n)) \cup Reported(log, Shut(log, n))
    BY <1>1, <1>5 DEF Tallied
  <2>2. Reported(log, Open(log, n) \cup Shut(log, n))
          = Reported(log, Open(log, n)) \cup Reported(log, Shut(log, n))
    BY DEF Reported
  <2> HIDE DEF blocks
  <2> QED
    BY <1>7, <2>1, <2>2
<1> QED
  BY <1>8 DEF streaks_as_blocks, Reported, Summary, Second
=============================================================================
