--------------------------- MODULE CallbacksProofs ---------------------------
(***************************************************************************)
(* Theorems about Callbacks, for any plan: any number of runs, nested and  *)
(* in parallel as they may be, and any number of failures and crashes.     *)
(***************************************************************************)
EXTENDS Callbacks, TimelineProofs, SequenceTheorems, FiniteSetTheorems, TLAPS

-----------------------------------------------------------------------------
(***************************************************************************)
(* Lemmas about the handler's dictionaries.                                *)
(***************************************************************************)
\* d[k] = v adds the key k and touches no other.
LEMMA PutEntry ==
  ASSUME NEW d, NEW k, NEW v
  PROVE  /\ DOMAIN put(d, k, v) = DOMAIN d \cup {k}
         /\ \A x \in DOMAIN put(d, k, v) : put(d, k, v)[x] = IF x = k THEN v ELSE d[x]
  BY DEF put

\* d.pop(k) removes the key k and touches no other.
LEMMA PopEntry ==
  ASSUME NEW d, NEW k
  PROVE  /\ DOMAIN pop(d, k) = DOMAIN d \ {k}
         /\ \A x \in DOMAIN pop(d, k) : pop(d, k)[x] = d[x]
  BY DEF pop, Restrict

\* An empty dictionary has no key.
LEMMA NoEntry == DOMAIN <<>> = {}
  OBVIOUS

-----------------------------------------------------------------------------
(***************************************************************************)
(* The inductive invariant.  The two properties are not inductive: what a  *)
(* result or a node/end says of its run comes out of the dictionaries, so  *)
(* these have to be right before the event is written.                     *)
(***************************************************************************)
States == {"new", "open", "counting", "over", "died"}

\* HandlerForgets, said of one run.
KeptOf(r) ==
  /\ r \in DOMAIN run_open <=> state[r] = "open" /\ is_graph(r)
  /\ r \in DOMAIN node_open <=> state[r] = "open" /\ is_node(r)
  /\ r \in DOMAIN llm_open <=> state[r] = "open" /\ run(r).kind = "llm"
  /\ r \in DOMAIN tool_open <=> state[r] = "open" /\ run(r).kind = "tool"
  /\ r \in starts <=>
       \/ r \in DOMAIN run_open \/ r \in DOMAIN node_open
       \/ r \in DOMAIN llm_open \/ r \in DOMAIN tool_open

Kept ==
  /\ starts \subseteq Runs
  /\ DOMAIN run_open \subseteq Runs /\ DOMAIN node_open \subseteq Runs
  /\ DOMAIN llm_open \subseteq Runs /\ DOMAIN tool_open \subseteq Runs
  /\ \A r \in Runs : KeptOf(r)

\* The dictionaries hold what their runs were started with.
Known ==
  /\ \A r \in DOMAIN node_open : node_open[r] = run(r).node
  /\ \A r \in DOMAIN llm_open : llm_open[r] = run(r).node
  /\ \A r \in DOMAIN tool_open : tool_open[r] = run(r).label

IsLog == \E S : log \in Seq(S)

IInv == state \in [Runs -> States] /\ Kept /\ Known /\ IsLog /\ PairedByRun

LEMMA KeptForgets == Kept => HandlerForgets
  BY DEF Kept, KeptOf, HandlerForgets

\* A step that changes what is kept of r alone.
LEMMA KeptStep ==
  ASSUME Kept, plan' = plan, NEW r \in Runs,
         \A q \in Runs \ {r} : state'[q] = state[q],
         starts' \cup {r} = starts \cup {r},
         DOMAIN run_open' \cup {r} = DOMAIN run_open \cup {r},
         DOMAIN node_open' \cup {r} = DOMAIN node_open \cup {r},
         DOMAIN llm_open' \cup {r} = DOMAIN llm_open \cup {r},
         DOMAIN tool_open' \cup {r} = DOMAIN tool_open \cup {r},
         KeptOf(r)'
  PROVE  Kept'
<1>1. ASSUME NEW q \in Runs, q # r PROVE KeptOf(q)'
  <2>1. /\ q \in starts' <=> q \in starts
        /\ q \in DOMAIN run_open' <=> q \in DOMAIN run_open
        /\ q \in DOMAIN node_open' <=> q \in DOMAIN node_open
        /\ q \in DOMAIN llm_open' <=> q \in DOMAIN llm_open
        /\ q \in DOMAIN tool_open' <=> q \in DOMAIN tool_open
        /\ state'[q] = state[q] /\ KeptOf(q)
    BY <1>1 DEF Kept
  <2> QED
    BY <2>1 DEF KeptOf, is_graph, is_node, run
<1>2. Runs' = Runs
  BY DEF Runs
<1>3. \A q \in Runs' : KeptOf(q)'
  BY <1>1, <1>2
<1>4. /\ starts' \subseteq Runs
      /\ DOMAIN run_open' \subseteq Runs /\ DOMAIN node_open' \subseteq Runs
      /\ DOMAIN llm_open' \subseteq Runs /\ DOMAIN tool_open' \subseteq Runs
  BY DEF Kept
<1> QED
  BY <1>2, <1>3, <1>4 DEF Kept

\* The event e says of its run what the run was started with.
honest(e) ==
  CASE e.kind = "tool/result" -> e.label = run(e.run).label
    [] e.kind \in {"node/end", "llm/call"} -> e.node = run(e.run).node
    [] OTHER -> TRUE

\* One more honest event keeps the log paired.
LEMMA AppendPaired ==
  ASSUME IsLog, PairedByRun, plan' = plan, NEW e, honest(e), log' = Append(log, e)
  PROVE  IsLog' /\ PairedByRun'
<1>1. PICK S : log \in Seq(S)
  BY DEF IsLog
<1>2. log \in Seq(S \cup {e}) /\ e \in S \cup {e}
  BY <1>1
<1>3. /\ log' \in Seq(S \cup {e})
      /\ DOMAIN log' = 1..Len(log) + 1 /\ DOMAIN log = 1..Len(log)
      /\ log'[Len(log) + 1] = e
      /\ \A i \in 1..Len(log) : log'[i] = log[i]
  BY <1>2, AppendProperties
<1>4. Len(log) \in Nat
  BY <1>1
<1>5. ASSUME NEW i \in DOMAIN log' PROVE honest(log'[i])
  <2>1. CASE i \in DOMAIN log
    BY <2>1, <1>3 DEF PairedByRun, honest
  <2>2. CASE i = Len(log) + 1
    BY <2>2, <1>3
  <2> QED
    BY <1>3, <1>4, <1>5, <2>1, <2>2
<1>6. PairedByRun'
  BY <1>5 DEF PairedByRun, honest, run
<1> QED
  BY <1>3, <1>6 DEF IsLog

\* So does an attempt to record one.
LEMMA EmitPaired ==
  ASSUME IsLog, PairedByRun, plan' = plan, NEW e, NEW x, honest(e), emit(e, x)
  PROVE  IsLog' /\ PairedByRun'
<1>1. CASE log' = Append(log, e)
  BY <1>1, AppendPaired
<1>2. CASE UNCHANGED log
  BY <1>2 DEF IsLog, PairedByRun, run
<1> QED
  BY <1>1, <1>2 DEF emit

LEMMA SameLogPaired ==
  ASSUME IsLog, PairedByRun, plan' = plan, log' = log
  PROVE  IsLog' /\ PairedByRun'
  BY DEF IsLog, PairedByRun, run

-----------------------------------------------------------------------------
(***************************************************************************)
(* Every step keeps the invariant.                                         *)
(***************************************************************************)
LEMMA IInvInit == Init => IInv
<1> SUFFICES ASSUME Init PROVE IInv
  OBVIOUS
<1>1. DOMAIN log = {} /\ log \in Seq({})
  BY NoEntry DEF Init
<1>2. Kept /\ Known
  BY NoEntry DEF Init, Kept, KeptOf, Known
<1>3. state \in [Runs -> States]
  BY DEF Init, States
<1> QED
  BY <1>1, <1>2, <1>3 DEF IInv, IsLog, PairedByRun

\* A run that starts enters the dictionary of its kind.
LEMMA StartStep ==
  ASSUME IInv, NEW r \in Runs,
         on_chain_start(r) \/ on_llm_start(r) \/ on_tool_start(r)
  PROVE  IInv'
<1>0. plan' = plan /\ state[r] = "new" /\ state' = [state EXCEPT ![r] = "open"]
  BY DEF on_chain_start, on_llm_start, on_tool_start, begins
<1>1. state' \in [Runs -> States]'
  BY <1>0 DEF IInv, States, Runs
<1>2. /\ r \notin DOMAIN run_open /\ r \notin DOMAIN node_open
      /\ r \notin DOMAIN llm_open /\ r \notin DOMAIN tool_open
      /\ r \notin starts
  BY <1>0 DEF IInv, Kept, KeptOf
<1>3. /\ \A q \in Runs : (run(q) = run(q)') /\ (is_graph(q) <=> is_graph(q)')
                           /\ (is_node(q) <=> is_node(q)')
      /\ Runs' = Runs
  BY <1>0 DEF run, Runs, is_graph, is_node
<1>4. \A q \in Runs : state'[q] = IF q = r THEN "open" ELSE state[q]
  BY <1>0 DEF IInv
<1>5. CASE on_chain_start(r)
  <2>1. CASE is_graph(r)
    <3>1. /\ ~is_node(r) /\ run(r).kind = "chain"
          /\ run_open' = put(run_open, r, 0) /\ starts' = starts \cup {r}
          /\ UNCHANGED <<node_open, llm_open, tool_open>>
          /\ emit(run_start(r), r)
      BY <1>5, <2>1 DEF on_chain_start, is_graph, is_node
    <3>a. DOMAIN run_open' = DOMAIN run_open \cup {r}
      BY <3>1, PutEntry
    <3>b. \A x \in DOMAIN run_open' : run_open'[x] = IF x = r THEN 0 ELSE run_open[x]
      BY <3>1 DEF put
    <3>2. KeptOf(r)'
      BY <1>0, <1>2, <1>4, <2>1, <3>1, <3>a DEF KeptOf, run, is_graph, is_node
    <3>k. Kept'
      BY <1>0, <1>4, <3>1, <3>a, <3>2, KeptStep DEF IInv
    <3>3. Known'
      BY <1>3, <3>1 DEF IInv, Known, Kept
    <3>4. honest(run_start(r))
      BY DEF honest, run_start
    <3> QED
      BY <1>0, <1>1, <3>1, <3>k, <3>3, <3>4, EmitPaired DEF IInv
  <2>2. CASE ~is_graph(r) /\ is_node(r)
    <3>1. /\ run(r).kind = "chain"
          /\ node_open' = put(node_open, r, run(r).node) /\ starts' = starts \cup {r}
          /\ UNCHANGED <<run_open, llm_open, tool_open>>
          /\ emit(node_start(r, run(r).node), r)
      BY <1>5, <2>2 DEF on_chain_start, is_node
    <3>a. DOMAIN node_open' = DOMAIN node_open \cup {r}
      BY <3>1, PutEntry
    <3>b. \A x \in DOMAIN node_open' : node_open'[x] = IF x = r THEN run(r).node ELSE node_open[x]
      BY <3>1 DEF put
    <3>2. KeptOf(r)'
      BY <1>0, <1>2, <1>4, <2>2, <3>1, <3>a DEF KeptOf, run, is_graph, is_node
    <3>k. Kept'
      BY <1>0, <1>4, <3>1, <3>a, <3>2, KeptStep DEF IInv
    <3>3. Known'
      BY <1>3, <3>1, <3>a, <3>b DEF IInv, Known, Kept
    <3>4. honest(node_start(r, run(r).node))
      BY DEF honest, node_start
    <3> QED
      BY <1>0, <1>1, <3>1, <3>k, <3>3, <3>4, EmitPaired DEF IInv
  <2>3. CASE ~is_graph(r) /\ ~is_node(r)
    <3>1. /\ run(r).kind = "chain"
          /\ UNCHANGED <<starts, log, run_open, node_open, llm_open, tool_open>>
      BY <1>5, <2>3 DEF on_chain_start, begins
    <3>2. KeptOf(r)'
      BY <1>0, <1>2, <1>4, <2>3, <3>1 DEF KeptOf, run, is_graph, is_node
    <3>k. Kept'
      BY <1>0, <1>4, <3>1, <3>2, KeptStep DEF IInv
    <3>3. Known'
      BY <1>3, <3>1 DEF IInv, Known, Kept
    <3> QED
      BY <1>0, <1>1, <3>1, <3>k, <3>3, SameLogPaired DEF IInv
  <2> QED
    BY <2>1, <2>2, <2>3
<1>6. CASE on_llm_start(r)
  <2>1. /\ run(r).kind = "llm" /\ ~is_graph(r) /\ ~is_node(r)
        /\ llm_open' = put(llm_open, r, run(r).node) /\ starts' = starts \cup {r}
        /\ UNCHANGED <<log, run_open, node_open, tool_open>>
    BY <1>6 DEF on_llm_start, begins, is_graph, is_node
  <2>a. DOMAIN llm_open' = DOMAIN llm_open \cup {r}
    BY <2>1, PutEntry
  <2>b. \A x \in DOMAIN llm_open' : llm_open'[x] = IF x = r THEN run(r).node ELSE llm_open[x]
    BY <2>1 DEF put
  <2>2. KeptOf(r)'
    BY <1>0, <1>2, <1>4, <2>1, <2>a DEF KeptOf, run, is_graph, is_node
  <2>k. Kept'
    BY <1>0, <1>4, <2>1, <2>a, <2>2, KeptStep DEF IInv
  <2>3. Known'
    BY <1>3, <2>1, <2>a, <2>b DEF IInv, Known, Kept
  <2> QED
    BY <1>0, <1>1, <2>1, <2>k, <2>3, SameLogPaired DEF IInv
<1>7. CASE on_tool_start(r)
  <2>1. /\ run(r).kind = "tool" /\ ~is_graph(r) /\ ~is_node(r)
        /\ tool_open' = put(tool_open, r, run(r).label) /\ starts' = starts \cup {r}
        /\ UNCHANGED <<run_open, node_open, llm_open>>
        /\ emit(tool_call(r, run(r).label), r)
    BY <1>7 DEF on_tool_start, begins, is_graph, is_node
  <2>a. DOMAIN tool_open' = DOMAIN tool_open \cup {r}
    BY <2>1, PutEntry
  <2>b. \A x \in DOMAIN tool_open' : tool_open'[x] = IF x = r THEN run(r).label ELSE tool_open[x]
    BY <2>1 DEF put
  <2>2. KeptOf(r)'
    BY <1>0, <1>2, <1>4, <2>1, <2>a DEF KeptOf, run, is_graph, is_node
  <2>k. Kept'
    BY <1>0, <1>4, <2>1, <2>a, <2>2, KeptStep DEF IInv
  <2>3. Known'
    BY <1>3, <2>1, <2>a, <2>b DEF IInv, Known, Kept
  <2>4. honest(tool_call(r, run(r).label))
    BY DEF honest, tool_call
  <2> QED
    BY <1>0, <1>1, <2>1, <2>k, <2>3, <2>4, EmitPaired DEF IInv
<1> QED
  BY <1>5, <1>6, <1>7

\* A run that ends leaves the dictionary of its kind, and its event is honest.
LEMMA EndStep ==
  ASSUME IInv, NEW r \in Runs, NEW ok,
         on_chain_end(r, ok) \/ on_llm_end(r, ok) \/ on_tool_end(r, ok)
  PROVE  IInv'
<1>0. plan' = plan /\ state[r] = "open" /\ state \in [Runs -> States]
  BY DEF on_chain_end, on_llm_end, on_tool_end, ends, IInv
<1>1. Runs' = Runs /\ \A q \in Runs : run(q) = run(q)'
  BY <1>0 DEF run, Runs
<1>2. KeptOf(r) /\ Known
  BY DEF IInv, Kept
<1>3. ASSUME NEW s \in {"counting", "over"}, state' = [state EXCEPT ![r] = s]
      PROVE  /\ state' \in [Runs -> States]' /\ state'[r] # "open"
             /\ \A q \in Runs \ {r} : state'[q] = state[q]
  BY <1>0, <1>1, <1>3 DEF States
<1>4. CASE on_chain_end(r, ok)
  <2>1. run(r).kind = "chain" /\ UNCHANGED <<llm_open, tool_open>>
    BY <1>4 DEF on_chain_end
  <2>2. CASE r \in DOMAIN run_open /\ close_run(r, ok)
    <3>1. /\ run_open' = pop(run_open, r) /\ starts' = starts \ {r}
          /\ state' = [state EXCEPT ![r] = "over"] /\ UNCHANGED node_open
      BY <2>2 DEF close_run, over
    <3>a. DOMAIN run_open' = DOMAIN run_open \ {r}
      BY <3>1, PopEntry
    <3>2. KeptOf(r)'
      BY <1>0, <1>2, <1>3, <2>1, <2>2, <3>1, <3>a DEF KeptOf, is_graph, is_node, run
    <3>3. Kept'
      BY <1>0, <1>3, <2>1, <3>1, <3>a, <3>2, KeptStep DEF IInv
    <3>4. Known'
      BY <1>1, <2>1, <3>1 DEF IInv, Kept, Known
    <3>5. PICK e : emit(e, r) /\ e.kind = "run/end"
      BY <2>2 DEF close_run, run_end
    <3>6. honest(e)
      BY <3>5 DEF honest
    <3> QED
      BY <1>0, <1>3, <3>1, <3>3, <3>4, <3>5, <3>6, EmitPaired DEF IInv
  <2>3. CASE r \in DOMAIN node_open /\ close_node(r, ok)
    <3>1. /\ node_open' = pop(node_open, r) /\ starts' = starts \ {r}
          /\ emit(node_end(r, node_open[r], ok), r) /\ UNCHANGED run_open
      BY <2>3 DEF close_node
    <3>2. PICK s \in {"counting", "over"} : state' = [state EXCEPT ![r] = s]
      BY <2>3 DEF close_node
    <3>a. DOMAIN node_open' = DOMAIN node_open \ {r}
      BY <3>1, PopEntry
    <3>b. \A x \in DOMAIN node_open' : node_open'[x] = node_open[x]
      BY <3>1, PopEntry
    <3>3. KeptOf(r)'
      BY <1>0, <1>2, <1>3, <2>1, <2>3, <3>1, <3>2, <3>a DEF KeptOf, is_graph, is_node, run
    <3>4. Kept'
      BY <1>0, <1>3, <2>1, <3>1, <3>2, <3>a, <3>3, KeptStep DEF IInv
    <3>5. Known'
      BY <1>1, <2>1, <3>1, <3>a, <3>b DEF IInv, Kept, Known
    <3>6. honest(node_end(r, node_open[r], ok))
      BY <1>2, <2>3 DEF honest, node_end, Known
    <3> QED
      BY <1>0, <1>3, <3>1, <3>2, <3>4, <3>5, <3>6, EmitPaired DEF IInv
  <2>4. CASE /\ r \notin DOMAIN run_open \cup DOMAIN node_open
             /\ over(r) /\ UNCHANGED <<starts, run_open, node_open, log, lost>>
    <3>1. state' = [state EXCEPT ![r] = "over"]
      BY <2>4 DEF over
    <3>2. KeptOf(r)'
      BY <1>0, <1>2, <1>3, <2>1, <2>4, <3>1 DEF KeptOf, is_graph, is_node, run
    <3>3. Kept'
      BY <1>0, <1>3, <2>1, <2>4, <3>1, <3>2, KeptStep DEF IInv
    <3>4. Known'
      BY <1>1, <2>1, <2>4 DEF IInv, Kept, Known
    <3> QED
      BY <1>0, <1>3, <2>4, <3>1, <3>3, <3>4, SameLogPaired DEF IInv
  <2> QED
    BY <1>4, <2>2, <2>3, <2>4 DEF on_chain_end
<1>5. CASE on_llm_end(r, ok)
  <2>1. /\ run(r).kind = "llm" /\ state' = [state EXCEPT ![r] = "over"]
        /\ llm_open' = pop(llm_open, r) /\ starts' = starts \ {r}
        /\ emit(llm_call(r, llm_open[r], ok), r)
        /\ UNCHANGED <<run_open, node_open, tool_open>>
    BY <1>5 DEF on_llm_end, over
  <2>a. DOMAIN llm_open' = DOMAIN llm_open \ {r}
    BY <2>1, PopEntry
  <2>b. \A x \in DOMAIN llm_open' : llm_open'[x] = llm_open[x]
    BY <2>1, PopEntry
  <2>2. KeptOf(r)'
    BY <1>0, <1>2, <1>3, <2>1, <2>a DEF KeptOf, is_graph, is_node, run
  <2>3. Kept'
    BY <1>0, <1>3, <2>1, <2>a, <2>2, KeptStep DEF IInv
  <2>4. Known'
    BY <1>1, <2>1, <2>a, <2>b DEF IInv, Kept, Known
  <2>5. honest(llm_call(r, llm_open[r], ok))
    BY <1>0, <1>2, <2>1 DEF honest, llm_call, Known, KeptOf
  <2> QED
    BY <1>0, <1>3, <2>1, <2>3, <2>4, <2>5, EmitPaired DEF IInv
<1>6. CASE on_tool_end(r, ok)
  <2>1. /\ run(r).kind = "tool" /\ state' = [state EXCEPT ![r] = "over"]
        /\ tool_open' = pop(tool_open, r) /\ starts' = starts \ {r}
        /\ emit(tool_result(r, tool_open[r], ok), r)
        /\ UNCHANGED <<run_open, node_open, llm_open>>
    BY <1>6 DEF on_tool_end, over
  <2>a. DOMAIN tool_open' = DOMAIN tool_open \ {r}
    BY <2>1, PopEntry
  <2>b. \A x \in DOMAIN tool_open' : tool_open'[x] = tool_open[x]
    BY <2>1, PopEntry
  <2>2. KeptOf(r)'
    BY <1>0, <1>2, <1>3, <2>1, <2>a DEF KeptOf, is_graph, is_node, run
  <2>3. Kept'
    BY <1>0, <1>3, <2>1, <2>a, <2>2, KeptStep DEF IInv
  <2>4. Known'
    BY <1>1, <2>1, <2>a, <2>b DEF IInv, Kept, Known
  <2>5. honest(tool_result(r, tool_open[r], ok))
    BY <1>0, <1>2, <2>1 DEF honest, tool_result, Known, KeptOf
  <2> QED
    BY <1>0, <1>3, <2>1, <2>3, <2>4, <2>5, EmitPaired DEF IInv
<1> QED
  BY <1>4, <1>5, <1>6

\* A step that leaves the handler and the states of the runs as they are.
LEMMA SameHandler ==
  ASSUME IInv, plan' = plan, UNCHANGED <<state, handler>>
  PROVE  state' \in [Runs -> States]' /\ Kept' /\ Known'
<1>1. /\ UNCHANGED <<starts, run_open, node_open, llm_open, tool_open, state>>
      /\ Runs' = Runs
  BY DEF handler, Runs
<1>2. \A r \in Runs : KeptOf(r)'
  BY <1>1 DEF IInv, Kept, KeptOf, is_graph, is_node, run
<1>3. Kept'
  BY <1>1, <1>2 DEF IInv, Kept
<1>4. Known'
  BY <1>1 DEF IInv, Known, run
<1> QED
  BY <1>1, <1>3, <1>4 DEF IInv, States

\* Counting a step changes no key, and the run that was counted is over.
LEMMA CountStep ==
  ASSUME IInv, NEW r \in Runs, count_step(r)
  PROVE  IInv'
<1>1. /\ plan' = plan /\ state[r] = "counting" /\ state' = [state EXCEPT ![r] = "over"]
      /\ UNCHANGED <<log, starts, node_open, llm_open, tool_open>>
      /\ state \in [Runs -> States] /\ KeptOf(r)
  BY DEF count_step, over, IInv, Kept
<1>2. DOMAIN run_open' = DOMAIN run_open
  BY DEF count_step
<1>3. /\ state' \in [Runs -> States]' /\ state'[r] = "over"
      /\ \A q \in Runs \ {r} : state'[q] = state[q]
  BY <1>1 DEF States, Runs
<1>4. KeptOf(r)'
  BY <1>1, <1>2, <1>3 DEF KeptOf, is_graph, is_node, run
<1>5. Kept'
  BY <1>1, <1>2, <1>3, <1>4, KeptStep DEF IInv
<1>6. Known'
  BY <1>1 DEF IInv, Known, run
<1> QED
  BY <1>1, <1>3, <1>5, <1>6, SameLogPaired DEF IInv

\* A crash empties the dictionaries, and no run is under way behind it.
LEMMA CrashStep ==
  ASSUME IInv, Crash
  PROVE  IInv'
<1>1. /\ plan' = plan /\ log' = log /\ starts' = {} /\ run_open' = <<>>
      /\ node_open' = <<>> /\ llm_open' = <<>> /\ tool_open' = <<>>
  BY DEF Crash
<1>2. /\ Runs' = Runs /\ state' \in [Runs -> States]
      /\ \A r \in Runs : state'[r] # "open"
  BY <1>1 DEF Crash, Runs, States, IInv
<1>3. Kept' /\ Known'
  BY <1>1, <1>2, NoEntry DEF Kept, KeptOf, Known
<1> QED
  BY <1>1, <1>2, <1>3, SameLogPaired DEF IInv, States

LEMMA IInvNext == IInv /\ [Next]_vars => IInv'
<1> SUFFICES ASSUME IInv, [Next]_vars PROVE IInv'
  OBVIOUS
<1>1. ASSUME NEW r \in Runs, on_chain_start(r) \/ on_llm_start(r) \/ on_tool_start(r)
      PROVE  IInv'
  BY <1>1, StartStep
<1>2. ASSUME NEW r \in Runs, count_step(r) PROVE IInv'
  BY <1>2, CountStep
<1>3. ASSUME NEW r \in Runs, NEW ok \in BOOLEAN,
             on_chain_end(r, ok) \/ on_llm_end(r, ok) \/ on_tool_end(r, ok)
      PROVE  IInv'
  BY <1>3, EndStep
<1>4. ASSUME NEW c, NEW parent, Snapshot(c, parent) PROVE IInv'
  <2>1. /\ plan' = plan /\ UNCHANGED <<state, handler>>
        /\ emit(state_snapshot(c, parent), c)
    BY <1>4 DEF Snapshot
  <2>2. honest(state_snapshot(c, parent))
    BY DEF honest, state_snapshot
  <2> QED
    BY <2>1, <2>2, SameHandler, EmitPaired DEF IInv
<1>5. CASE Writes
  <2>1. /\ plan' = plan /\ UNCHANGED <<state, handler>>
        /\ emit([kind |-> "checkpoint/writes"], None)
    BY <1>5 DEF Writes
  <2>2. honest([kind |-> "checkpoint/writes"])
    BY DEF honest
  <2> QED
    BY <2>1, <2>2, SameHandler, EmitPaired DEF IInv
<1>6. CASE Crash
  BY <1>6, CrashStep
<1>7. CASE Restart
  <2>1. plan' = plan /\ log' = log /\ UNCHANGED <<state, handler>>
    BY <1>7 DEF Restart
  <2> QED
    BY <2>1, SameHandler, SameLogPaired DEF IInv
<1>8. CASE Repair
  <2>1. /\ plan' = plan /\ UNCHANGED <<state, handler>>
        /\ log' = Append(log, run_end(None, "interrupted", 0))
    BY <1>8 DEF Repair
  <2>2. honest(run_end(None, "interrupted", 0))
    BY DEF honest, run_end
  <2> QED
    BY <2>1, <2>2, SameHandler, AppendPaired DEF IInv
<1>9. CASE UNCHANGED vars
  <2>1. plan' = plan /\ log' = log /\ UNCHANGED <<state, handler>>
    BY <1>9 DEF vars
  <2> QED
    BY <2>1, SameHandler, SameLogPaired DEF IInv
<1> QED
  BY <1>1, <1>2, <1>3, <1>4, <1>5, <1>6, <1>7, <1>8, <1>9 DEF Next

-----------------------------------------------------------------------------
(***************************************************************************)
(* Graph runs: their brackets, and the nodes that run in them.             *)
(***************************************************************************)
\* A run without parent is the invocation of a graph, or a model or tool call
\* by itself: no node runs outside of a graph.
NodesInGraphs ==
  \A p \in Plans : \A r \in DOMAIN p.runs :
    p.runs[r].parent = None =>
      \/ p.runs[r].kind = "chain" /\ p.runs[r].node = None
      \/ p.runs[r].kind # "chain" /\ \A q \in DOMAIN p.runs : p.runs[q].parent # r

-----------------------------------------------------------------------------
(***************************************************************************)
(* The line from a run up to the run without parent that it belongs to:    *)
(* what is in every set that has the run, and with a run its parent.       *)
(***************************************************************************)
Closed(S) == \A q \in S : run(q).parent # None => run(q).parent \in S

Line(r) == {q \in Runs : \A S \in SUBSET Runs : r \in S /\ Closed(S) => q \in S}

Under == {"open", "counting"}

-----------------------------------------------------------------------------
(***************************************************************************)
(* What the log says of the runs: the brackets of a run, and the steps it  *)
(* counted.  The invariant, in parts.                                      *)
(***************************************************************************)
\* The lives of the runs: a run is inside of its parent, and belongs to the run
\* at the top of its line.
LifeOf(r) ==
  /\ state[r] \in Under => alive
  /\ state[r] = "counting" => is_node(r)
  /\ state[r] # "new" /\ run(r).parent # None => state[run(r).parent] # "new"
  /\ state[r] \in Under /\ run(r).parent # None => state[run(r).parent] = "open"
  /\ state[r] # "new" => graph_of[r] \in Line(r) /\ run(graph_of[r]).parent = None
  /\ r \in failed => state[r] \notin {"new", "open"}

Life == \A r \in Runs : LifeOf(r)

\* Graph runs that are open side by side have been noted.
Beside ==
  /\ failed \subseteq Runs /\ overlapped \subseteq Runs
  /\ \A g, h \in DOMAIN run_open : g # h => g \in overlapped

\* What an event says has happened.
happened(e) ==
  /\ e.kind \in Kinds
  /\ e.kind = "run/start" =>
       e.run \in Runs /\ is_graph(e.run) /\ state[e.run] \notin {"new", "counting"}
  /\ e.kind = "run/end" => \/ e.run = None
                           \/ e.run \in Runs /\ state[e.run] = "over"
  /\ e.kind = "node/end" => e.run \in Runs /\ state[e.run] \notin {"new", "open"}

Happened ==
  /\ \A i \in DOMAIN log : happened(log[i])
  /\ \A x \in lost : x[1] = "node/end" => x[2] \in Runs /\ state[x[2]] \notin {"new", "open"}

\* BracketsTellCrash, and the last run/start is that of the open run.
Whole == overlapped = {} /\ \A x \in lost : x[1] \notin {"run/start", "run/end"}

behind(i) == {j \in at(log, "run/end") : j > i}

TellsOf(i) ==
  /\ state[log[i].run] = "open" => behind(i) = {}
  /\ state[log[i].run] = "over" =>
       \E j \in behind(i) : behind(i) = {j} /\ log[j].status =
         (IF log[i].run \in failed THEN "error" ELSE "completed")
  /\ state[log[i].run] = "died" => \A j \in behind(i) : log[j].status = "interrupted"

Tells ==
  Whole =>
    /\ \A i \in last(at(log, "run/start")) : TellsOf(i)
    /\ \A g \in DOMAIN run_open : \E i \in last(at(log, "run/start")) : log[i].run = g

\* The steps of an open run are the node/ends of its run, on record or lost, less
\* those that close_node is about to count.
EndsOf(g) == {j \in at(log, "node/end") : graph_of[log[j].run] = g}
LostOf(g) == {x \in lost : ~strict /\ x[1] = "node/end" /\ graph_of[x[2]] = g}
DueOf(g) == {r \in Runs : state[r] = "counting" /\ graph_of[r] = g}

Finite == IsFiniteSet(lost) /\ IsFiniteSet(failed) /\ crashes \in 0..MaxTrouble

Counted ==
  \A g \in DOMAIN run_open : g \notin overlapped =>
    run_open[g] + Cardinality(DueOf(g)) = Cardinality(EndsOf(g)) + Cardinality(LostOf(g))

Total ==
  \A i \in at(log, "run/end") : log[i].run # None /\ log[i].run \notin overlapped =>
    log[i].steps = Cardinality(EndsOf(log[i].run)) + Cardinality(LostOf(log[i].run))

\* No run has counted more steps than there were nodes to count.
Nodes(S) == {r \in Runs : is_node(r) /\ state[r] \in S}

Bounded ==
  \A g \in DOMAIN run_open :
    /\ run_open[g] \in Nat
    /\ run_open[g] + Cardinality(Nodes({"counting"})) <= Cardinality(Nodes({"counting", "over"}))

HInv ==
  /\ plan \in Plans /\ strict \in BOOLEAN /\ alive \in BOOLEAN
  /\ Life /\ Beside /\ Happened /\ Tells /\ Finite /\ Bounded
  /\ NodesInGraphs => Counted /\ Total

-----------------------------------------------------------------------------
(***************************************************************************)
(* graph_of is well defined: the run at the top of a line solves its       *)
(* equation, whatever the parents are.                                     *)
(***************************************************************************)
LEMMA Parents ==
  ASSUME plan \in Plans
  PROVE  /\ IsFiniteSet(Runs) /\ None \notin Runs
         /\ \A r \in Runs : run(r).parent # None => run(r).parent \in Runs
  BY PlansAssumption DEF Runs, run

\* A line is the run itself and the line of its parent.
LEMMA LineStep ==
  ASSUME plan \in Plans, NEW r \in Runs
  PROVE  /\ r \in Line(r)
         /\ run(r).parent = None => Line(r) = {r}
         /\ run(r).parent # None =>
              /\ Line(run(r).parent) \subseteq Line(r)
              /\ Line(r) \subseteq Line(run(r).parent) \cup {r}
<1>1. r \in Line(r)
  BY DEF Line
<1>2. ASSUME run(r).parent = None PROVE Line(r) = {r}
  <2>1. Closed({r})
    BY <1>2 DEF Closed
  <2> QED
    BY <2>1, <1>1 DEF Line
<1>3. ASSUME run(r).parent # None, NEW q \in Line(run(r).parent) PROVE q \in Line(r)
  <2>1. ASSUME NEW S \in SUBSET Runs, r \in S, Closed(S) PROVE q \in S
    BY <1>3, <2>1 DEF Line, Closed
  <2> QED
    BY <1>3, <2>1 DEF Line
<1>4. ASSUME run(r).parent # None, NEW q \in Line(r), q # r PROVE q \in Line(run(r).parent)
  <2>1. run(r).parent \in Runs
    BY <1>4, Parents
  <2>2. ASSUME NEW S \in SUBSET Runs, run(r).parent \in S, Closed(S) PROVE q \in S
    <3>1. S \cup {r} \in SUBSET Runs /\ Closed(S \cup {r})
      BY <2>2 DEF Closed
    <3> QED
      BY <3>1, <1>4 DEF Line
  <2> QED
    BY <1>4, <2>2 DEF Line
<1> QED
  BY <1>1, <1>2, <1>3, <1>4

LEMMA GraphOf ==
  ASSUME plan \in Plans, NEW r \in Runs
  PROVE  graph_of[r] = IF run(r).parent = None THEN r ELSE graph_of[run(r).parent]
<1> DEFINE tops(q) == {t \in Line(q) : run(t).parent = None}
           top == [q \in Runs |-> CHOOSE t : t \in tops(q)]
<1>1. ASSUME NEW q \in Runs, run(q).parent = None PROVE top[q] = q
  <2>1. tops(q) = {q}
    BY <1>1, LineStep
  <2> QED
    BY <2>1
<1>2. ASSUME NEW q \in Runs, run(q).parent # None PROVE top[q] = top[run(q).parent]
  <2>1. tops(q) = tops(run(q).parent)
    BY <1>2, LineStep
  <2>2. run(q).parent \in Runs
    BY <1>2, Parents
  <2> QED
    BY <2>1, <2>2
<1>3. top = [q \in Runs |-> IF run(q).parent = None THEN q ELSE top[run(q).parent]]
  <2> HIDE DEF tops
  <2>1. \A q \in Runs : top[q] = IF run(q).parent = None THEN q ELSE top[run(q).parent]
    BY <1>1, <1>2
  <2> QED
    BY <2>1
<1> HIDE DEF top
<1>4. graph_of = [q \in Runs |-> IF run(q).parent = None THEN q ELSE graph_of[run(q).parent]]
  BY <1>3 DEF graph_of
<1> QED
  BY <1>4

LEMMA SamePlan ==
  ASSUME plan' = plan
  PROVE  /\ Runs' = Runs /\ graph_of' = graph_of
         /\ \A r \in Runs : /\ run(r)' = run(r) /\ Line(r)' = Line(r)
                            /\ is_graph(r)' <=> is_graph(r)
                            /\ is_node(r)' <=> is_node(r)
<1>1. Runs' = Runs /\ \A r \in Runs : run(r)' = run(r)
  BY DEF Runs, run
<1>2. \A r \in Runs : /\ is_graph(r)' <=> is_graph(r)
                      /\ is_node(r)' <=> is_node(r)
  BY <1>1 DEF is_graph, is_node
<1>3. graph_of' = graph_of
  BY DEF graph_of, Runs, run
<1>4. \A r \in Runs : Line(r)' = Line(r)
  BY DEF Line, Closed, Runs, run
<1> QED
  BY <1>1, <1>2, <1>3, <1>4

-----------------------------------------------------------------------------
(***************************************************************************)
(* The lives of the runs.                                                  *)
(***************************************************************************)
\* A run starts inside of its parent, or goes on to another state when nothing
\* is under way inside of it.
LEMMA LifeMove ==
  ASSUME plan \in Plans, Life, plan' = plan, state \in [Runs -> States],
         alive, alive' = alive, NEW r \in Runs, NEW s \in {"open", "counting", "over"},
         state' = [state EXCEPT ![r] = s], failed' \subseteq failed \cup {r},
         s = "open" => /\ state[r] = "new" /\ failed' = failed
                       /\ run(r).parent # None => state[run(r).parent] = "open",
         s # "open" => /\ state[r] \in Under
                       /\ \A q \in Runs : run(q).parent = r => state[q] \notin Under,
         s = "counting" => is_node(r) /\ state[r] = "open"
  PROVE  Life'
<1>1. \A q \in Runs : state'[q] = IF q = r THEN s ELSE state[q]
  OBVIOUS
<1>2. \A q \in Runs : run(q).parent # None => run(q).parent \in Runs
  BY Parents
<1>3. \A q \in Runs : LifeOf(q)
  BY DEF Life
<1>4. ASSUME NEW q \in Runs, q # r PROVE LifeOf(q)'
  <2>1. state'[q] = state[q] /\ (q \in failed' => q \in failed)
    BY <1>1, <1>4
  <2>2. /\ state'[q] \in Under => alive'
        /\ state'[q] = "counting" => is_node(q)'
        /\ state'[q] # "new" => graph_of'[q] \in Line(q)' /\ (run(graph_of[q]).parent = None)
        /\ q \in failed' => state'[q] \notin {"new", "open"}
    BY <1>3, <2>1, SamePlan DEF LifeOf
  <2>3. ASSUME run(q).parent # None, state[q] # "new" PROVE state'[run(q).parent] # "new"
    BY <1>1, <1>2, <1>3, <2>3 DEF LifeOf
  <2>4. ASSUME run(q).parent # None, state[q] \in Under PROVE state'[run(q).parent] = "open"
    BY <1>1, <1>2, <1>3, <2>4 DEF LifeOf
  <2>5. run(graph_of[q])' = run(graph_of[q])
    BY SamePlan DEF run
  <2> QED
    BY <2>1, <2>2, <2>3, <2>4, <2>5, SamePlan DEF LifeOf, Under
<1>5. LifeOf(r)'
  <2>1. state'[r] = s /\ LifeOf(r)
    BY <1>1, <1>3
  <2>2. run(r).parent # None => state'[run(r).parent] # "new" /\ (s \in Under => state'[run(r).parent] = "open")
    BY <1>1, <1>2, <2>1 DEF LifeOf, Under
  <2>3. graph_of[r] \in Line(r) /\ run(graph_of[r]).parent = None
    <3>1. CASE state[r] # "new"
      BY <3>1, <2>1 DEF LifeOf
    <3>2. CASE state[r] = "new" /\ run(r).parent = None
      BY <3>2, GraphOf, LineStep
    <3>3. CASE state[r] = "new" /\ run(r).parent # None
      <4>1. s = "open" /\ state[run(r).parent] = "open" /\ run(r).parent \in Runs
        BY <1>2, <3>3 DEF Under
      <4>2. /\ graph_of[run(r).parent] \in Line(run(r).parent)
            /\ run(graph_of[run(r).parent]).parent = None
        BY <1>3, <4>1 DEF LifeOf
      <4> QED
        BY <3>3, <4>2, GraphOf, LineStep
    <3> QED
      BY <3>1, <3>2, <3>3
  <2>4. run(graph_of[r])' = run(graph_of[r])
    BY SamePlan DEF run
  <2>5. r \in failed' => state'[r] \notin {"new", "open"}
    BY <2>1 DEF LifeOf
  <2> QED
    BY <2>1, <2>2, <2>3, <2>4, <2>5, SamePlan DEF LifeOf, Under
<1> QED
  BY <1>4, <1>5, SamePlan DEF Life

LEMMA LifeStays ==
  ASSUME Life, plan' = plan, state' = state, failed' = failed, alive => alive'
  PROVE  Life'
<1> SUFFICES ASSUME NEW r \in Runs PROVE LifeOf(r)'
  BY SamePlan DEF Life
<1>1. LifeOf(r) /\ run(graph_of[r])' = run(graph_of[r])
  BY SamePlan DEF Life, run
<1> QED
  BY <1>1, SamePlan DEF LifeOf

LEMMA LifeCrash ==
  ASSUME plan \in Plans, Life, state \in [Runs -> States], Crash
  PROVE  Life'
<1> SUFFICES ASSUME NEW r \in Runs PROVE LifeOf(r)'
  BY SamePlan DEF Life, Crash
<1>1. LifeOf(r) /\ run(graph_of[r])' = run(graph_of[r]) /\ plan' = plan /\ failed' = failed
  BY SamePlan DEF Life, run, Crash
<1>2. \A q \in Runs : /\ state'[q] \notin Under
                      /\ state'[q] = "new" <=> state[q] = "new"
  BY DEF Crash, Under
<1>3. run(r).parent # None => run(r).parent \in Runs
  BY Parents
<1> QED
  BY <1>1, <1>2, <1>3, SamePlan DEF LifeOf, Under

\* Nothing is under way inside of a run without a run under way whose parent it
\* is; and a run that has started belongs to one that has.
LEMMA Inside ==
  ASSUME plan \in Plans, Life, NEW r \in Runs, state[r] # "new"
  PROVE  /\ graph_of[r] \in Runs /\ state[graph_of[r]] # "new"
         /\ run(graph_of[r]).parent = None
         /\ state[r] \in Under /\ graph_of[r] # r =>
              /\ state[graph_of[r]] = "open"
              /\ \E q \in Runs : run(q).parent = graph_of[r] /\ state[q] \in Under
<1> DEFINE t == graph_of[r]
<1>1. t \in Line(r) /\ t \in Runs /\ run(t).parent = None
  BY DEF Life, LifeOf, Line
<1>2. state[t] # "new"
  <2> DEFINE S == {q \in Runs : state[q] # "new"}
  <2>1. Closed(S)
    BY Parents DEF Closed, Life, LifeOf
  <2>2. r \in S /\ S \in SUBSET Runs
    OBVIOUS
  <2>3. t \in S
    BY <1>1, <2>1, <2>2 DEF Line
  <2> QED
    BY <2>3
<1>3. ASSUME state[r] \in Under, t # r PROVE state[t] = "open"
  <2> DEFINE S == {q \in Runs : q = r \/ state[q] = "open"}
  <2>1. Closed(S)
    BY <1>3, Parents DEF Closed, Life, LifeOf, Under
  <2>2. r \in S /\ S \in SUBSET Runs
    OBVIOUS
  <2>3. t \in S
    BY <1>1, <2>1, <2>2 DEF Line
  <2> QED
    BY <1>3, <2>3
<1>4. ASSUME state[r] \in Under, t # r, \A q \in Runs : run(q).parent = t => state[q] \notin Under
      PROVE  FALSE
  <2> DEFINE S == {q \in Runs : q # t /\ (q = r \/ state[q] = "open")}
  <2>1. ASSUME NEW q \in S, run(q).parent # None PROVE run(q).parent \in S
    <3>1. state[q] \in Under /\ run(q).parent \in Runs
      BY <1>4, <2>1, Parents DEF Under
    <3>2. state[run(q).parent] = "open"
      BY <2>1, <3>1 DEF Life, LifeOf
    <3>3. run(q).parent # t
      BY <1>4, <3>1
    <3> QED
      BY <3>1, <3>2, <3>3
  <2>2. r \in S /\ S \in SUBSET Runs
    BY <1>4
  <2>3. t \in S
    BY <1>1, <2>1, <2>2 DEF Line, Closed
  <2> QED
    BY <2>3
<1> QED
  BY <1>1, <1>2, <1>3, <1>4

-----------------------------------------------------------------------------
(***************************************************************************)
(* The log.                                                                *)
(***************************************************************************)
\* What emit does, whether there is trouble to spare or not.
Wrote(e, x) ==
  \/ log' = Append(log, e) /\ lost' = lost
  \/ log' = log /\ lost' = lost \cup {<<e.kind, x>>}

LEMMA EmitWrote ==
  ASSUME NEW e, NEW x, emit(e, x)
  PROVE  Wrote(e, x)
  BY DEF emit, Wrote

LEMMA Appended ==
  ASSUME IsLog, NEW e, log' = Append(log, e)
  PROVE  /\ Len(log) \in Nat /\ DOMAIN log = 1..Len(log)
         /\ DOMAIN log' = 1..Len(log) + 1
         /\ log'[Len(log) + 1] = e
         /\ \A i \in DOMAIN log : log'[i] = log[i]
<1>1. PICK S : log \in Seq(S)
  BY DEF IsLog
<1>2. log \in Seq(S \cup {e}) /\ e \in S \cup {e}
  BY <1>1
<1> QED
  BY <1>2, AppendProperties

LEMMA AtAppended ==
  ASSUME IsLog, NEW e, log' = Append(log, e), NEW kind
  PROVE  at(log', kind) = IF e.kind = kind THEN at(log, kind) \cup {Len(log) + 1}
                          ELSE at(log, kind)
<1>1. /\ Len(log) \in Nat /\ DOMAIN log = 1..Len(log)
      /\ DOMAIN log' = DOMAIN log \cup {Len(log) + 1}
      /\ log'[Len(log) + 1] = e
      /\ \A i \in DOMAIN log : log'[i] = log[i]
  BY Appended
<1> QED
  BY <1>1 DEF at

\* The states that the events speak of do not come back.
Forward ==
  \A r \in Runs :
    /\ is_graph(r) /\ state[r] \notin {"new", "counting"} => state'[r] \notin {"new", "counting"}
    /\ state[r] = "over" => state'[r] = "over"
    /\ state[r] \notin {"new", "open"} => state'[r] \notin {"new", "open"}

LEMMA HappenedStays ==
  ASSUME Happened, plan' = plan, Forward, log' = log, lost' = lost
  PROVE  Happened'
<1>1. ASSUME NEW e, happened(e) PROVE happened(e)'
  BY <1>1, SamePlan DEF happened, Forward
<1> QED
  BY <1>1, SamePlan DEF Happened, Forward

LEMMA HappenedWrote ==
  ASSUME Happened, plan' = plan, Forward, IsLog, NEW e, NEW x, Wrote(e, x), happened(e)',
         e.kind = "node/end" => x = e.run
  PROVE  Happened'
<1>1. ASSUME NEW d, happened(d) PROVE happened(d)'
  BY <1>1, SamePlan DEF happened, Forward
<1>2. ASSUME NEW y \in lost, y[1] = "node/end"
      PROVE  y[2] \in Runs' /\ state'[y[2]] \notin {"new", "open"}
  BY <1>2, SamePlan DEF Happened, Forward
<1>3. CASE log' = Append(log, e) /\ lost' = lost
  <2>1. ASSUME NEW i \in DOMAIN log' PROVE happened(log[i])'
    <3>1. i \in DOMAIN log \/ i = Len(log) + 1
      BY <1>3, <2>1, Appended
    <3>2. CASE i \in DOMAIN log
      <4>1. log'[i] = log[i] /\ happened(log[i])
        BY <1>3, <3>2, Appended DEF Happened
      <4>2. PICK d : d = log[i]
        OBVIOUS
      <4>3. happened(d)' /\ d = log'[i]
        BY <1>1, <4>1, <4>2
      <4> QED
        BY <4>3, SamePlan DEF happened, is_graph, run
    <3>3. CASE i = Len(log) + 1
      <4>1. log'[i] = e
        BY <1>3, <3>3, Appended
      <4> QED
        BY <4>1, SamePlan DEF happened
    <3> QED
      BY <3>1, <3>2, <3>3
  <2> QED
    BY <1>2, <1>3, <2>1 DEF Happened, happened
<1>4. CASE log' = log /\ lost' = lost \cup {<<e.kind, x>>}
  <2>1. \A y \in lost' : y[1] = "node/end" =>
          y[2] \in Runs' /\ state'[y[2]] \notin {"new", "open"}
    BY <1>2, <1>4 DEF happened
  <2>2. ASSUME NEW i \in DOMAIN log' PROVE happened(log[i])'
    <3>1. happened(log[i])
      BY <1>4, <2>2 DEF Happened
    <3>2. PICK d : d = log[i]
      OBVIOUS
    <3>3. happened(d)' /\ d = log'[i]
      BY <1>1, <1>4, <3>1, <3>2
    <3> QED
      BY <3>3 DEF happened
  <2> QED
    BY <1>4, <2>1, <2>2 DEF Happened, happened
<1> QED
  BY <1>3, <1>4 DEF Wrote

-----------------------------------------------------------------------------
(***************************************************************************)
(* The brackets.                                                           *)
(***************************************************************************)
Brackets == {"run/start", "run/end"}

\* The brackets on record stay as they are.
SameBrackets ==
  /\ at(log', "run/start") = at(log, "run/start")
  /\ at(log', "run/end") = at(log, "run/end")
  /\ \A i \in DOMAIN log : log'[i] = log[i]
  /\ lost \subseteq lost'

LEMMA SameLogBrackets ==
  ASSUME log' = log, lost' = lost
  PROVE  SameBrackets
  BY DEF SameBrackets

LEMMA OtherBrackets ==
  ASSUME IsLog, NEW e, NEW x, Wrote(e, x), e.kind \notin Brackets
  PROVE  SameBrackets
<1>1. CASE log' = Append(log, e) /\ lost' = lost
  BY <1>1, Appended, AtAppended DEF SameBrackets, Brackets
<1>2. CASE log' = log /\ lost' = lost \cup {<<e.kind, x>>}
  BY <1>2 DEF SameBrackets
<1> QED
  BY <1>1, <1>2 DEF Wrote

\* A step that does not end, start or kill a graph run.
LEMMA TellsQuiet ==
  ASSUME plan' = plan, Happened, Tells, SameBrackets, overlapped' = overlapped,
         DOMAIN run_open' = DOMAIN run_open,
         \A q \in Runs : is_graph(q) =>
           state'[q] = state[q] /\ (q \in failed' <=> q \in failed)
  PROVE  Tells'
<1>1. Whole' => Whole
  BY DEF Whole, SameBrackets
<1>2. ASSUME NEW i \in at(log, "run/start"), TellsOf(i) PROVE TellsOf(i)'
  <2>1. log'[i] = log[i] /\ log[i].run \in Runs /\ is_graph(log[i].run)
    BY DEF SameBrackets, Happened, happened, at
  <2>2. behind(i)' = behind(i) /\ behind(i) \subseteq DOMAIN log
    BY DEF SameBrackets, behind, at
  <2>3. \A j \in behind(i) : log'[j] = log[j]
    BY <2>2 DEF SameBrackets
  <2> QED
    BY <1>2, <2>1, <2>2, <2>3 DEF TellsOf
<1>3. last(at(log', "run/start")) = last(at(log, "run/start"))
  BY DEF SameBrackets
<1>4. \A i \in last(at(log, "run/start")) : i \in at(log, "run/start") /\ log'[i] = log[i]
  BY DEF last, at, SameBrackets
<1> QED
  BY <1>1, <1>2, <1>3, <1>4 DEF Tells

\* A graph run that starts: nothing is behind its bracket yet.
LEMMA TellsStart ==
  ASSUME plan' = plan, IsLog, Happened, NEW r \in Runs, Wrote(run_start(r), r),
         state'[r] = "open", DOMAIN run_open' = DOMAIN run_open \cup {r},
         overlapped' = IF DOMAIN run_open = {} THEN overlapped
                       ELSE overlapped \cup DOMAIN run_open \cup {r}
  PROVE  Tells'
<1> SUFFICES ASSUME Whole' PROVE /\ \A i \in last(at(log', "run/start")) : TellsOf(i)'
                                 /\ \A g \in DOMAIN run_open' :
                                      \E i \in last(at(log', "run/start")) : log'[i].run = g
  BY DEF Tells
<1> DEFINE n == Len(log) + 1
<1>1. log' = Append(log, run_start(r))
  <2>1. lost' # lost \cup {<<"run/start", r>>}
    <3>1. <<"run/start", r>>[1] = "run/start"
      OBVIOUS
    <3> QED
      BY <3>1 DEF Whole
  <2> QED
    BY <2>1 DEF Wrote, run_start
<1>2. DOMAIN run_open' = {r}
  BY DEF Whole
<1>3. /\ n \in Nat /\ DOMAIN log = 1..Len(log) /\ Len(log) \in Nat
      /\ log'[n] = run_start(r)
      /\ at(log', "run/start") = at(log, "run/start") \cup {n}
      /\ at(log', "run/end") = at(log, "run/end")
  <2> DEFINE e == run_start(r)
  <2>1. e.kind = "run/start" /\ log' = Append(log, e)
    BY <1>1 DEF run_start
  <2> HIDE DEF e
  <2>2. /\ n \in Nat /\ DOMAIN log = 1..Len(log) /\ Len(log) \in Nat
        /\ log'[n] = e
        /\ at(log', "run/start") = at(log, "run/start") \cup {n}
        /\ at(log', "run/end") = at(log, "run/end")
    BY <2>1, Appended, AtAppended
  <2> QED
    BY <2>2 DEF e
<1>4. last(at(log', "run/start")) = {n}
  BY <1>3 DEF last, at
<1>5. \A j \in at(log', "run/end") : ~(j > n)
  BY <1>3 DEF at
<1>6. log'[n].run = r
  BY <1>3 DEF run_start
<1>7. ASSUME NEW i, i = n PROVE TellsOf(i)'
  BY <1>5, <1>6, <1>7 DEF TellsOf, behind
<1> QED
  BY <1>2, <1>4, <1>6, <1>7

\* A graph run that ends: the event is the one behind its bracket.
LEMMA TellsEnd ==
  ASSUME plan' = plan, IsLog, Happened, Life, Tells, NEW r \in Runs, NEW ok \in BOOLEAN,
         NEW steps, state[r] = "open",
         Wrote(run_end(r, IF ok THEN "completed" ELSE "error", steps), r),
         state'[r] = "over", r \in DOMAIN run_open, DOMAIN run_open' = DOMAIN run_open \ {r},
         \A g, h \in DOMAIN run_open : g # h => g \in overlapped,
         overlapped' = overlapped, failed' = IF ok THEN failed ELSE failed \cup {r}
  PROVE  Tells'
<1> DEFINE e == run_end(r, IF ok THEN "completed" ELSE "error", steps)
<1> SUFFICES ASSUME Whole' PROVE /\ \A i \in last(at(log', "run/start")) : TellsOf(i)'
                                 /\ \A g \in DOMAIN run_open' :
                                      \E i \in last(at(log', "run/start")) : log'[i].run = g
  BY DEF Tells
<1> DEFINE n == Len(log) + 1
<1>0. e.kind = "run/end" /\ e.status = IF ok THEN "completed" ELSE "error"
  BY DEF run_end
<1> HIDE DEF e
<1>1. log' = Append(log, e) /\ lost' = lost
  <2>1. lost' # lost \cup {<<"run/end", r>>}
    <3>1. <<"run/end", r>>[1] = "run/end"
      OBVIOUS
    <3> QED
      BY <3>1 DEF Whole
  <2> QED
    BY <2>1, <1>0 DEF Wrote, e
<1>2. Whole /\ DOMAIN run_open' = {}
  BY <1>1 DEF Whole
<1>3. /\ n \in Nat /\ DOMAIN log = 1..Len(log) /\ Len(log) \in Nat
      /\ log'[n] = e /\ \A i \in DOMAIN log : log'[i] = log[i]
      /\ at(log', "run/start") = at(log, "run/start")
      /\ at(log', "run/end") = at(log, "run/end") \cup {n}
  BY <1>0, <1>1, Appended, AtAppended
<1>4. r \notin failed
  BY DEF Life, LifeOf
<1>5. ASSUME NEW i \in last(at(log, "run/start")) PROVE TellsOf(i)'
  <2>1. i \in DOMAIN log /\ log'[i] = log[i] /\ TellsOf(i)
    BY <1>2, <1>3 DEF Tells, last, at
  <2>2. log[i].run = r
    <3>1. PICK k \in last(at(log, "run/start")) : log[k].run = r
      BY <1>2 DEF Tells
    <3>2. k = i
      BY <1>3, <3>1 DEF last, at
    <3> QED
      BY <3>1, <3>2
  <2>3. behind(i)' = {n}
    <3>1. behind(i) = {} /\ i < n
      BY <1>3, <2>1, <2>2 DEF TellsOf
    <3> QED
      BY <1>3, <3>1 DEF behind
  <2> QED
    BY <1>0, <1>3, <1>4, <2>1, <2>2, <2>3 DEF TellsOf
<1> QED
  BY <1>2, <1>3, <1>5

\* A crash: the open run died, and nothing is behind its bracket.
LEMMA TellsCrash ==
  ASSUME plan' = plan, Happened, Tells, state \in [Runs -> States], Crash
  PROVE  Tells'
<1>1. /\ (Whole' => Whole) /\ log' = log /\ failed' = failed /\ DOMAIN run_open' = {}
      /\ at(log', "run/end") = at(log, "run/end")
  BY NoEntry DEF Crash, Whole
<1>2. ASSUME NEW i \in at(log, "run/start"), TellsOf(i) PROVE TellsOf(i)'
  <2>1. log[i].run \in Runs /\ state[log[i].run] \notin {"new", "counting"}
    BY DEF Happened, happened, at
  <2>2. \/ state'[log[i].run] = state[log[i].run] /\ state[log[i].run] # "open"
        \/ state'[log[i].run] = "died" /\ state[log[i].run] = "open"
    BY <2>1 DEF Crash
  <2>3. behind(i)' = behind(i)
    BY <1>1 DEF behind
  <2> QED
    BY <1>1, <1>2, <2>2, <2>3 DEF TellsOf
<1>3. \A i \in last(at(log, "run/start")) : i \in at(log, "run/start")
  BY DEF last
<1> QED
  BY <1>1, <1>2, <1>3 DEF Tells

\* A repair: no run is open, and the last one has nothing behind its bracket.
LEMMA TellsRepair ==
  ASSUME Happened, Life, Kept, Tells, IsLog, Repair
  PROVE  Tells'
<1> DEFINE e == run_end(None, "interrupted", 0)
           n == Len(log) + 1
<1>0. e.kind = "run/end" /\ e.status = "interrupted" /\ log' = Append(log, e)
  BY DEF run_end, Repair
<1> HIDE DEF e
<1>1. /\ (Whole' => Whole) /\ failed' = failed /\ state' = state /\ run_open' = run_open
      /\ plan' = plan
  BY DEF Repair, Whole, history, handler
<1>2. /\ n \in Nat /\ DOMAIN log = 1..Len(log) /\ Len(log) \in Nat
      /\ log'[n] = e /\ \A i \in DOMAIN log : log'[i] = log[i]
      /\ at(log', "run/start") = at(log, "run/start")
      /\ at(log', "run/end") = at(log, "run/end") \cup {n}
  BY <1>0, Appended, AtAppended
<1>3. DOMAIN run_open = {}
  BY DEF Repair, Kept, KeptOf, Life, LifeOf, Under
<1>4. PICK k \in at(log, "run/start") : \A j \in at(log, "run/start") \cup at(log, "run/end") : j <= k
  BY DEF Repair, last, at
<1>5. ASSUME NEW i \in last(at(log, "run/start")), TellsOf(i) PROVE TellsOf(i)'
  <2>1. i \in at(log, "run/start") /\ i \in DOMAIN log /\ log'[i] = log[i]
    BY <1>2 DEF last, at
  <2>2. i = k /\ behind(i) = {}
    BY <1>2, <1>4, <2>1 DEF last, at, behind
  <2>3. state[log[i].run] \notin {"open", "over"}
    <3>1. log[i].run \in Runs
      BY <2>1 DEF Happened, happened, at
    <3> QED
      BY <1>5, <2>2, <3>1 DEF TellsOf, Repair, Life, LifeOf, Under
  <2>4. behind(i)' = {n}
    BY <1>2, <2>1, <2>2 DEF behind
  <2> QED
    BY <1>0, <1>1, <1>2, <2>1, <2>3, <2>4 DEF TellsOf
<1> QED
  BY <1>1, <1>2, <1>3, <1>5 DEF Tells

-----------------------------------------------------------------------------
(***************************************************************************)
(* The steps.                                                              *)
(***************************************************************************)
LEMMA Countable ==
  ASSUME plan \in Plans, IsLog, Finite, NEW g
  PROVE  /\ IsFiniteSet(EndsOf(g)) /\ IsFiniteSet(LostOf(g)) /\ IsFiniteSet(DueOf(g))
         /\ Cardinality(EndsOf(g)) \in Nat /\ Cardinality(LostOf(g)) \in Nat
         /\ Cardinality(DueOf(g)) \in Nat
<1>1. IsFiniteSet(DOMAIN log)
  <2>1. PICK S : log \in Seq(S)
    BY DEF IsLog
  <2>2. DOMAIN log = 1..Len(log) /\ Len(log) \in Nat
    BY <2>1
  <2> QED
    BY <2>2, FS_Interval
<1>2. EndsOf(g) \subseteq DOMAIN log /\ LostOf(g) \subseteq lost /\ DueOf(g) \subseteq Runs
  BY DEF EndsOf, LostOf, DueOf, at
<1>3. IsFiniteSet(Runs) /\ IsFiniteSet(lost)
  BY Parents DEF Finite
<1>4. IsFiniteSet(EndsOf(g)) /\ IsFiniteSet(LostOf(g)) /\ IsFiniteSet(DueOf(g))
  BY <1>1, <1>2, <1>3, FS_Subset
<1> QED
  BY <1>4, FS_CardinalityType

\* The node/ends on record and those that were lost stay as they are.
SameEnds ==
  /\ at(log', "node/end") = at(log, "node/end")
  /\ \A i \in DOMAIN log : log'[i] = log[i]
  /\ {x \in lost' : x[1] = "node/end"} = {x \in lost : x[1] = "node/end"}

LEMMA SameLogEnds ==
  ASSUME log' = log, lost' = lost
  PROVE  SameEnds
  BY DEF SameEnds

LEMMA OtherEnds ==
  ASSUME IsLog, NEW e, NEW x, Wrote(e, x), e.kind # "node/end"
  PROVE  SameEnds
<1>1. CASE log' = Append(log, e) /\ lost' = lost
  BY <1>1, Appended, AtAppended DEF SameEnds
<1>2. CASE log' = log /\ lost' = lost \cup {<<e.kind, x>>}
  <2>1. <<e.kind, x>>[1] # "node/end"
    OBVIOUS
  <2> QED
    BY <1>2, <2>1 DEF SameEnds
<1> QED
  BY <1>1, <1>2 DEF Wrote

LEMMA EndsStay ==
  ASSUME plan' = plan, strict' = strict, SameEnds, NEW g
  PROVE  EndsOf(g)' = EndsOf(g) /\ LostOf(g)' = LostOf(g)
<1>1. \A j \in at(log, "node/end") : log'[j] = log[j]
  BY DEF SameEnds, at
<1>2. EndsOf(g)' = EndsOf(g)
  BY <1>1, SamePlan DEF SameEnds, EndsOf
<1>3. LostOf(g)' = LostOf(g)
  BY SamePlan DEF SameEnds, LostOf
<1> QED
  BY <1>2, <1>3

\* The totals on record stay true when no other node ends.
LEMMA TotalStays ==
  ASSUME plan' = plan, strict' = strict, Total, SameEnds, overlapped \subseteq overlapped',
         at(log', "run/end") = at(log, "run/end")
  PROVE  Total'
<1>1. \A i \in at(log, "run/end") : log'[i] = log[i]
  BY DEF SameEnds, at
<1>2. ASSUME NEW g PROVE EndsOf(g)' = EndsOf(g) /\ LostOf(g)' = LostOf(g)
  BY EndsStay
<1>3. ASSUME NEW i \in at(log, "run/end"), NEW g, g = log'[i].run, g # None, g \notin overlapped'
      PROVE  log'[i].steps = Cardinality(EndsOf(g)') + Cardinality(LostOf(g)')
  <2>1. log'[i].steps = Cardinality(EndsOf(g)) + Cardinality(LostOf(g))
    BY <1>1, <1>3 DEF Total
  <2> QED
    BY <1>2, <2>1
<1> QED
  BY <1>3 DEF Total, EndsOf, LostOf

\* So does the count of every run that stays open.
LEMMA CountedStays ==
  ASSUME plan' = plan, strict' = strict, Counted, SameEnds, overlapped \subseteq overlapped',
         DOMAIN run_open' \subseteq DOMAIN run_open,
         \A g \in DOMAIN run_open' : run_open'[g] = run_open[g],
         \A r \in Runs : state'[r] = "counting" <=> state[r] = "counting"
  PROVE  Counted'
<1>1. ASSUME NEW g PROVE /\ EndsOf(g)' = EndsOf(g) /\ LostOf(g)' = LostOf(g)
                         /\ DueOf(g)' = DueOf(g)
  <2>1. DueOf(g)' = DueOf(g)
    BY SamePlan DEF DueOf
  <2> QED
    BY <2>1, EndsStay
<1> QED
  BY <1>1 DEF Counted

\* A graph run that starts: none of its nodes has run.
LEMMA CountedStart ==
  ASSUME plan \in Plans, plan' = plan, strict' = strict, Counted, SameEnds, Life, Happened,
         NEW r \in Runs, state[r] = "new", state' = [state EXCEPT ![r] = "open"],
         state \in [Runs -> States], run_open' = put(run_open, r, 0),
         overlapped' = IF DOMAIN run_open = {} THEN overlapped
                       ELSE overlapped \cup DOMAIN run_open \cup {r}
  PROVE  Counted'
<1> SUFFICES ASSUME NEW g \in DOMAIN run_open', g \notin overlapped'
             PROVE  run_open'[g] + Cardinality(DueOf(g)')
                      = Cardinality(EndsOf(g)') + Cardinality(LostOf(g)')
  BY DEF Counted
<1>1. g = r /\ run_open'[g] = 0
  <2>1. DOMAIN run_open' = DOMAIN run_open \cup {r}
    BY PutEntry
  <2>2. run_open'[r] = 0
    BY DEF put
  <2> QED
    BY <2>1, <2>2
<1>2. \A q \in Runs : state[q] # "new" => graph_of[q] # r
  BY Inside
<1>3. EndsOf(g)' = {}
  <2>1. EndsOf(g) = {}
    BY <1>1, <1>2 DEF EndsOf, at, Happened, happened
  <2> QED
    BY <2>1, EndsStay
<1>4. LostOf(g)' = {}
  <2>1. LostOf(g) = {}
    BY <1>1, <1>2 DEF LostOf, Happened
  <2> QED
    BY <2>1, EndsStay
<1>5. DueOf(g)' = {}
  BY <1>1, <1>2, SamePlan DEF DueOf
<1> QED
  BY <1>1, <1>3, <1>4, <1>5, FS_EmptySet

\* A graph run that ends: no step of it is still to be counted.
LEMMA TotalEnd ==
  ASSUME plan \in Plans, plan' = plan, strict' = strict, IsLog, Life, Finite, Counted, Total,
         SameEnds, overlapped' = overlapped, NEW r \in DOMAIN run_open, r \in Runs,
         run_open[r] \in Nat, state[r] = "open",
         \A q \in Runs : run(q).parent = r => state[q] \notin Under,
         NEW status, Wrote(run_end(r, status, run_open[r]), r)
  PROVE  Total'
<1> DEFINE e == run_end(r, status, run_open[r])
           n == Len(log) + 1
<1>0. e.kind = "run/end" /\ e.run = r /\ e.steps = run_open[r]
  BY DEF run_end
<1>1. DueOf(r) = {}
  BY Inside DEF DueOf, Under
<1>2. r \notin overlapped => run_open[r] = Cardinality(EndsOf(r)) + Cardinality(LostOf(r))
  BY <1>1, FS_EmptySet DEF Counted
<1> HIDE DEF e
<1>3. ASSUME NEW g PROVE EndsOf(g)' = EndsOf(g) /\ LostOf(g)' = LostOf(g)
  BY EndsStay
<1>4. CASE log' = log
  BY <1>4, TotalStays
<1>5. CASE log' = Append(log, e)
  <2>1. /\ n \in Nat /\ log'[n] = e /\ \A i \in DOMAIN log : log'[i] = log[i]
        /\ at(log', "run/end") = at(log, "run/end") \cup {n}
    BY <1>0, <1>5, Appended, AtAppended
  <2>2. ASSUME NEW i \in at(log', "run/end"), NEW g, g = log'[i].run, g # None,
               g \notin overlapped
        PROVE  log'[i].steps = Cardinality(EndsOf(g)') + Cardinality(LostOf(g)')
    <3>1. CASE i = n
      <4>1. g = r /\ log'[i].steps = run_open[r]
        BY <1>0, <2>1, <2>2, <3>1
      <4> QED
        BY <1>2, <1>3, <2>2, <4>1
    <3>2. CASE i \in at(log, "run/end")
      <4>1. log'[i] = log[i]
        BY <2>1, <3>2 DEF at
      <4>2. log'[i].steps = Cardinality(EndsOf(g)) + Cardinality(LostOf(g))
        BY <2>2, <3>2, <4>1 DEF Total
      <4> QED
        BY <1>3, <4>2
    <3> QED
      BY <2>1, <3>1, <3>2
  <2> QED
    BY <2>2 DEF Total, EndsOf, LostOf
<1> QED
  BY <1>4, <1>5 DEF Wrote, e

\* A node that ends: one more node/end of its graph run, on record or lost, and
\* one more step to count; or a strict recorder raised, and neither.
LEMMA CountedNode ==
  ASSUME plan \in Plans, plan' = plan, strict' = strict, strict \in BOOLEAN, IsLog, Life,
         Finite, Happened, Counted, state \in [Runs -> States], overlapped' = overlapped,
         run_open' = run_open, \A g \in DOMAIN run_open : run_open[g] \in Nat,
         NEW r \in Runs, state[r] = "open", NEW node, NEW ok,
         Wrote(node_end(r, node, ok), r),
         state' = [state EXCEPT ![r] = IF raised THEN "over" ELSE "counting"], Finite'
  PROVE  Counted'
<1> SUFFICES ASSUME NEW g \in DOMAIN run_open, g \notin overlapped
             PROVE  run_open[g] + Cardinality(DueOf(g)')
                      = Cardinality(EndsOf(g)') + Cardinality(LostOf(g)')
  BY DEF Counted
<1> DEFINE e == node_end(r, node, ok)
           x == <<"node/end", r>>
           n == Len(log) + 1
<1>0. e.kind = "node/end" /\ e.run = r /\ x[1] = "node/end" /\ x[2] = r
  BY DEF node_end
<1>1. x \notin lost
  BY <1>0 DEF Happened
<1>2. Wrote(e, r) /\ \A q \in Runs \ {r} : state'[q] = state[q]
  OBVIOUS
<1>3. r \notin DueOf(g) /\ Len(log) \in Nat /\ n \notin EndsOf(g)
  <2>1. PICK S : log \in Seq(S)
    BY DEF IsLog
  <2> QED
    BY <2>1 DEF DueOf, EndsOf, at
<1>4. run_open[g] + Cardinality(DueOf(g)) = Cardinality(EndsOf(g)) + Cardinality(LostOf(g))
  BY DEF Counted
<1> HIDE DEF e, x
<1>5. /\ IsFiniteSet(EndsOf(g)) /\ IsFiniteSet(LostOf(g)) /\ IsFiniteSet(DueOf(g))
      /\ Cardinality(EndsOf(g)) \in Nat /\ Cardinality(LostOf(g)) \in Nat
      /\ Cardinality(DueOf(g)) \in Nat /\ run_open[g] \in Nat
  BY Countable
<1>6. CASE log' = Append(log, e) /\ lost' = lost
  <2>1. state'[r] = "counting" /\ LostOf(g)' = LostOf(g)
    BY <1>6, SamePlan DEF raised, LostOf
  <2>2. /\ log'[n] = e /\ \A i \in DOMAIN log : log'[i] = log[i]
        /\ at(log', "node/end") = at(log, "node/end") \cup {n}
    BY <1>0, <1>6, Appended, AtAppended
  <2>3. CASE graph_of[r] = g
    <3>1. DueOf(g)' = DueOf(g) \cup {r}
      BY <1>2, <2>1, <2>3, SamePlan DEF DueOf
    <3>2. EndsOf(g)' = EndsOf(g) \cup {n}
      BY <1>0, <2>2, <2>3, SamePlan DEF EndsOf, at
    <3>3. /\ Cardinality(DueOf(g)') = Cardinality(DueOf(g)) + 1
          /\ Cardinality(EndsOf(g)') = Cardinality(EndsOf(g)) + 1
      BY <1>3, <1>5, <3>1, <3>2, FS_AddElement
    <3> QED
      BY <1>4, <1>5, <2>1, <3>3
  <2>4. CASE graph_of[r] # g
    <3>1. DueOf(g)' = DueOf(g)
      BY <1>2, <2>1, <2>4, <1>3, SamePlan DEF DueOf
    <3>2. EndsOf(g)' = EndsOf(g)
      BY <1>0, <2>2, <2>4, SamePlan DEF EndsOf, at
    <3> QED
      BY <1>4, <2>1, <3>1, <3>2
  <2> QED
    BY <2>3, <2>4
<1>7. CASE log' = log /\ lost' = lost \cup {x}
  <2>1. EndsOf(g)' = EndsOf(g) /\ lost' # lost
    BY <1>1, <1>7, SamePlan DEF EndsOf, x
  <2>2. CASE strict \/ graph_of[r] # g
    <3>1. LostOf(g)' = LostOf(g)
      BY <1>0, <1>7, <2>2, SamePlan DEF LostOf
    <3>2. DueOf(g)' = DueOf(g)
      BY <1>2, <1>3, <2>1, <2>2, SamePlan DEF DueOf, raised
    <3> QED
      BY <1>4, <2>1, <3>1, <3>2
  <2>3. CASE ~strict /\ graph_of[r] = g
    <3>1. LostOf(g)' = LostOf(g) \cup {x} /\ x \notin LostOf(g)
      BY <1>0, <1>1, <1>7, <2>3, SamePlan DEF LostOf
    <3>2. DueOf(g)' = DueOf(g) \cup {r}
      BY <1>2, <2>3, SamePlan DEF DueOf, raised
    <3>3. /\ Cardinality(DueOf(g)') = Cardinality(DueOf(g)) + 1
          /\ Cardinality(LostOf(g)') = Cardinality(LostOf(g)) + 1
      BY <1>3, <1>5, <3>1, <3>2, FS_AddElement
    <3> QED
      BY <1>4, <1>5, <2>1, <3>3
  <2> QED
    BY <2>2, <2>3
<1> QED
  BY <1>0, <1>2, <1>6, <1>7 DEF Wrote, x

\* The totals on record are of runs that are over: the node is in none of them.
LEMMA TotalNode ==
  ASSUME plan \in Plans, plan' = plan, strict' = strict, IsLog, Life, Happened, Total,
         overlapped' = overlapped, NEW r \in Runs, state[r] = "open",
         NEW node, NEW ok, Wrote(node_end(r, node, ok), r)
  PROVE  Total'
<1> DEFINE e == node_end(r, node, ok)
           x == <<"node/end", r>>
<1>0. e.kind = "node/end" /\ e.run = r /\ x[1] = "node/end" /\ x[2] = r
  BY DEF node_end
<1>1. state[graph_of[r]] = "open"
  BY Inside DEF Under
<1> HIDE DEF e, x
<1>2. ASSUME NEW g, g # graph_of[r] PROVE EndsOf(g)' = EndsOf(g) /\ LostOf(g)' = LostOf(g)
  <2>1. CASE log' = Append(log, e) /\ lost' = lost
    <3>1. /\ log'[Len(log) + 1] = e /\ \A i \in DOMAIN log : log'[i] = log[i]
          /\ at(log', "node/end") = at(log, "node/end") \cup {Len(log) + 1}
          /\ Len(log) + 1 \notin DOMAIN log
      BY <1>0, <2>1, Appended, AtAppended
    <3>2. EndsOf(g)' = EndsOf(g)
      BY <1>0, <1>2, <3>1, SamePlan DEF EndsOf, at
    <3> QED
      BY <2>1, <3>2, SamePlan DEF LostOf
  <2>2. CASE log' = log /\ lost' = lost \cup {x}
    BY <1>0, <1>2, <2>2, SamePlan DEF EndsOf, LostOf
  <2> QED
    BY <1>0, <2>1, <2>2 DEF Wrote, e, x
<1>3. /\ at(log', "run/end") = at(log, "run/end")
      /\ \A i \in DOMAIN log : log'[i] = log[i]
  BY <1>0, Appended, AtAppended DEF Wrote, e
<1>4. ASSUME NEW i \in at(log, "run/end"), NEW g, g = log'[i].run, g # None, g \notin overlapped
      PROVE  log'[i].steps = Cardinality(EndsOf(g)') + Cardinality(LostOf(g)')
  <2>1. log'[i] = log[i] /\ happened(log[i]) /\ log[i].kind = "run/end"
    BY <1>3 DEF at, Happened
  <2>2. log'[i].steps = Cardinality(EndsOf(g)) + Cardinality(LostOf(g))
    BY <1>4, <2>1 DEF Total
  <2>3. g # graph_of[r]
    BY <1>1, <1>4, <2>1 DEF happened
  <2> QED
    BY <1>2, <2>2, <2>3
<1> QED
  BY <1>3, <1>4 DEF Total, EndsOf, LostOf

\* A step that is counted: the one graph run that is open beside no other is the
\* one the node belongs to.
LEMMA CountedStep ==
  ASSUME NodesInGraphs, plan \in Plans, IsLog, Life, Finite, Kept, Beside, Counted,
         state \in [Runs -> States], \A g \in DOMAIN run_open : run_open[g] \in Nat,
         NEW r \in Runs, count_step(r)
  PROVE  Counted'
<1> SUFFICES ASSUME NEW g \in DOMAIN run_open, g \notin overlapped
             PROVE  run_open'[g] + Cardinality(DueOf(g)')
                      = Cardinality(EndsOf(g)') + Cardinality(LostOf(g)')
  BY DEF Counted, count_step, history
<1>0. DOMAIN run_open = {g}
  BY DEF Beside
<1>1. /\ plan' = plan /\ strict' = strict /\ log' = log /\ lost' = lost
      /\ state[r] = "counting" /\ state' = [state EXCEPT ![r] = "over"]
      /\ run_open'[g] = run_open[g] + 1
  BY <1>0 DEF count_step, over
<1>2. is_graph(graph_of[r]) /\ graph_of[r] # r
  <2>1. graph_of[r] \in Runs /\ run(graph_of[r]).parent = None
    BY <1>1, Inside
  <2>2. is_node(r)
    BY <1>1 DEF Life, LifeOf
  <2>3. graph_of[r] # r
    BY <2>1, <2>2 DEF NodesInGraphs, is_node, run, Runs
  <2>4. \E q \in Runs : run(q).parent = graph_of[r]
    BY <1>1, <2>3, Inside DEF Under
  <2> QED
    BY <2>1, <2>3, <2>4 DEF NodesInGraphs, is_graph, run, Runs
<1>3. graph_of[r] \in Runs /\ state[graph_of[r]] = "open"
  BY <1>1, <1>2, Inside DEF Under
<1>4. graph_of[r] = g
  BY <1>2, <1>3 DEF Kept, KeptOf, Beside
<1>5. DueOf(g)' = DueOf(g) \ {r} /\ r \in DueOf(g)
  BY <1>1, <1>4, SamePlan DEF DueOf
<1>6. EndsOf(g)' = EndsOf(g) /\ LostOf(g)' = LostOf(g)
  BY <1>1, SameLogEnds, EndsStay
<1>7. Cardinality(DueOf(g)') = Cardinality(DueOf(g)) - 1
  BY <1>5, Countable, FS_RemoveElement
<1>8. run_open[g] + Cardinality(DueOf(g)) = Cardinality(EndsOf(g)) + Cardinality(LostOf(g))
  BY DEF Counted
<1>9. run_open[g] \in Nat /\ Cardinality(DueOf(g)) \in Nat
  BY Countable
<1> QED
  BY <1>1, <1>6, <1>7, <1>8, <1>9

-----------------------------------------------------------------------------
(***************************************************************************)
(* The bound on the steps.                                                 *)
(***************************************************************************)
LEMMA NodesFinite ==
  ASSUME plan \in Plans, NEW S
  PROVE  IsFiniteSet(Nodes(S)) /\ Cardinality(Nodes(S)) \in Nat
  BY Parents, FS_Subset, FS_CardinalityType DEF Nodes

\* No node is closed or counted.
LEMMA BoundedStays ==
  ASSUME plan' = plan, Bounded, DOMAIN run_open' \subseteq DOMAIN run_open,
         \A g \in DOMAIN run_open' : run_open'[g] = run_open[g],
         \A r \in Runs : is_node(r) => \A s \in {"counting", "over"} : state'[r] = s <=> state[r] = s
  PROVE  Bounded'
<1>1. /\ Nodes({"counting"})' = Nodes({"counting"})
      /\ Nodes({"counting", "over"})' = Nodes({"counting", "over"})
  BY SamePlan DEF Nodes
<1> QED
  BY <1>1 DEF Bounded

\* A graph run that starts has counted nothing.
LEMMA BoundedStart ==
  ASSUME plan \in Plans, plan' = plan, Bounded, NEW r \in Runs, ~is_node(r),
         state' = [state EXCEPT ![r] = "open"], state \in [Runs -> States],
         run_open' = put(run_open, r, 0)
  PROVE  Bounded'
<1>1. /\ Nodes({"counting"})' = Nodes({"counting"})
      /\ Nodes({"counting", "over"})' = Nodes({"counting", "over"})
  BY SamePlan DEF Nodes
<1>2. Cardinality(Nodes({"counting"})) <= Cardinality(Nodes({"counting", "over"}))
  <2>1. Nodes({"counting"}) \subseteq Nodes({"counting", "over"})
    BY DEF Nodes
  <2> QED
    BY <2>1, NodesFinite, FS_Subset
<1>3. /\ Cardinality(Nodes({"counting"})) \in Nat
      /\ Cardinality(Nodes({"counting", "over"})) \in Nat
  BY NodesFinite
<1>4. DOMAIN run_open' = DOMAIN run_open \cup {r}
  BY PutEntry
<1>5. \A g \in DOMAIN run_open' : run_open'[g] = IF g = r THEN 0 ELSE run_open[g]
  BY DEF put
<1>6. ASSUME NEW g \in DOMAIN run_open'
      PROVE  /\ run_open'[g] \in Nat
             /\ run_open'[g] + Cardinality(Nodes({"counting"})) <= Cardinality(Nodes({"counting", "over"}))
  BY <1>2, <1>3, <1>4, <1>5 DEF Bounded
<1> QED
  BY <1>1, <1>6 DEF Bounded

\* A node that ends is one more to count, or counted at once as none.
LEMMA BoundedNode ==
  ASSUME plan \in Plans, plan' = plan, Bounded, NEW r \in Runs, is_node(r),
         state \in [Runs -> States], state[r] = "open", run_open' = run_open,
         NEW s \in {"counting", "over"}, state' = [state EXCEPT ![r] = s]
  PROVE  Bounded'
<1> DEFINE A == Nodes({"counting"})
           B == Nodes({"counting", "over"})
<1>1. r \notin A /\ r \notin B
  BY DEF Nodes
<1>2. Nodes({"counting", "over"})' = B \cup {r}
  BY SamePlan DEF Nodes
<1>3. Nodes({"counting"})' = IF s = "counting" THEN A \cup {r} ELSE A
  BY SamePlan DEF Nodes
<1>4. IsFiniteSet(A) /\ IsFiniteSet(B) /\ Cardinality(A) \in Nat /\ Cardinality(B) \in Nat
  BY NodesFinite
<1> HIDE DEF A, B
<1>a. Cardinality(A \cup {r}) = Cardinality(A) + 1 /\ Cardinality(B \cup {r}) = Cardinality(B) + 1
  BY <1>1, <1>4, FS_AddElement
<1>5. /\ Cardinality(Nodes({"counting", "over"})') = Cardinality(B) + 1
      /\ Cardinality(Nodes({"counting"})') <= Cardinality(A) + 1
      /\ Cardinality(Nodes({"counting"})') \in Nat
  BY <1>2, <1>3, <1>4, <1>a
<1>6. \A g \in DOMAIN run_open : run_open[g] \in Nat /\ run_open[g] + Cardinality(A) <= Cardinality(B)
  BY DEF Bounded, A, B
<1> QED
  BY <1>4, <1>5, <1>6 DEF Bounded

\* A step that is counted is not due any more.
LEMMA BoundedStep ==
  ASSUME plan \in Plans, Bounded, Life, state \in [Runs -> States],
         NEW r \in Runs, count_step(r)
  PROVE  Bounded'
<1> DEFINE A == Nodes({"counting"})
           B == Nodes({"counting", "over"})
<1>1. /\ plan' = plan /\ state[r] = "counting" /\ state' = [state EXCEPT ![r] = "over"]
      /\ DOMAIN run_open' = DOMAIN run_open /\ is_node(r)
      /\ \A g \in DOMAIN run_open : run_open'[g] \in {run_open[g], run_open[g] + 1}
  BY DEF count_step, over, Life, LifeOf
<1>2. /\ Nodes({"counting", "over"})' = B
      /\ Nodes({"counting"})' = A \ {r} /\ r \in A
  BY <1>1, SamePlan DEF Nodes
<1>3. IsFiniteSet(A) /\ Cardinality(A) \in Nat /\ Cardinality(B) \in Nat
  BY NodesFinite
<1> HIDE DEF A, B
<1>4. Cardinality(Nodes({"counting"})') = Cardinality(A) - 1
  BY <1>2, <1>3, FS_RemoveElement
<1>5. \A g \in DOMAIN run_open : run_open[g] \in Nat /\ run_open[g] + Cardinality(A) <= Cardinality(B)
  BY DEF Bounded, A, B
<1> QED
  BY <1>1, <1>2, <1>3, <1>4, <1>5 DEF Bounded

-----------------------------------------------------------------------------
(***************************************************************************)
(* Every step keeps the invariant.                                         *)
(***************************************************************************)
LEMMA HInvInit == Init => HInv
<1> SUFFICES ASSUME Init PROVE HInv
  OBVIOUS
<1>1. /\ plan \in Plans /\ strict \in BOOLEAN /\ alive \in BOOLEAN /\ log = <<>> /\ run_open = <<>> /\ lost = {} /\ failed = {}
      /\ overlapped = {} /\ crashes = 0 /\ \A r \in Runs : state[r] = "new"
  BY DEF Init
<1>2. DOMAIN log = {} /\ DOMAIN run_open = {}
  BY <1>1, NoEntry
<1>3. Life /\ Beside /\ Happened
  BY <1>1, <1>2 DEF Life, LifeOf, Under, Beside, Happened
<1>4. at(log, "run/start") = {} /\ at(log, "run/end") = {}
  BY <1>2 DEF at
<1>5. Tells /\ Counted /\ Total /\ Bounded
  BY <1>2, <1>4 DEF Tells, Counted, Total, Bounded, last
<1>6. Finite
  BY <1>1, FS_EmptySet, PlansAssumption DEF Finite
<1> QED
  BY <1>1, <1>3, <1>5, <1>6 DEF HInv

LEMMA FiniteStep ==
  ASSUME Finite, NEW x, lost' \subseteq lost \cup {x}, NEW r, failed' \subseteq failed \cup {r},
         crashes' = crashes \/ crashes' \in 0..MaxTrouble
  PROVE  Finite'
<1>1. IsFiniteSet(lost \cup {x}) /\ IsFiniteSet(failed \cup {r})
  BY FS_AddElement DEF Finite
<1> QED
  BY <1>1, FS_Subset DEF Finite

LEMMA MoveForward ==
  ASSUME state \in [Runs -> States], NEW r \in Runs, NEW s \in {"open", "counting", "over"},
         state' = [state EXCEPT ![r] = s],
         s = "open" => state[r] = "new",
         s # "open" => state[r] \in Under,
         s = "counting" => ~is_graph(r)
  PROVE  Forward
  BY DEF Forward, Under

\* What every handler leaves as it is.
Same == plan' = plan /\ strict' = strict /\ alive' = alive /\ crashes' = crashes

LEMMA GraphStart ==
  ASSUME IInv, HInv, NEW r \in Runs, on_chain_start(r), is_graph(r)
  PROVE  HInv'
<1>1. /\ Same /\ alive /\ failed' = failed /\ state[r] = "new"
      /\ state' = [state EXCEPT ![r] = "open"]
      /\ run(r).parent # None => state[run(r).parent] = "open"
      /\ run_open' = put(run_open, r, 0) /\ ~is_node(r)
      /\ Wrote(run_start(r), r)
      /\ overlapped' = IF DOMAIN run_open = {} THEN overlapped
                       ELSE overlapped \cup DOMAIN run_open \cup {r}
  BY EmitWrote DEF on_chain_start, begins, Same, is_graph, is_node
<1>2. DOMAIN run_open' = DOMAIN run_open \cup {r}
  <2>1. DOMAIN put(run_open, r, 0) = DOMAIN run_open \cup {r}
    BY PutEntry
  <2> QED
    BY <1>1, <2>1
<1>3. state \in [Runs -> States] /\ Kept /\ IsLog
  BY DEF IInv
<1>4. run_start(r).kind = "run/start" /\ run_start(r).run = r
  BY DEF run_start
<1>5. Life'
  BY <1>1, <1>3, LifeMove DEF HInv, Same
<1>6. Beside'
  BY <1>1, <1>2, SamePlan DEF HInv, Beside, Kept, IInv, Same
<1>7. Happened'
  <2>1. happened(run_start(r))'
    BY <1>1, <1>3, <1>4, SamePlan DEF happened, Kinds, Same
  <2>2. Forward
    BY <1>1, <1>3, MoveForward DEF Under
  <2> QED
    BY <1>1, <1>3, <1>4, <2>1, <2>2, HappenedWrote DEF HInv, Same
<1>8. Tells'
  <2>1. state'[r] = "open"
    BY <1>1, <1>3
  <2> QED
    BY <1>1, <1>2, <1>3, <2>1, TellsStart DEF HInv, Same
<1>9. Finite'
  BY <1>1, FiniteStep DEF HInv, Wrote, Same
<1>10. SameEnds
  BY <1>1, <1>3, <1>4, OtherEnds
<1>11. NodesInGraphs => Counted'
  BY <1>1, <1>3, <1>10, CountedStart DEF HInv, Same
<1>12. NodesInGraphs => Total'
  <2>1. at(log', "run/end") = at(log, "run/end")
    BY <1>1, <1>3, <1>4, AtAppended DEF Wrote
  <2> QED
    BY <1>1, <1>10, <2>1, TotalStays DEF HInv, Same
<1>13. Bounded'
  BY <1>1, <1>3, BoundedStart DEF HInv, Same
<1> QED
  BY <1>1, <1>5, <1>6, <1>7, <1>8, <1>9, <1>11, <1>12, <1>13 DEF HInv, Same

\* A run that is no graph starts, or one that is no graph and no node ends: its
\* event is neither a bracket nor a node/end.
LEMMA OtherStart ==
  ASSUME IInv, HInv, NEW r \in Runs,
         on_chain_start(r) \/ on_llm_start(r) \/ on_tool_start(r), ~is_graph(r)
  PROVE  HInv'
<1>1. /\ Same /\ alive /\ failed' = failed /\ state[r] = "new"
      /\ state' = [state EXCEPT ![r] = "open"]
      /\ run(r).parent # None => state[run(r).parent] = "open"
      /\ overlapped' = overlapped /\ run_open' = run_open
  BY DEF on_chain_start, on_llm_start, on_tool_start, begins, Same, is_graph, is_node
<1>2. \/ log' = log /\ lost' = lost
      \/ \E e : Wrote(e, r) /\ e.kind \in {"node/start", "tool/call"}
  <2>1. ASSUME NEW node, emit(node_start(r, node), r)
        PROVE  \E e : Wrote(e, r) /\ e.kind \in {"node/start", "tool/call"}
    <3>1. Wrote(node_start(r, node), r) /\ node_start(r, node).kind = "node/start"
      BY <2>1, EmitWrote DEF node_start
    <3> QED
      BY <3>1
  <2>2. ASSUME NEW label, emit(tool_call(r, label), r)
        PROVE  \E e : Wrote(e, r) /\ e.kind \in {"node/start", "tool/call"}
    <3>1. Wrote(tool_call(r, label), r) /\ tool_call(r, label).kind = "tool/call"
      BY <2>2, EmitWrote DEF tool_call
    <3> QED
      BY <3>1
  <2> QED
    BY <2>1, <2>2 DEF on_chain_start, on_llm_start, on_tool_start
<1>3. state \in [Runs -> States] /\ Kept /\ IsLog
  BY DEF IInv
<1>4. Life'
  BY <1>1, <1>3, LifeMove DEF HInv, Same
<1>5. Beside' /\ Forward
  BY <1>1, <1>3, SamePlan, MoveForward DEF HInv, Beside, Same, Under
<1>6. SameBrackets /\ SameEnds /\ Happened' /\ \E x : lost' \subseteq lost \cup {x}
  <2>1. CASE log' = log /\ lost' = lost
    BY <1>1, <1>5, <2>1, SameLogBrackets, SameLogEnds, HappenedStays DEF HInv, Same
  <2>2. ASSUME NEW e, Wrote(e, r), e.kind \in {"node/start", "tool/call"}
        PROVE  SameBrackets /\ SameEnds /\ Happened' /\ \E x : lost' \subseteq lost \cup {x}
    <3>1. SameBrackets /\ SameEnds
      BY <1>3, <2>2, OtherBrackets, OtherEnds DEF Brackets
    <3>2. happened(e)'
      BY <2>2 DEF happened, Kinds
    <3>3. Happened'
      BY <1>1, <1>3, <1>5, <2>2, <3>2, HappenedWrote DEF HInv, Same
    <3>4. \E x : lost' \subseteq lost \cup {x}
      BY <2>2 DEF Wrote
    <3> QED
      BY <3>1, <3>3, <3>4
  <2> QED
    BY <1>2, <2>1, <2>2
<1>7. Tells'
  <2>1. \A q \in Runs : is_graph(q) => state'[q] = state[q]
    BY <1>1, <1>3
  <2> QED
    BY <1>1, <1>6, <2>1, TellsQuiet DEF HInv, Same
<1>8. Finite'
  BY <1>1, <1>6, FiniteStep DEF HInv, Same
<1>9. NodesInGraphs => Counted' /\ Total'
  <2>1. \A q \in Runs : state'[q] = "counting" <=> state[q] = "counting"
    BY <1>1, <1>3
  <2> QED
    BY <1>1, <1>6, <2>1, CountedStays, TotalStays DEF HInv, Same, SameBrackets
<1>10. Bounded'
  <2>1. \A q \in Runs : \A s \in {"counting", "over"} : state'[q] = s <=> state[q] = s
    BY <1>1, <1>3
  <2> QED
    BY <1>1, <2>1, BoundedStays DEF HInv, Same
<1> QED
  BY <1>1, <1>4, <1>5, <1>6, <1>7, <1>8, <1>9, <1>10 DEF HInv, Same

LEMMA Ends ==
  ASSUME NEW r \in Runs, NEW ok, ends(r, ok)
  PROVE  /\ Same /\ alive /\ state[r] = "open" /\ overlapped' = overlapped
         /\ \A q \in Runs : run(q).parent = r => state[q] \notin Under
         /\ failed' = IF ok THEN failed ELSE failed \cup {r}
  BY DEF ends, Same, Under

\* A graph run ends.
LEMMA GraphEnd ==
  ASSUME IInv, HInv, NEW r \in Runs, NEW ok \in BOOLEAN, ends(r, ok), r \in DOMAIN run_open,
         close_run(r, ok)
  PROVE  HInv'
<1> DEFINE status == IF ok THEN "completed" ELSE "error"
<1>1. /\ Same /\ alive /\ state[r] = "open" /\ overlapped' = overlapped
      /\ \A q \in Runs : run(q).parent = r => state[q] \notin Under
      /\ failed' = IF ok THEN failed ELSE failed \cup {r}
  BY Ends
<1>2. /\ run_open' = pop(run_open, r) /\ state' = [state EXCEPT ![r] = "over"]
      /\ Wrote(run_end(r, status, run_open[r]), r)
  BY EmitWrote DEF close_run, over
<1>3. /\ DOMAIN run_open' = DOMAIN run_open \ {r}
      /\ \A g \in DOMAIN run_open' : run_open'[g] = run_open[g]
  <2>1. /\ DOMAIN pop(run_open, r) = DOMAIN run_open \ {r}
        /\ \A g \in DOMAIN pop(run_open, r) : pop(run_open, r)[g] = run_open[g]
    BY PopEntry
  <2> QED
    BY <1>2, <2>1
<1>4. /\ state \in [Runs -> States] /\ Kept /\ IsLog /\ is_graph(r) /\ ~is_node(r)
      /\ run_open[r] \in Nat
  BY DEF IInv, HInv, Kept, KeptOf, Bounded, is_graph, is_node
<1>5. run_end(r, status, run_open[r]).kind = "run/end" /\ run_end(r, status, run_open[r]).run = r
  BY DEF run_end
<1>6. Life'
  BY <1>1, <1>2, <1>4, LifeMove DEF HInv, Same, Under
<1>7. Beside'
  BY <1>1, <1>3, SamePlan DEF HInv, Beside, Same
<1>8. Happened'
  <2>1. PICK e : e = run_end(r, status, run_open[r])
    OBVIOUS
  <2>2. e.kind = "run/end" /\ e.run = r /\ state'[r] = "over" /\ Wrote(e, r)
    BY <1>2, <1>4, <1>5, <2>1
  <2>3. happened(e)'
    BY <1>1, <2>2, SamePlan DEF happened, Kinds, Same
  <2>4. Forward
    BY <1>1, <1>2, <1>4, MoveForward DEF Under
  <2> QED
    BY <1>1, <1>4, <2>2, <2>3, <2>4, HappenedWrote DEF HInv, Same
<1>9. Tells'
  <2>1. state'[r] = "over"
    BY <1>2, <1>4
  <2> QED
    BY <1>1, <1>2, <1>3, <1>4, <2>1, TellsEnd DEF HInv, Beside, Same
<1>10. Finite'
  <2>1. lost' \subseteq lost \cup {<<"run/end", r>>}
    BY <1>2, <1>5 DEF Wrote
  <2>2. failed' \subseteq failed \cup {r}
    BY <1>1
  <2> QED
    BY <1>1, <2>1, <2>2, FiniteStep DEF HInv, Same
<1>11. SameEnds
  BY <1>2, <1>4, <1>5, OtherEnds
<1>12. NodesInGraphs => Counted'
  <2>1. \A q \in Runs : state'[q] = "counting" <=> state[q] = "counting"
    BY <1>1, <1>2, <1>4
  <2> QED
    BY <1>1, <1>3, <1>11, <2>1, CountedStays DEF HInv, Same
<1>13. NodesInGraphs => Total'
  BY <1>1, <1>2, <1>4, <1>11, TotalEnd DEF HInv, Same
<1>14. Bounded'
  <2>1. \A q \in Runs : is_node(q) =>
          \A s \in {"counting", "over"} : state'[q] = s <=> state[q] = s
    BY <1>2, <1>4
  <2> QED
    BY <1>1, <1>3, <2>1, BoundedStays DEF HInv, Same
<1> QED
  BY <1>1, <1>6, <1>7, <1>8, <1>9, <1>10, <1>12, <1>13, <1>14 DEF HInv, Same

\* A node ends.
LEMMA NodeEnd ==
  ASSUME IInv, HInv, NEW r \in Runs, NEW ok \in BOOLEAN, ends(r, ok),
         r \in DOMAIN node_open, close_node(r, ok)
  PROVE  HInv'
<1>1. /\ Same /\ alive /\ state[r] = "open" /\ overlapped' = overlapped
      /\ \A q \in Runs : run(q).parent = r => state[q] \notin Under
      /\ failed' = IF ok THEN failed ELSE failed \cup {r}
  BY Ends
<1>2. /\ run_open' = run_open /\ Wrote(node_end(r, node_open[r], ok), r)
      /\ state' = [state EXCEPT ![r] = IF raised THEN "over" ELSE "counting"]
  BY EmitWrote DEF close_node
<1>3. PICK s \in {"counting", "over"} : state' = [state EXCEPT ![r] = s]
  BY <1>2
<1>4. state \in [Runs -> States] /\ Kept /\ IsLog /\ is_node(r) /\ ~is_graph(r)
  BY DEF IInv, Kept, KeptOf, is_graph, is_node
<1>5. PICK e : e = node_end(r, node_open[r], ok)
  OBVIOUS
<1>6. e.kind = "node/end" /\ e.run = r /\ Wrote(e, r)
  BY <1>2, <1>5 DEF node_end
<1>7. Life'
  BY <1>1, <1>3, <1>4, LifeMove DEF HInv, Same, Under
<1>8. Beside'
  BY <1>1, <1>2, SamePlan DEF HInv, Beside, Same
<1>9. Happened'
  <2>1. happened(e)'
    BY <1>1, <1>3, <1>4, <1>6, SamePlan DEF happened, Kinds, Same
  <2>2. Forward
    BY <1>1, <1>3, <1>4, MoveForward DEF Under
  <2> QED
    BY <1>1, <1>4, <1>6, <2>1, <2>2, HappenedWrote DEF HInv, Same
<1>10. Tells'
  <2>1. \A q \in Runs : is_graph(q) =>
          state'[q] = state[q] /\ (q \in failed' <=> q \in failed)
    BY <1>1, <1>3, <1>4
  <2>2. SameBrackets
    BY <1>4, <1>6, OtherBrackets DEF Brackets
  <2> QED
    BY <1>1, <1>2, <2>1, <2>2, TellsQuiet DEF HInv, Same
<1>11. Finite'
  <2>1. lost' \subseteq lost \cup {<<"node/end", r>>}
    BY <1>6 DEF Wrote
  <2>2. failed' \subseteq failed \cup {r}
    BY <1>1
  <2> QED
    BY <1>1, <2>1, <2>2, FiniteStep DEF HInv, Same
<1>12. NodesInGraphs => Counted'
  BY <1>1, <1>2, <1>4, <1>11, CountedNode DEF HInv, Same, Bounded
<1>13. NodesInGraphs => Total'
  BY <1>1, <1>2, <1>4, TotalNode DEF HInv, Same
<1>14. Bounded'
  BY <1>1, <1>2, <1>3, <1>4, BoundedNode DEF HInv, Same
<1> QED
  BY <1>1, <1>7, <1>8, <1>9, <1>10, <1>11, <1>12, <1>13, <1>14 DEF HInv, Same

\* A run ends that is no graph and no node.
LEMMA OtherEnd ==
  ASSUME IInv, HInv, NEW r \in Runs, NEW ok \in BOOLEAN, ends(r, ok), over(r),
         ~is_graph(r), ~is_node(r), run_open' = run_open,
         \/ log' = log /\ lost' = lost
         \/ \E e : Wrote(e, r) /\ e.kind \in {"llm/call", "tool/result"}
  PROVE  HInv'
<1>1. /\ Same /\ alive /\ state[r] = "open" /\ overlapped' = overlapped
      /\ \A q \in Runs : run(q).parent = r => state[q] \notin Under
      /\ failed' = IF ok THEN failed ELSE failed \cup {r}
  BY Ends
<1>2. state' = [state EXCEPT ![r] = "over"]
  BY DEF over
<1>3. state \in [Runs -> States] /\ Kept /\ IsLog
  BY DEF IInv
<1>4. Life'
  BY <1>1, <1>2, <1>3, LifeMove DEF HInv, Same, Under
<1>5. Beside'
  BY <1>1, SamePlan DEF HInv, Beside, Same
<1>6. Forward
  BY <1>1, <1>2, <1>3, MoveForward DEF Under
<1>7. SameBrackets /\ SameEnds /\ Happened' /\ \E x : lost' \subseteq lost \cup {x}
  <2>1. CASE log' = log /\ lost' = lost
    BY <1>1, <1>6, <2>1, SameLogBrackets, SameLogEnds, HappenedStays DEF HInv, Same
  <2>2. ASSUME NEW e, Wrote(e, r), e.kind \in {"llm/call", "tool/result"}
        PROVE  SameBrackets /\ SameEnds /\ Happened' /\ \E x : lost' \subseteq lost \cup {x}
    <3>1. SameBrackets /\ SameEnds
      BY <1>3, <2>2, OtherBrackets, OtherEnds DEF Brackets
    <3>2. happened(e)'
      BY <2>2 DEF happened, Kinds
    <3>3. Happened'
      BY <1>1, <1>3, <1>6, <2>2, <3>2, HappenedWrote DEF HInv, Same
    <3>4. \E x : lost' \subseteq lost \cup {x}
      BY <2>2 DEF Wrote
    <3> QED
      BY <3>1, <3>3, <3>4
  <2> QED
    BY <2>1, <2>2
<1>8. Tells'
  <2>1. \A q \in Runs : is_graph(q) =>
          state'[q] = state[q] /\ (q \in failed' <=> q \in failed)
    BY <1>1, <1>2, <1>3
  <2> QED
    BY <1>1, <1>7, <2>1, TellsQuiet DEF HInv, Same
<1>9. Finite'
  BY <1>1, <1>7, FiniteStep DEF HInv, Same
<1>10. NodesInGraphs => Counted' /\ Total'
  <2>1. \A q \in Runs : state'[q] = "counting" <=> state[q] = "counting"
    BY <1>1, <1>2, <1>3
  <2> QED
    BY <1>1, <1>7, <2>1, CountedStays, TotalStays DEF HInv, Same, SameBrackets
<1>11. Bounded'
  <2>1. \A q \in Runs : is_node(q) =>
          \A s \in {"counting", "over"} : state'[q] = s <=> state[q] = s
    BY <1>2, <1>3
  <2> QED
    BY <1>1, <2>1, BoundedStays DEF HInv, Same
<1> QED
  BY <1>1, <1>4, <1>5, <1>7, <1>8, <1>9, <1>10, <1>11 DEF HInv, Same

\* A step is counted.
LEMMA StepCounted ==
  ASSUME IInv, HInv, NEW r \in Runs, count_step(r)
  PROVE  HInv'
<1>1. /\ Same /\ alive /\ failed' = failed /\ overlapped' = overlapped /\ log' = log
      /\ lost' = lost /\ state[r] = "counting" /\ state' = [state EXCEPT ![r] = "over"]
      /\ DOMAIN run_open' = DOMAIN run_open
  BY DEF count_step, over, history, Same
<1>2. state \in [Runs -> States] /\ Kept /\ IsLog /\ ~is_graph(r)
  BY <1>1 DEF IInv, HInv, Life, LifeOf, is_graph, is_node
<1>3. \A q \in Runs : run(q).parent = r => state[q] \notin Under
  BY <1>1, Parents DEF HInv, Life, LifeOf, Under
<1>4. Life'
  BY <1>1, <1>2, <1>3, LifeMove DEF HInv, Same, Under
<1>5. Beside'
  BY <1>1, SamePlan DEF HInv, Beside, Same
<1>6. Happened'
  <2>1. Forward
    BY <1>1, <1>2, MoveForward DEF Under
  <2> QED
    BY <1>1, <2>1, HappenedStays DEF HInv, Same
<1>7. Tells'
  <2>1. \A q \in Runs : is_graph(q) => state'[q] = state[q]
    BY <1>1, <1>2
  <2> QED
    BY <1>1, <2>1, SameLogBrackets, TellsQuiet DEF HInv, Same
<1>8. Finite'
  BY <1>1, FiniteStep DEF HInv, Same
<1>9. NodesInGraphs => Counted'
  BY <1>2, CountedStep DEF HInv, Bounded
<1>10. NodesInGraphs => Total'
  BY <1>1, SameLogEnds, TotalStays DEF HInv, Same
<1>11. Bounded'
  BY <1>2, BoundedStep DEF HInv
<1> QED
  BY <1>1, <1>4, <1>5, <1>6, <1>7, <1>8, <1>9, <1>10, <1>11 DEF HInv, Same

LEMMA ProcessCrash ==
  ASSUME IInv, HInv, Crash
  PROVE  HInv'
<1>1. /\ plan' = plan /\ strict' = strict /\ alive' = FALSE /\ log' = log /\ lost' = lost
      /\ failed' = failed /\ overlapped' = overlapped /\ crashes' = crashes + 1
      /\ DOMAIN run_open' = {} /\ trouble
  BY NoEntry DEF Crash
<1>2. state \in [Runs -> States]
  BY DEF IInv
<1>3. Life'
  BY <1>2, LifeCrash DEF HInv
<1>4. Beside'
  BY <1>1, SamePlan DEF HInv, Beside
<1>5. Happened'
  <2>1. Forward
    BY <1>2 DEF Crash, Forward
  <2> QED
    BY <1>1, <2>1, HappenedStays DEF HInv
<1>6. Tells'
  BY <1>1, <1>2, TellsCrash DEF HInv
<1>7. Finite'
  <2>1. Cardinality(lost) \in Nat /\ Cardinality(failed) \in Nat
    BY FS_CardinalityType DEF HInv, Finite
  <2>2. crashes + 1 \in 0..MaxTrouble
    BY <1>1, <2>1, PlansAssumption DEF HInv, Finite, trouble
  <2> QED
    BY <1>1, <2>2 DEF HInv, Finite
<1>8. Counted' /\ Bounded'
  BY <1>1 DEF Counted, Bounded
<1>9. NodesInGraphs => Total'
  BY <1>1, SameLogEnds, TotalStays DEF HInv
<1> QED
  BY <1>1, <1>3, <1>4, <1>5, <1>6, <1>7, <1>8, <1>9 DEF HInv

\* The steps of the checkpointer, a restart, or no step: the runs and the
\* handler stay as they are, and no bracket or node/end is written.
LEMMA Quiet ==
  ASSUME IInv, HInv, plan' = plan, strict' = strict, alive' \in BOOLEAN, alive => alive',
         UNCHANGED <<state, handler, history>>,
         \/ log' = log /\ lost' = lost
         \/ \E e, x : Wrote(e, x) /\ e.kind \in {"state/snapshot", "checkpoint/writes"}
  PROVE  HInv'
<1>1. /\ state' = state /\ failed' = failed /\ overlapped' = overlapped
      /\ crashes' = crashes /\ run_open' = run_open
  BY DEF handler, history
<1>2. IsLog
  BY DEF IInv
<1>3. Life'
  BY <1>1, LifeStays DEF HInv
<1>4. Beside' /\ Forward
  BY <1>1, SamePlan DEF HInv, Beside, Forward
<1>5. SameBrackets /\ SameEnds /\ Happened' /\ \E x : lost' \subseteq lost \cup {x}
  <2>1. CASE log' = log /\ lost' = lost
    BY <1>4, <2>1, SameLogBrackets, SameLogEnds, HappenedStays DEF HInv
  <2>2. ASSUME NEW e, NEW x, Wrote(e, x), e.kind \in {"state/snapshot", "checkpoint/writes"}
        PROVE  SameBrackets /\ SameEnds /\ Happened' /\ \E y : lost' \subseteq lost \cup {y}
    <3>1. SameBrackets /\ SameEnds
      BY <1>2, <2>2, OtherBrackets, OtherEnds DEF Brackets
    <3>2. happened(e)'
      BY <2>2 DEF happened, Kinds
    <3>3. Happened'
      BY <1>2, <1>4, <2>2, <3>2, HappenedWrote DEF HInv
    <3>4. \E y : lost' \subseteq lost \cup {y}
      BY <2>2 DEF Wrote
    <3> QED
      BY <3>1, <3>3, <3>4
  <2> QED
    BY <2>1, <2>2
<1>6. Tells'
  BY <1>1, <1>5, TellsQuiet DEF HInv
<1>7. Finite'
  BY <1>1, <1>5, FiniteStep DEF HInv
<1>8. NodesInGraphs => Counted' /\ Total'
  BY <1>1, <1>5, CountedStays, TotalStays DEF HInv, SameBrackets
<1>9. Bounded'
  BY <1>1, BoundedStays DEF HInv
<1> QED
  BY <1>1, <1>3, <1>4, <1>5, <1>6, <1>7, <1>8, <1>9 DEF HInv

\* A repair writes a run/end of no run of the plan.
LEMMA RunRepaired ==
  ASSUME IInv, HInv, Repair
  PROVE  HInv'
<1>1. /\ plan' = plan /\ strict' = strict /\ alive' = alive /\ lost' = lost
      /\ state' = state /\ failed' = failed /\ overlapped' = overlapped
      /\ crashes' = crashes /\ run_open' = run_open
  BY DEF Repair, handler, history
<1>2. PICK e : e = run_end(None, "interrupted", 0)
  OBVIOUS
<1>3. e.kind = "run/end" /\ e.run = None /\ log' = Append(log, e) /\ Wrote(e, None)
  BY <1>1, <1>2 DEF Repair, run_end, Wrote
<1>4. IsLog /\ Kept
  BY DEF IInv
<1>5. Life'
  BY <1>1, LifeStays DEF HInv
<1>6. Beside' /\ Forward
  BY <1>1, SamePlan DEF HInv, Beside, Forward
<1>7. Happened'
  <2>1. happened(e)'
    BY <1>3 DEF happened, Kinds
  <2> QED
    BY <1>1, <1>3, <1>4, <1>6, <2>1, HappenedWrote DEF HInv
<1>8. Tells'
  BY <1>4, TellsRepair DEF HInv
<1>9. Finite'
  BY <1>1, FiniteStep DEF HInv
<1>10. SameEnds
  BY <1>3, <1>4, OtherEnds
<1>11. NodesInGraphs => Counted'
  BY <1>1, <1>10, CountedStays DEF HInv
<1>12. NodesInGraphs => Total'
  <2>1. /\ log'[Len(log) + 1] = e
        /\ at(log', "run/end") = at(log, "run/end") \cup {Len(log) + 1}
        /\ \A i \in DOMAIN log : log'[i] = log[i]
    BY <1>3, <1>4, Appended, AtAppended
  <2>2. ASSUME NEW g PROVE EndsOf(g)' = EndsOf(g) /\ LostOf(g)' = LostOf(g)
    BY <1>1, <1>10, EndsStay
  <2>3. ASSUME NodesInGraphs, NEW i \in at(log', "run/end"), NEW g, g = log'[i].run, g # None,
               g \notin overlapped
        PROVE  log'[i].steps = Cardinality(EndsOf(g)') + Cardinality(LostOf(g)')
    <3>1. i \in at(log, "run/end") /\ log'[i] = log[i]
      BY <1>3, <2>1, <2>3 DEF at
    <3>2. log'[i].steps = Cardinality(EndsOf(g)) + Cardinality(LostOf(g))
      BY <2>3, <3>1 DEF HInv, Total
    <3> QED
      BY <2>2, <3>2
  <2> QED
    BY <1>1, <2>3 DEF Total, EndsOf, LostOf
<1>13. Bounded'
  BY <1>1, BoundedStays DEF HInv
<1> QED
  BY <1>1, <1>5, <1>6, <1>7, <1>8, <1>9, <1>11, <1>12, <1>13 DEF HInv

LEMMA HInvNext == IInv /\ HInv /\ [Next]_vars => HInv'
<1> SUFFICES ASSUME IInv, HInv, [Next]_vars PROVE HInv'
  OBVIOUS
<1>1. ASSUME NEW r \in Runs, on_chain_start(r) \/ on_llm_start(r) \/ on_tool_start(r)
      PROVE  HInv'
  <2>1. CASE is_graph(r)
    <3>1. on_chain_start(r)
      BY <1>1, <2>1 DEF on_llm_start, on_tool_start, begins, is_graph
    <3> QED
      BY <2>1, <3>1, GraphStart
  <2> QED
    BY <1>1, <2>1, OtherStart
<1>2. ASSUME NEW r \in Runs, count_step(r) PROVE HInv'
  BY <1>2, StepCounted
<1>3. ASSUME NEW r \in Runs, NEW ok \in BOOLEAN, on_chain_end(r, ok) PROVE HInv'
  <2>1. ends(r, ok) /\ run(r).kind = "chain" /\ state[r] = "open"
    BY <1>3 DEF on_chain_end, ends
  <2>2. CASE r \in DOMAIN run_open /\ close_run(r, ok)
    BY <2>1, <2>2, GraphEnd
  <2>3. CASE r \in DOMAIN node_open /\ close_node(r, ok)
    BY <2>1, <2>3, NodeEnd
  <2>4. CASE /\ r \notin DOMAIN run_open \cup DOMAIN node_open /\ over(r)
             /\ UNCHANGED <<starts, run_open, node_open, log, lost>>
    <3>1. ~is_graph(r) /\ ~is_node(r)
      BY <2>1, <2>4 DEF IInv, Kept, KeptOf
    <3> QED
      BY <2>1, <2>4, <3>1, OtherEnd
  <2> QED
    BY <1>3, <2>2, <2>3, <2>4 DEF on_chain_end
<1>4. ASSUME NEW r \in Runs, NEW ok \in BOOLEAN, on_llm_end(r, ok) PROVE HInv'
  <2>1. /\ ends(r, ok) /\ over(r) /\ ~is_graph(r) /\ ~is_node(r) /\ run_open' = run_open
        /\ Wrote(llm_call(r, llm_open[r], ok), r)
    BY <1>4, EmitWrote DEF on_llm_end, is_graph, is_node
  <2>2. \E e : Wrote(e, r) /\ e.kind \in {"llm/call", "tool/result"}
    BY <2>1 DEF llm_call
  <2> QED
    BY <2>1, <2>2, OtherEnd
<1>5. ASSUME NEW r \in Runs, NEW ok \in BOOLEAN, on_tool_end(r, ok) PROVE HInv'
  <2>1. /\ ends(r, ok) /\ over(r) /\ ~is_graph(r) /\ ~is_node(r) /\ run_open' = run_open
        /\ Wrote(tool_result(r, tool_open[r], ok), r)
    BY <1>5, EmitWrote DEF on_tool_end, is_graph, is_node
  <2>2. \E e : Wrote(e, r) /\ e.kind \in {"llm/call", "tool/result"}
    BY <2>1 DEF tool_result
  <2> QED
    BY <2>1, <2>2, OtherEnd
<1>6. ASSUME NEW c, NEW parent, Snapshot(c, parent) PROVE HInv'
  <2>1. Wrote(state_snapshot(c, parent), c) /\ state_snapshot(c, parent).kind = "state/snapshot"
    BY <1>6, EmitWrote DEF Snapshot, state_snapshot
  <2> QED
    BY <1>6, <2>1, Quiet DEF Snapshot, HInv
<1>7. CASE Writes
  <2>1. PICK e : e = [kind |-> "checkpoint/writes"]
    OBVIOUS
  <2>2. Wrote(e, None) /\ e.kind = "checkpoint/writes"
    BY <1>7, <2>1, EmitWrote DEF Writes
  <2> QED
    BY <1>7, <2>2, Quiet DEF Writes, HInv
<1>8. CASE Crash
  BY <1>8, ProcessCrash
<1>9. CASE Restart
  BY <1>9, Quiet DEF Restart
<1>10. CASE Repair
  BY <1>10, RunRepaired
<1>11. CASE UNCHANGED vars
  BY <1>11, Quiet DEF vars, HInv
<1> QED
  BY <1>1, <1>2, <1>3, <1>4, <1>5, <1>6, <1>7, <1>8, <1>9, <1>10, <1>11 DEF Next

-----------------------------------------------------------------------------
(***************************************************************************)
(* What the log says of the tool calls: a run has one call on record at    *)
(* most, and its result, if any, stands behind it.                         *)
(***************************************************************************)
\* The call of r is on record, or was lost.
OnRecord(r) ==
  <<"tool/call", r>> \in lost \/ \E i \in at(log, "tool/call") : log[i].run = r

called(i) ==
  /\ log[i].run \in Runs /\ log[i].label = run(log[i].run).label
  /\ state[log[i].run] # "new"

answered(j) ==
  /\ log[j].run \in Runs /\ state[log[j].run] \notin {"new", "open"} /\ OnRecord(log[j].run)
  /\ \A i \in at(log, "tool/call") : log[i].run = log[j].run => i < j

RInv ==
  /\ OneCall(log)
  /\ \A i \in at(log, "tool/call") : called(i)
  /\ \A r \in DOMAIN tool_open : OnRecord(r)
  /\ \A j \in at(log, "tool/result") : answered(j)

\* The tool events on record stay as they are.
SameTools ==
  /\ at(log', "tool/call") = at(log, "tool/call")
  /\ at(log', "tool/result") = at(log, "tool/result")
  /\ \A i \in DOMAIN log : log'[i] = log[i]
  /\ lost \subseteq lost'

\* A run that has started, or ended, does not come back.
Onward ==
  \A r \in Runs : /\ state[r] # "new" => state'[r] # "new"
                  /\ state[r] \notin {"new", "open"} => state'[r] \notin {"new", "open"}

LEMMA SameLogTools ==
  ASSUME log' = log, lost' = lost
  PROVE  SameTools
  BY DEF SameTools

LEMMA OtherTools ==
  ASSUME IsLog, NEW e, NEW x, Wrote(e, x), e.kind \notin {"tool/call", "tool/result"}
  PROVE  SameTools
<1>1. CASE log' = Append(log, e) /\ lost' = lost
  BY <1>1, Appended, AtAppended DEF SameTools
<1>2. CASE log' = log /\ lost' = lost \cup {<<e.kind, x>>}
  BY <1>2 DEF SameTools
<1> QED
  BY <1>1, <1>2 DEF Wrote

LEMMA MoveOnward ==
  ASSUME state \in [Runs -> States], NEW r \in Runs, NEW s \in {"open", "counting", "over"},
         s = "open" => state[r] = "new", state' = [state EXCEPT ![r] = s]
  PROVE  Onward
<1>1. \A q \in Runs : state'[q] = IF q = r THEN s ELSE state[q]
  OBVIOUS
<1> QED
  BY <1>1 DEF Onward

\* Steps that write no tool event.
LEMMA RecordStays ==
  ASSUME RInv, plan' = plan, Onward, SameTools, DOMAIN tool_open' \subseteq DOMAIN tool_open
  PROVE  RInv'
<1>1. /\ \A i \in at(log, "tool/call") : log'[i] = log[i]
      /\ \A j \in at(log, "tool/result") : log'[j] = log[j]
  BY DEF SameTools, at
<1>2. OneCall(log')
  BY <1>1 DEF RInv, OneCall, SameTools
<1>3. ASSUME NEW r, OnRecord(r) PROVE OnRecord(r)'
  BY <1>1, <1>3 DEF OnRecord, SameTools
<1>4. ASSUME NEW i \in at(log, "tool/call") PROVE called(i)'
  BY <1>1, <1>4 DEF RInv, called, Onward, run, Runs
<1>5. ASSUME NEW j \in at(log, "tool/result") PROVE answered(j)'
  <2>1. answered(j) /\ log'[j] = log[j]
    BY <1>1 DEF RInv
  <2>2. OnRecord(log[j].run)'
    BY <1>1, <2>1 DEF answered, OnRecord, SameTools
  <2> QED
    BY <1>1, <2>1, <2>2, SamePlan DEF answered, Onward, SameTools
<1> QED
  BY <1>2, <1>3, <1>4, <1>5 DEF RInv, SameTools

\* A call is recorded when its run is new.
LEMMA RecordCall ==
  ASSUME IInv, RInv, NEW r \in Runs, on_tool_start(r)
  PROVE  RInv'
<1>1. PICK e : e = tool_call(r, run(r).label)
  OBVIOUS
<1>2. /\ plan' = plan /\ state[r] = "new" /\ state' = [state EXCEPT ![r] = "open"]
      /\ Wrote(e, r) /\ e.kind = "tool/call" /\ e.run = r /\ e.label = run(r).label
      /\ DOMAIN tool_open' = DOMAIN tool_open \cup {r}
  <2>1. /\ plan' = plan /\ state[r] = "new" /\ state' = [state EXCEPT ![r] = "open"]
        /\ tool_open' = put(tool_open, r, run(r).label) /\ emit(e, r)
    BY <1>1 DEF on_tool_start, begins
  <2>2. Wrote(e, r) /\ DOMAIN tool_open' = DOMAIN tool_open \cup {r}
    BY <2>1, EmitWrote, PutEntry
  <2> QED
    BY <1>1, <2>1, <2>2 DEF tool_call
<1>3. IsLog /\ state \in [Runs -> States]
  BY DEF IInv
<1>4. Onward
  BY <1>2, <1>3, MoveOnward
<1>5. state'[r] = "open"
  BY <1>2, <1>3
<1>6. CASE log' = Append(log, e) /\ lost' = lost
  <2>0. PICK n : n = Len(log) + 1
    OBVIOUS
  <2>1. /\ at(log', "tool/call") = at(log, "tool/call") \cup {n}
        /\ at(log', "tool/result") = at(log, "tool/result")
        /\ log'[n] = e /\ n \in Nat
        /\ \A i \in DOMAIN log : log'[i] = log[i] /\ i \in Nat /\ i < n
    BY <1>2, <1>3, <1>6, <2>0, Appended, AtAppended
  <2>2. at(log, "tool/call") \subseteq DOMAIN log /\ at(log, "tool/result") \subseteq DOMAIN log
    BY DEF at
  <2>3. \A i \in at(log, "tool/call") : log[i].run # r
    BY <1>2 DEF RInv, called
  <2>4. \A j \in at(log, "tool/result") : log[j].run # r
    BY <1>2 DEF RInv, answered
  <2>5. OneCall(log')
    BY <1>2, <2>1, <2>2, <2>3 DEF RInv, OneCall
  <2>6. ASSUME NEW i \in at(log', "tool/call") PROVE called(i)'
    <3>1. CASE i \in at(log, "tool/call")
      BY <1>2, <1>4, <2>1, <2>2, <3>1 DEF RInv, called, Onward, run, Runs
    <3>2. CASE i = n
      BY <1>2, <1>5, <2>1, <3>2 DEF called, run, Runs
    <3> QED
      BY <2>1, <3>1, <3>2
  <2>7. ASSUME NEW q \in DOMAIN tool_open' PROVE OnRecord(q)'
    <3>1. CASE q = r
      BY <1>2, <2>1, <3>1 DEF OnRecord
    <3>2. CASE q # r
      <4>1. OnRecord(q)
        BY <1>2, <3>2 DEF RInv
      <4> QED
        BY <1>6, <2>1, <2>2, <4>1 DEF OnRecord
    <3> QED
      BY <3>1, <3>2
  <2>8. ASSUME NEW j \in at(log, "tool/result") PROVE answered(j)'
    <3>1. answered(j) /\ log'[j] = log[j] /\ log[j].run # r
      BY <2>1, <2>2, <2>4 DEF RInv
    <3>2. OnRecord(log[j].run)'
      BY <1>6, <2>1, <2>2, <3>1 DEF answered, OnRecord
    <3> QED
      BY <1>2, <1>4, <2>1, <2>2, <3>1, <3>2, SamePlan DEF answered, Onward
  <2> QED
    BY <2>1, <2>5, <2>6, <2>7, <2>8 DEF RInv, OneCall
<1>7. CASE log' = log /\ lost' = lost \cup {<<e.kind, r>>}
  <2>1. \A q \in DOMAIN tool_open' : OnRecord(q)'
    BY <1>2, <1>7 DEF RInv, OnRecord
  <2>2. ASSUME NEW j \in at(log, "tool/result") PROVE answered(j)'
    BY <1>2, <1>4, <1>7, SamePlan DEF RInv, answered, OnRecord, Onward
  <2>3. ASSUME NEW i \in at(log, "tool/call") PROVE called(i)'
    BY <1>2, <1>4, <1>7 DEF RInv, called, Onward, run, Runs
  <2> QED
    BY <1>7, <2>1, <2>2, <2>3 DEF RInv, OneCall
<1> QED
  BY <1>2, <1>6, <1>7 DEF Wrote

\* A result is recorded when the call of its run is open, and so on record or lost.
LEMMA RecordResult ==
  ASSUME IInv, RInv, NEW r \in Runs, NEW ok, on_tool_end(r, ok)
  PROVE  RInv'
<1>1. PICK e : e = tool_result(r, tool_open[r], ok)
  OBVIOUS
<1>2. /\ plan' = plan /\ state[r] = "open" /\ state' = [state EXCEPT ![r] = "over"]
      /\ run(r).kind = "tool"
      /\ Wrote(e, r) /\ e.kind = "tool/result" /\ e.run = r
      /\ DOMAIN tool_open' \subseteq DOMAIN tool_open
  BY <1>1, EmitWrote, PopEntry DEF on_tool_end, ends, over, tool_result
<1>3. IsLog /\ state \in [Runs -> States] /\ r \in DOMAIN tool_open
  BY <1>2 DEF IInv, Kept, KeptOf
<1>4. Onward
  BY <1>2, <1>3, MoveOnward
<1>5. state'[r] = "over" /\ OnRecord(r)
  BY <1>2, <1>3 DEF RInv
<1>6. CASE log' = Append(log, e) /\ lost' = lost
  <2>0. PICK n : n = Len(log) + 1
    OBVIOUS
  <2>1. /\ at(log', "tool/call") = at(log, "tool/call")
        /\ at(log', "tool/result") = at(log, "tool/result") \cup {n}
        /\ log'[n] = e /\ n \in Nat
        /\ \A i \in DOMAIN log : log'[i] = log[i] /\ i \in Nat /\ i < n
    BY <1>2, <1>3, <1>6, <2>0, Appended, AtAppended
  <2>2. at(log, "tool/call") \subseteq DOMAIN log /\ at(log, "tool/result") \subseteq DOMAIN log
    BY DEF at
  <2>3. OneCall(log')
    BY <2>1, <2>2 DEF RInv, OneCall
  <2>4. ASSUME NEW i \in at(log, "tool/call") PROVE called(i)'
    BY <1>2, <1>4, <2>1, <2>2 DEF RInv, called, Onward, run, Runs
  <2>5. \A q : OnRecord(q) => OnRecord(q)'
    BY <1>6, <2>1, <2>2 DEF OnRecord
  <2>6. ASSUME NEW j \in at(log, "tool/result") PROVE answered(j)'
    <3>1. answered(j) /\ log'[j] = log[j]
      BY <2>1, <2>2 DEF RInv
    <3>2. OnRecord(log[j].run)'
      BY <2>5, <3>1 DEF answered
    <3> QED
      BY <1>2, <1>4, <2>1, <2>2, <3>1, <3>2, SamePlan DEF answered, Onward
  <2>7. answered(n)'
    <3>1. OnRecord(r)'
      BY <1>5, <2>5
    <3>2. /\ log'[n].run = r /\ r \in Runs' /\ OnRecord(log[n].run)'
      BY <1>2, <2>1, <3>1, SamePlan DEF OnRecord
    <3>3. \A i \in at(log', "tool/call") : i < n
      BY <2>1, <2>2
    <3> QED
      BY <1>5, <3>2, <3>3 DEF answered
  <2>8. \A q \in DOMAIN tool_open' : OnRecord(q)'
    BY <1>2, <2>5 DEF RInv
  <2> QED
    BY <2>1, <2>3, <2>4, <2>6, <2>7, <2>8 DEF RInv, OneCall
<1>7. CASE log' = log /\ lost' = lost \cup {<<e.kind, r>>}
  <2>1. SameTools
    BY <1>7 DEF SameTools
  <2> QED
    BY <1>2, <1>4, <2>1, RecordStays
<1> QED
  BY <1>2, <1>6, <1>7 DEF Wrote

LEMMA RInvInit == Init => RInv
<1> SUFFICES ASSUME Init PROVE RInv
  OBVIOUS
<1>1. DOMAIN log = {} /\ DOMAIN tool_open = {}
  BY NoEntry DEF Init
<1>2. at(log, "tool/call") = {} /\ at(log, "tool/result") = {}
  BY <1>1 DEF at
<1> QED
  BY <1>1, <1>2 DEF RInv, OneCall

LEMMA RInvNext == IInv /\ RInv /\ [Next]_vars => RInv'
<1> SUFFICES ASSUME IInv, RInv, [Next]_vars PROVE RInv'
  OBVIOUS
<1>1. IsLog /\ state \in [Runs -> States]
  BY DEF IInv
<1>2. ASSUME NEW r \in Runs, on_chain_start(r) PROVE RInv'
  <2>1. /\ plan' = plan /\ state[r] = "new" /\ state' = [state EXCEPT ![r] = "open"]
        /\ tool_open' = tool_open
    BY <1>2 DEF on_chain_start, begins
  <2>2. Onward
    BY <1>1, <2>1, MoveOnward
  <2>3. CASE emit(run_start(r), r)
    <3>1. SameTools
      BY <1>1, <2>3, EmitWrote, OtherTools DEF run_start
    <3> QED
      BY <2>1, <2>2, <3>1, RecordStays
  <2>4. CASE emit(node_start(r, run(r).node), r)
    <3>1. SameTools
      BY <1>1, <2>4, EmitWrote, OtherTools DEF node_start
    <3> QED
      BY <2>1, <2>2, <3>1, RecordStays
  <2>5. CASE UNCHANGED <<log, lost>>
    BY <2>1, <2>2, <2>5, SameLogTools, RecordStays
  <2> QED
    BY <1>2, <2>3, <2>4, <2>5 DEF on_chain_start
<1>3. ASSUME NEW r \in Runs, on_llm_start(r) PROVE RInv'
  <2>1. /\ plan' = plan /\ state[r] = "new" /\ state' = [state EXCEPT ![r] = "open"]
        /\ tool_open' = tool_open /\ log' = log /\ lost' = lost
    BY <1>3 DEF on_llm_start, begins
  <2> QED
    BY <1>1, <2>1, MoveOnward, SameLogTools, RecordStays
<1>4. ASSUME NEW r \in Runs, on_tool_start(r) PROVE RInv'
  BY <1>4, RecordCall
<1>5. ASSUME NEW r \in Runs, count_step(r) PROVE RInv'
  <2>1. /\ plan' = plan /\ state' = [state EXCEPT ![r] = "over"]
        /\ tool_open' = tool_open /\ log' = log /\ lost' = lost
    BY <1>5 DEF count_step, over
  <2> QED
    BY <1>1, <2>1, MoveOnward, SameLogTools, RecordStays
<1>6. ASSUME NEW r \in Runs, NEW ok \in BOOLEAN, on_chain_end(r, ok) PROVE RInv'
  <2>1. plan' = plan /\ tool_open' = tool_open
    BY <1>6 DEF on_chain_end, ends
  <2>2. CASE close_run(r, ok)
    <3>1. PICK e : emit(e, r) /\ e.kind = "run/end"
      BY <2>2 DEF close_run, run_end
    <3>2. SameTools
      BY <1>1, <3>1, EmitWrote, OtherTools
    <3>3. Onward
      BY <1>1, <2>2, MoveOnward DEF close_run, over
    <3> QED
      BY <2>1, <3>2, <3>3, RecordStays
  <2>3. CASE close_node(r, ok)
    <3>1. PICK e : emit(e, r) /\ e.kind = "node/end"
      BY <2>3 DEF close_node, node_end
    <3>2. SameTools
      BY <1>1, <3>1, EmitWrote, OtherTools
    <3>3. PICK s \in {"counting", "over"} : state' = [state EXCEPT ![r] = s]
      BY <2>3 DEF close_node
    <3>4. Onward
      BY <1>1, <3>3, MoveOnward
    <3> QED
      BY <2>1, <3>2, <3>4, RecordStays
  <2>4. CASE over(r) /\ UNCHANGED <<log, lost>>
    <3>1. Onward
      BY <1>1, <2>4, MoveOnward DEF over
    <3> QED
      BY <2>1, <2>4, <3>1, SameLogTools, RecordStays
  <2> QED
    BY <1>6, <2>2, <2>3, <2>4 DEF on_chain_end
<1>7. ASSUME NEW r \in Runs, NEW ok \in BOOLEAN, on_llm_end(r, ok) PROVE RInv'
  <2>1. /\ plan' = plan /\ tool_open' = tool_open /\ state' = [state EXCEPT ![r] = "over"]
        /\ emit(llm_call(r, llm_open[r], ok), r)
    BY <1>7 DEF on_llm_end, ends, over
  <2>2. SameTools
    BY <1>1, <2>1, EmitWrote, OtherTools DEF llm_call
  <2> QED
    BY <1>1, <2>1, <2>2, MoveOnward, RecordStays
<1>8. ASSUME NEW r \in Runs, NEW ok \in BOOLEAN, on_tool_end(r, ok) PROVE RInv'
  BY <1>8, RecordResult
<1>9. ASSUME plan' = plan, UNCHANGED <<state, handler>>, SameTools PROVE RInv'
  BY <1>9, RecordStays DEF handler, Onward
<1>10. ASSUME NEW c, NEW parent, Snapshot(c, parent) PROVE RInv'
  <2>1. SameTools
    BY <1>1, <1>10, EmitWrote, OtherTools DEF Snapshot, state_snapshot
  <2> QED
    BY <1>9, <1>10, <2>1 DEF Snapshot
<1>11. CASE Writes
  <2>1. PICK e : e = [kind |-> "checkpoint/writes"]
    OBVIOUS
  <2>2. emit(e, None) /\ e.kind = "checkpoint/writes"
    BY <1>11, <2>1 DEF Writes
  <2>3. SameTools
    BY <1>1, <2>2, EmitWrote, OtherTools
  <2> QED
    BY <1>9, <1>11, <2>3 DEF Writes
<1>12. CASE Crash
  <2>1. /\ plan' = plan /\ log' = log /\ lost' = lost /\ DOMAIN tool_open' = {}
        /\ state' = [r \in Runs |-> IF state[r] \in {"open", "counting"} THEN "died" ELSE state[r]]
    BY <1>12, NoEntry DEF Crash
  <2>2. Onward
    BY <2>1 DEF Onward
  <2> QED
    BY <2>1, <2>2, SameLogTools, RecordStays
<1>13. CASE Restart
  BY <1>9, <1>13, SameLogTools DEF Restart
<1>14. CASE Repair
  <2>1. PICK e : e = run_end(None, "interrupted", 0)
    OBVIOUS
  <2>2. Wrote(e, None) /\ e.kind = "run/end"
    BY <1>14, <2>1 DEF Repair, Wrote, run_end
  <2>3. SameTools
    BY <1>1, <2>2, OtherTools
  <2> QED
    BY <1>9, <1>14, <2>3 DEF Repair
<1>15. CASE UNCHANGED vars
  BY <1>9, <1>15, SameLogTools DEF vars
<1> QED
  BY <1>2, <1>3, <1>4, <1>5, <1>6, <1>7, <1>8, <1>10, <1>11, <1>12, <1>13, <1>14, <1>15 DEF Next

-----------------------------------------------------------------------------
(***************************************************************************)
(* What the log says of the runs that failed.  The property is not         *)
(* inductive: that a failed run has one end, on record or lost, is because *)
(* an open run has none yet and has not failed.                            *)
(***************************************************************************)
EndKinds == {"llm/call", "tool/result", "node/end", "run/end"}
Past == {"counting", "over", "died"}

\* The end of r is on the log l.
HasEnd(l, r) == \E i \in DOMAIN l : l[i].kind = end_kind(r) /\ l[i].run = r

\* The end of r is recorded: r is a graph run, a node, a model or a tool call.
Ending(r) == is_graph(r) \/ end_kind(r) # "run/end"

\* An end tells of a run that is over whether it failed; a repair names no run.
told(e) ==
  e.kind \in EndKinds =>
    \/ e.kind = "run/end" /\ e.run = None
    \/ /\ e.run \in Runs /\ e.kind = end_kind(e.run) /\ Ending(e.run)
       /\ state[e.run] \in Past /\ (is_error(e) <=> e.run \in failed)

FInv ==
  /\ failed \subseteq Runs
  /\ \A i \in DOMAIN log : told(log[i])
  /\ \A r \in failed : /\ state[r] \in Past
                       /\ Ending(r) => HasEnd(log, r) \/ <<end_kind(r), r>> \in lost
  /\ \A r \in Runs : <<end_kind(r), r>> \in lost => state[r] \in Past /\ ~HasEnd(log, r)

\* No end of a run is recorded or lost.
NoEnd ==
  /\ \A i \in DOMAIN log' : told(log'[i])
  /\ \A r \in Runs : /\ HasEnd(log', r) <=> HasEnd(log, r)
                     /\ <<end_kind(r), r>> \in lost' <=> <<end_kind(r), r>> \in lost

LEMMA EndKind ==
  /\ \A r \in Runs : end_kind(r) \in EndKinds
  /\ plan' = plan => \A r \in Runs :
       /\ end_kind(r)' = end_kind(r) /\ (Ending(r)' <=> Ending(r))
       /\ \A l : HasEnd(l, r)' <=> HasEnd(l, r)
<1>1. \A r \in Runs : end_kind(r) \in EndKinds
  BY DEF end_kind, EndKinds
<1>2. ASSUME plan' = plan, NEW r \in Runs PROVE end_kind(r)' = end_kind(r)
  BY <1>2, SamePlan DEF end_kind
<1>3. ASSUME plan' = plan, NEW r \in Runs PROVE Ending(r)' <=> Ending(r)
  BY <1>2, <1>3, SamePlan DEF Ending
<1>4. ASSUME plan' = plan, NEW r \in Runs, NEW l PROVE HasEnd(l, r)' <=> HasEnd(l, r)
  BY <1>2, <1>4 DEF HasEnd
<1> QED
  BY <1>1, <1>2, <1>3, <1>4

LEMMA NoEndSame ==
  ASSUME FInv, log' = log, lost' = lost
  PROVE  NoEnd
  BY DEF FInv, NoEnd

LEMMA NoEndOther ==
  ASSUME IsLog, FInv, NEW e, NEW x, Wrote(e, x), e.kind \notin EndKinds
  PROVE  NoEnd
<1>1. \A r \in Runs : e.kind # end_kind(r)
  BY EndKind
<1>2. CASE log' = Append(log, e) /\ lost' = lost
  <2>1. /\ DOMAIN log' = DOMAIN log \cup {Len(log) + 1}
        /\ log'[Len(log) + 1] = e /\ \A i \in DOMAIN log : log'[i] = log[i]
    BY <1>2, Appended
  <2>2. told(e)
    BY DEF told
  <2>3. \A i \in DOMAIN log' : told(log'[i])
    BY <2>1, <2>2 DEF FInv
  <2>4. \A r \in Runs : HasEnd(log', r) <=> HasEnd(log, r)
    BY <1>1, <2>1 DEF HasEnd
  <2> QED
    BY <1>2, <2>3, <2>4 DEF NoEnd
<1>3. CASE log' = log /\ lost' = lost \cup {<<e.kind, x>>}
  BY <1>1, <1>3 DEF FInv, NoEnd
<1> QED
  BY <1>2, <1>3 DEF Wrote

LEMMA NoEndRepair ==
  ASSUME IsLog, FInv, plan \in Plans, NEW e, e.kind = "run/end", e.run = None,
         log' = Append(log, e), lost' = lost
  PROVE  NoEnd
<1>1. None \notin Runs
  BY PlansAssumption DEF Runs
<1>2. /\ DOMAIN log' = DOMAIN log \cup {Len(log) + 1}
      /\ log'[Len(log) + 1] = e /\ \A i \in DOMAIN log : log'[i] = log[i]
  BY Appended
<1>3. told(e)
  BY DEF told
<1>4. \A i \in DOMAIN log' : told(log'[i])
  BY <1>2, <1>3 DEF FInv
<1>5. \A r \in Runs : HasEnd(log', r) <=> HasEnd(log, r)
  BY <1>1, <1>2 DEF HasEnd
<1> QED
  BY <1>4, <1>5 DEF NoEnd

\* Steps that end no run.
LEMMA FailuresStay ==
  ASSUME FInv, plan' = plan, failed' = failed, NoEnd,
         \A r \in Runs : state[r] \in Past => state'[r] \in Past
  PROVE  FInv'
<1>1. Runs' = Runs
  BY DEF Runs
<1>2. ASSUME NEW i \in DOMAIN log' PROVE told(log[i])'
  <2>1. told(log'[i])
    BY DEF NoEnd
  <2>2. PICK e : e = log'[i]
    OBVIOUS
  <2>3. told(e) => told(e)'
    BY <1>1, EndKind DEF told
  <2> QED
    BY <2>1, <2>2, <2>3 DEF told, end_kind, Ending, is_graph, is_node, run, Runs
<1>3. ASSUME NEW r, r \in failed'
      PROVE  /\ state'[r] \in Past
             /\ Ending(r)' => HasEnd(log, r)' \/ <<end_kind(r), r>>' \in lost'
  <2>1. r \in Runs /\ r \in failed
    BY <1>3 DEF FInv
  <2>2. HasEnd(log', r) <=> HasEnd(log, r)'
    BY <2>1, EndKind DEF HasEnd
  <2> QED
    BY <2>1, <2>2, EndKind DEF FInv, NoEnd
<1>4. ASSUME NEW r \in Runs, <<end_kind(r), r>>' \in lost'
      PROVE  state'[r] \in Past /\ ~HasEnd(log, r)'
  <2>1. HasEnd(log', r) <=> HasEnd(log, r)'
    BY EndKind DEF HasEnd
  <2> QED
    BY <1>4, <2>1, EndKind DEF FInv, NoEnd
<1> QED
  BY <1>1, <1>2, <1>3, <1>4 DEF FInv

\* A run ends: its end is recorded or lost, and says whether it failed.
LEMMA FailureEnd ==
  ASSUME IsLog, FInv, plan \in Plans, plan' = plan, state \in [Runs -> States],
         NEW r \in Runs, state[r] = "open",
         NEW s \in {"counting", "over"}, state' = [state EXCEPT ![r] = s],
         NEW ok \in BOOLEAN, failed' = IF ok THEN failed ELSE failed \cup {r},
         NEW e, Wrote(e, r), e.kind = end_kind(r), e.run = r, Ending(r), is_error(e) <=> ~ok
  PROVE  FInv'
<1>1. Runs' = Runs /\ \A q \in Runs : state'[q] = IF q = r THEN s ELSE state[q]
  BY DEF Runs
<1>2. state[r] \notin Past /\ s \in Past /\ None \notin Runs
  BY PlansAssumption DEF Past, Runs
<1>3. r \notin failed /\ ~HasEnd(log, r) /\ <<end_kind(r), r>> \notin lost
  <2>1. ASSUME NEW i \in DOMAIN log, log[i].kind = end_kind(r), log[i].run = r PROVE FALSE
    <3>1. told(log[i]) /\ log[i].kind \in EndKinds
      BY <2>1, EndKind DEF FInv
    <3> QED
      BY <1>2, <2>1, <3>1 DEF told
  <2> QED
    BY <1>2, <2>1 DEF FInv, HasEnd
<1>4. r \in failed' <=> ~ok
  BY <1>3
<1>5. \A q \in Runs \ {r} : q \in failed' <=> q \in failed
  OBVIOUS
<1>6. /\ \A q \in Runs \ {r} : /\ HasEnd(log', q) <=> HasEnd(log, q)
                               /\ <<end_kind(q), q>> \in lost' <=> <<end_kind(q), q>> \in lost
      /\ HasEnd(log', r) <=> <<end_kind(r), r>> \notin lost'
      /\ \A i \in DOMAIN log' : told(log'[i]) \/ log'[i] = e
  <2>1. CASE log' = Append(log, e) /\ lost' = lost
    <3>1. /\ DOMAIN log' = DOMAIN log \cup {Len(log) + 1}
          /\ log'[Len(log) + 1] = e /\ \A i \in DOMAIN log : log'[i] = log[i]
      BY <2>1, Appended
    <3>2. \A q \in Runs \ {r} : HasEnd(log', q) <=> HasEnd(log, q)
      BY <3>1 DEF HasEnd
    <3>3. HasEnd(log', r)
      BY <3>1 DEF HasEnd
    <3> QED
      BY <1>3, <2>1, <3>1, <3>2, <3>3 DEF FInv
  <2>2. CASE log' = log /\ lost' = lost \cup {<<e.kind, r>>}
    BY <1>3, <2>2 DEF FInv
  <2> QED
    BY <2>1, <2>2 DEF Wrote
<1>7. ASSUME NEW f, told(f) \/ f = e PROVE told(f)'
  <2>1. CASE f = e
    BY <1>1, <1>2, <1>4, <2>1, EndKind DEF told
  <2>2. CASE f # e /\ f.kind \in EndKinds /\ f.run # None
    <3>1. /\ f.run \in Runs /\ f.kind = end_kind(f.run) /\ Ending(f.run)
          /\ state[f.run] \in Past /\ (is_error(f) <=> f.run \in failed)
      BY <1>7, <2>2 DEF told
    <3>2. f.run # r
      BY <1>2, <3>1
    <3>3. /\ state'[f.run] = state[f.run] /\ (f.run \in failed' <=> f.run \in failed)
          /\ f.run \in Runs' /\ end_kind(f.run)' = end_kind(f.run) /\ Ending(f.run)'
      BY <1>1, <1>5, <3>1, <3>2, EndKind
    <3> QED
      BY <3>1, <3>3 DEF told
  <2>3. CASE f # e /\ ~(f.kind \in EndKinds /\ f.run # None)
    BY <1>1, <1>2, <1>7, <2>3 DEF told
  <2> QED
    BY <2>1, <2>2, <2>3
<1>8. \A q \in Runs : HasEnd(log, q)' <=> HasEnd(log', q)
  BY EndKind DEF HasEnd
<1>9. ASSUME NEW q, q \in failed'
      PROVE  /\ state'[q] \in Past
             /\ Ending(q)' => HasEnd(log, q)' \/ <<end_kind(q), q>>' \in lost'
  <2>1. q \in Runs
    BY <1>9 DEF FInv
  <2>2. /\ end_kind(q)' = end_kind(q) /\ (Ending(q)' <=> Ending(q))
        /\ HasEnd(log, q)' <=> HasEnd(log', q)
    BY <1>8, <2>1, EndKind
  <2>3. HasEnd(log', q) \/ <<end_kind(q), q>> \in lost' \/ ~Ending(q)
    <3>1. CASE q = r
      BY <1>6, <3>1
    <3>2. CASE q # r
      <4>1. q \in failed
        BY <1>9, <3>2
      <4>2. ~Ending(q) \/ HasEnd(log, q) \/ <<end_kind(q), q>> \in lost
        BY <4>1 DEF FInv
      <4> QED
        BY <1>6, <2>1, <3>2, <4>2
    <3> QED
      BY <3>1, <3>2
  <2>4. state'[q] \in Past
    BY <1>1, <1>2, <1>5, <1>9, <2>1 DEF FInv
  <2> QED
    BY <2>2, <2>3, <2>4
<1>10. ASSUME NEW q \in Runs, <<end_kind(q), q>>' \in lost'
       PROVE  state'[q] \in Past /\ ~HasEnd(log, q)'
  <2>1. <<end_kind(q), q>> \in lost' /\ (HasEnd(log, q)' <=> HasEnd(log', q))
    BY <1>8, <1>10, EndKind
  <2>2. CASE q = r
    <3>1. ~HasEnd(log', q)
      BY <1>6, <2>1, <2>2
    <3>2. state'[q] \in Past
      BY <1>1, <1>2, <2>2
    <3> QED
      BY <2>1, <3>1, <3>2
  <2>3. CASE q # r
    <3>1. <<end_kind(q), q>> \in lost /\ (HasEnd(log', q) <=> HasEnd(log, q))
      BY <1>6, <2>1, <2>3
    <3>2. state[q] \in Past /\ ~HasEnd(log, q)
      BY <3>1 DEF FInv
    <3> QED
      BY <1>1, <2>1, <2>3, <3>1, <3>2
  <2> QED
    BY <2>2, <2>3
<1>11. failed' \subseteq Runs /\ \A i \in DOMAIN log' : told(log[i])'
  <2>1. ASSUME NEW i \in DOMAIN log' PROVE told(log[i])'
    <3>1. PICK f : f = log'[i]
      OBVIOUS
    <3>2. told(f)'
      BY <1>6, <1>7, <3>1
    <3> QED
      BY <3>1, <3>2 DEF told, end_kind, Ending, is_graph, is_node, run, Runs
  <2> QED
    BY <2>1 DEF FInv
<1> QED
  BY <1>1, <1>9, <1>10, <1>11 DEF FInv

\* A run ends that is not recorded: a chain that is neither a graph nor a node.
LEMMA FailureSilent ==
  ASSUME FInv, plan' = plan, state \in [Runs -> States], NEW r \in Runs, ~Ending(r),
         state[r] = "open", state' = [state EXCEPT ![r] = "over"],
         NEW ok \in BOOLEAN, failed' = IF ok THEN failed ELSE failed \cup {r},
         log' = log, lost' = lost
  PROVE  FInv'
<1>1. Runs' = Runs /\ \A q \in Runs : state'[q] = IF q = r THEN "over" ELSE state[q]
  BY DEF Runs
<1>2. state[r] \notin Past /\ "over" \in Past
  BY DEF Past
<1>3. \A q \in Runs \ {r} : q \in failed' <=> q \in failed
  OBVIOUS
<1>4. ASSUME NEW f, told(f) PROVE told(f)'
  BY <1>1, <1>2, <1>3, <1>4, EndKind DEF told
<1>5. \A q \in Runs : HasEnd(log, q)' <=> HasEnd(log, q)
  BY EndKind DEF HasEnd
<1>6. ASSUME NEW q, q \in failed'
      PROVE  /\ state'[q] \in Past
             /\ Ending(q)' => HasEnd(log, q)' \/ <<end_kind(q), q>>' \in lost'
  <2>1. q \in Runs
    BY <1>6 DEF FInv
  <2>2. CASE q = r
    BY <1>1, <1>2, <2>2, EndKind
  <2>3. CASE q # r
    BY <1>1, <1>3, <1>5, <1>6, <2>1, <2>3, EndKind DEF FInv
  <2> QED
    BY <2>2, <2>3
<1>7. ASSUME NEW q \in Runs, <<end_kind(q), q>>' \in lost'
      PROVE  state'[q] \in Past /\ ~HasEnd(log, q)'
  BY <1>1, <1>2, <1>5, <1>7, EndKind DEF FInv
<1>8. failed' \subseteq Runs /\ \A i \in DOMAIN log' : told(log[i])'
  <2>1. ASSUME NEW i \in DOMAIN log' PROVE told(log[i])'
    <3>1. PICK f : f = log'[i]
      OBVIOUS
    <3>2. told(f)'
      BY <1>4, <3>1 DEF FInv
    <3> QED
      BY <3>1, <3>2 DEF told, end_kind, Ending, is_graph, is_node, run, Runs
  <2> QED
    BY <2>1 DEF FInv
<1> QED
  BY <1>1, <1>6, <1>7, <1>8 DEF FInv

LEMMA FInvInit == Init => FInv
<1> SUFFICES ASSUME Init PROVE FInv
  OBVIOUS
<1>1. DOMAIN log = {} /\ failed = {} /\ lost = {}
  BY NoEntry DEF Init
<1> QED
  BY <1>1 DEF FInv

LEMMA FInvNext == IInv /\ HInv /\ FInv /\ [Next]_vars => FInv'
<1> SUFFICES ASSUME IInv, HInv, FInv, [Next]_vars PROVE FInv'
  OBVIOUS
<1>1. IsLog /\ plan \in Plans /\ state \in [Runs -> States] /\ \A r \in Runs : KeptOf(r)
  BY DEF IInv, Kept, HInv
<1>2. ASSUME NEW r \in Runs, NEW s \in {"open", "over"}, state' = [state EXCEPT ![r] = s],
             s = "open" => state[r] = "new"
      PROVE  \A q \in Runs : state[q] \in Past => state'[q] \in Past
  <2>1. \A q \in Runs : state'[q] = IF q = r THEN s ELSE state[q]
    BY <1>1, <1>2
  <2> QED
    BY <1>2, <2>1 DEF Past
<1>3. ASSUME NEW r \in Runs, on_chain_start(r) PROVE FInv'
  <2>1. /\ plan' = plan /\ failed' = failed
        /\ state[r] = "new" /\ state' = [state EXCEPT ![r] = "open"]
    BY <1>3 DEF on_chain_start, begins
  <2>2. \A q \in Runs : state[q] \in Past => state'[q] \in Past
    BY <1>2, <2>1
  <2>3. CASE emit(run_start(r), r)
    <3>1. run_start(r).kind \notin EndKinds
      BY DEF run_start, EndKinds
    <3>2. NoEnd
      BY <1>1, <2>3, <3>1, EmitWrote, NoEndOther
    <3> QED
      BY <2>1, <2>2, <3>2, FailuresStay
  <2>4. CASE emit(node_start(r, run(r).node), r)
    <3>1. PICK e : e = node_start(r, run(r).node)
      OBVIOUS
    <3>2. e.kind \notin EndKinds
      BY <3>1 DEF node_start, EndKinds
    <3>3. NoEnd
      BY <1>1, <2>4, <3>1, <3>2, EmitWrote, NoEndOther
    <3> QED
      BY <2>1, <2>2, <3>3, FailuresStay
  <2>5. CASE UNCHANGED <<log, lost>>
    BY <2>1, <2>2, <2>5, NoEndSame, FailuresStay
  <2> QED
    BY <1>3, <2>3, <2>4, <2>5 DEF on_chain_start
<1>4. ASSUME NEW r \in Runs, on_llm_start(r) PROVE FInv'
  <2>1. /\ plan' = plan /\ failed' = failed /\ log' = log /\ lost' = lost
        /\ state[r] = "new" /\ state' = [state EXCEPT ![r] = "open"]
    BY <1>4 DEF on_llm_start, begins
  <2> QED
    BY <1>2, <2>1, NoEndSame, FailuresStay
<1>5. ASSUME NEW r \in Runs, on_tool_start(r) PROVE FInv'
  <2>1. PICK e : e = tool_call(r, run(r).label)
    OBVIOUS
  <2>2. /\ plan' = plan /\ failed' = failed /\ emit(e, r)
        /\ state[r] = "new" /\ state' = [state EXCEPT ![r] = "open"]
    BY <1>5, <2>1 DEF on_tool_start, begins
  <2>3. e.kind \notin EndKinds
    BY <2>1 DEF tool_call, EndKinds
  <2>4. NoEnd
    BY <1>1, <2>2, <2>3, EmitWrote, NoEndOther
  <2> QED
    BY <1>2, <2>2, <2>4, FailuresStay
<1>6. ASSUME NEW r \in Runs, count_step(r) PROVE FInv'
  <2>1. /\ plan' = plan /\ failed' = failed /\ log' = log /\ lost' = lost
        /\ state' = [state EXCEPT ![r] = "over"]
    BY <1>6 DEF count_step, over, history
  <2> QED
    BY <1>2, <2>1, NoEndSame, FailuresStay
<1>7. ASSUME NEW r \in Runs, NEW ok \in BOOLEAN, on_chain_end(r, ok) PROVE FInv'
  <2>1. /\ plan' = plan /\ failed' = (IF ok THEN failed ELSE failed \cup {r})
        /\ state[r] = "open" /\ run(r).kind = "chain"
    BY <1>7 DEF on_chain_end, ends
  <2>2. CASE r \in DOMAIN run_open /\ close_run(r, ok)
    <3>1. PICK e : e = run_end(r, IF ok THEN "completed" ELSE "error", run_open[r])
      OBVIOUS
    <3>2. e.kind = "run/end" /\ e.run = r /\ (is_error(e) <=> ~ok)
      BY <3>1 DEF run_end, is_error
    <3>3. Wrote(e, r) /\ state' = [state EXCEPT ![r] = "over"]
      BY <2>2, <3>1, EmitWrote DEF close_run, over
    <3>4. is_graph(r)
      BY <1>1, <2>2 DEF KeptOf
    <3>5. end_kind(r) = "run/end" /\ Ending(r)
      BY <3>4 DEF end_kind, Ending, is_graph, is_node
    <3> QED
      BY <1>1, <2>1, <3>2, <3>3, <3>5, FailureEnd
  <2>3. CASE r \in DOMAIN node_open /\ close_node(r, ok)
    <3>1. PICK e : e = node_end(r, node_open[r], ok)
      OBVIOUS
    <3>2. e.kind = "node/end" /\ e.run = r /\ (is_error(e) <=> ~ok)
      BY <3>1 DEF node_end, is_error
    <3>3. Wrote(e, r)
      BY <2>3, <3>1, EmitWrote DEF close_node
    <3>4. PICK s \in {"counting", "over"} : state' = [state EXCEPT ![r] = s]
      BY <2>3 DEF close_node
    <3>5. is_node(r)
      BY <1>1, <2>3 DEF KeptOf
    <3>6. end_kind(r) = "node/end" /\ Ending(r)
      BY <2>1, <3>5 DEF end_kind, Ending
    <3> QED
      BY <1>1, <2>1, <3>2, <3>3, <3>4, <3>6, FailureEnd
  <2>4. CASE /\ r \notin DOMAIN run_open \cup DOMAIN node_open
             /\ over(r) /\ UNCHANGED <<log, lost>>
    <3>1. ~is_graph(r) /\ ~is_node(r)
      BY <1>1, <2>1, <2>4 DEF KeptOf
    <3>2. ~Ending(r)
      BY <2>1, <3>1 DEF Ending, end_kind
    <3> QED
      BY <1>1, <2>1, <2>4, <3>2, FailureSilent DEF over
  <2> QED
    BY <1>7, <2>2, <2>3, <2>4 DEF on_chain_end
<1>8. ASSUME NEW r \in Runs, NEW ok \in BOOLEAN, on_llm_end(r, ok) PROVE FInv'
  <2>1. PICK e : e = llm_call(r, llm_open[r], ok)
    OBVIOUS
  <2>2. /\ plan' = plan /\ failed' = (IF ok THEN failed ELSE failed \cup {r})
        /\ state[r] = "open" /\ state' = [state EXCEPT ![r] = "over"]
        /\ run(r).kind = "llm" /\ emit(e, r)
    BY <1>8, <2>1 DEF on_llm_end, ends, over
  <2>3. e.kind = "llm/call" /\ e.run = r /\ (is_error(e) <=> ~ok)
    BY <2>1 DEF llm_call, is_error
  <2>4. end_kind(r) = "llm/call" /\ Ending(r)
    BY <2>2 DEF end_kind, Ending, is_node
  <2> QED
    BY <1>1, <2>2, <2>3, <2>4, EmitWrote, FailureEnd
<1>9. ASSUME NEW r \in Runs, NEW ok \in BOOLEAN, on_tool_end(r, ok) PROVE FInv'
  <2>1. PICK e : e = tool_result(r, tool_open[r], ok)
    OBVIOUS
  <2>2. /\ plan' = plan /\ failed' = (IF ok THEN failed ELSE failed \cup {r})
        /\ state[r] = "open" /\ state' = [state EXCEPT ![r] = "over"]
        /\ run(r).kind = "tool" /\ emit(e, r)
    BY <1>9, <2>1 DEF on_tool_end, ends, over
  <2>3. e.kind = "tool/result" /\ e.run = r /\ (is_error(e) <=> ~ok)
    BY <2>1 DEF tool_result, is_error
  <2>4. end_kind(r) = "tool/result" /\ Ending(r)
    BY <2>2 DEF end_kind, Ending, is_node
  <2> QED
    BY <1>1, <2>2, <2>3, <2>4, EmitWrote, FailureEnd
<1>10. ASSUME NoEnd, plan' = plan, state' = state, failed' = failed PROVE FInv'
  BY <1>10, FailuresStay
<1>11. ASSUME NEW c, NEW parent, Snapshot(c, parent) PROVE FInv'
  <2>1. PICK e : e = state_snapshot(c, parent)
    OBVIOUS
  <2>2. e.kind \notin EndKinds
    BY <2>1 DEF state_snapshot, EndKinds
  <2>3. emit(e, c) /\ plan' = plan /\ state' = state /\ failed' = failed
    BY <1>11, <2>1 DEF Snapshot, history
  <2> QED
    BY <1>1, <1>10, <2>2, <2>3, EmitWrote, NoEndOther
<1>12. CASE Writes
  <2>1. PICK e : e = [kind |-> "checkpoint/writes"]
    OBVIOUS
  <2>2. e.kind \notin EndKinds
    BY <2>1 DEF EndKinds
  <2>3. emit(e, None) /\ plan' = plan /\ state' = state /\ failed' = failed
    BY <1>12, <2>1 DEF Writes, history
  <2> QED
    BY <1>1, <1>10, <2>2, <2>3, EmitWrote, NoEndOther
<1>13. CASE Crash
  <2>1. /\ plan' = plan /\ log' = log /\ lost' = lost /\ failed' = failed
        /\ state' = [r \in Runs |-> IF state[r] \in {"open", "counting"} THEN "died" ELSE state[r]]
    BY <1>13 DEF Crash
  <2>2. \A r \in Runs : state[r] \in Past => state'[r] \in Past
    BY <2>1 DEF Past
  <2> QED
    BY <2>1, <2>2, NoEndSame, FailuresStay
<1>14. CASE Restart
  BY <1>10, <1>14, NoEndSame DEF Restart, history
<1>15. CASE Repair
  <2>1. PICK e : e = run_end(None, "interrupted", 0)
    OBVIOUS
  <2>2. /\ log' = Append(log, e) /\ lost' = lost
        /\ plan' = plan /\ state' = state /\ failed' = failed
    BY <1>15, <2>1 DEF Repair, history
  <2>3. e.kind = "run/end" /\ e.run = None
    BY <2>1 DEF run_end
  <2> QED
    BY <1>1, <1>10, <2>2, <2>3, NoEndRepair
<1>16. CASE UNCHANGED vars
  BY <1>10, <1>16, NoEndSame DEF vars, history
<1> QED
  BY <1>3, <1>4, <1>5, <1>6, <1>7, <1>8, <1>9, <1>11, <1>12, <1>13, <1>14, <1>15, <1>16 DEF Next

-----------------------------------------------------------------------------
(***************************************************************************)
(* The theorems.                                                           *)
(***************************************************************************)
LEMMA Invariant == Spec => [](IInv /\ HInv)
  BY IInvInit, IInvNext, HInvInit, HInvNext, PTL DEF Spec

\* Whatever runs in parallel, is lost or dies: every tool/result has the label of
\* its call, every node/end and llm/call the node of its run (on_tool_end,
\* _close_node, on_llm_end).
THEOREM Pairing == Spec => []PairedByRun
<1>1. IInv => PairedByRun
  BY DEF IInv
<1> QED
  BY IInvInit, IInvNext, <1>1, PTL DEF Spec

\* The handler's dictionaries hold what is under way, no more and no less, also
\* after a strict recorder raised in the middle of a handler.
THEOREM Forgetting == Spec => []HandlerForgets
<1>1. IInv => HandlerForgets
  BY KeptForgets DEF IInv
<1> QED
  BY IInvInit, IInvNext, <1>1, PTL DEF Spec

\* The variables keep their types; no run counts more steps than its plan has
\* nodes (_run_open of callbacks.py).
THEOREM TypeCorrect == Spec => []TypeOK
<1>1. IInv /\ HInv => TypeOK
  <2> SUFFICES ASSUME IInv, HInv PROVE TypeOK
    OBVIOUS
  <2>1. \A i \in DOMAIN log : log[i].kind \in Kinds
    BY DEF HInv, Happened, happened
  <2>2. ASSUME NEW g \in DOMAIN run_open
        PROVE  run_open[g] \in 0..Cardinality({r \in Runs : is_node(r)})
    <3>1. Nodes({"counting", "over"}) \subseteq {r \in Runs : is_node(r)}
      BY DEF Nodes
    <3>2. IsFiniteSet({r \in Runs : is_node(r)})
      BY Parents, FS_Subset DEF HInv
    <3>3. /\ Cardinality(Nodes({"counting", "over"})) <= Cardinality({r \in Runs : is_node(r)})
          /\ Cardinality({r \in Runs : is_node(r)}) \in Nat
      BY <3>1, <3>2, FS_Subset, FS_CardinalityType
    <3>4. /\ Cardinality(Nodes({"counting", "over"})) \in Nat
          /\ Cardinality(Nodes({"counting"})) \in Nat
      BY NodesFinite DEF HInv
    <3>5. /\ run_open[g] \in Nat
          /\ run_open[g] + Cardinality(Nodes({"counting"})) <= Cardinality(Nodes({"counting", "over"}))
      BY DEF HInv, Bounded
    <3> QED
      BY <3>3, <3>4, <3>5
  <2>3. UNION {starts, failed, overlapped, DOMAIN run_open, DOMAIN node_open,
               DOMAIN llm_open, DOMAIN tool_open} \subseteq Runs
    BY DEF IInv, Kept, HInv, Beside
  <2> QED
    BY <2>1, <2>2, <2>3 DEF TypeOK, IInv, HInv, Finite, States
<1> QED
  BY Invariant, <1>1, PTL

\* An open bracket means "died here": the last run/start has a run/end behind it
\* exactly if its run ended, or died and was repaired (on_chain_start,
\* _close_run and close_orphaned_run).
THEOREM Verdict == Spec => []BracketsTellCrash
<1>1. IInv /\ HInv => BracketsTellCrash
  <2> SUFFICES ASSUME IInv, HInv PROVE BracketsTellCrash
    OBVIOUS
  <2>1. ASSUME Whole, NEW i \in last(at(log, "run/start"))
        PROVE  /\ TellsOf(i) /\ state[log[i].run] \in {"open", "over", "died"}
               /\ behind(i) = {j \in at(log, "run/end") : j > i}
    <3>1. happened(log[i]) /\ log[i].kind = "run/start"
      BY DEF last, at, HInv, Happened
    <3>2. state[log[i].run] \in States
      BY <3>1 DEF happened, IInv
    <3> QED
      BY <2>1, <3>1, <3>2 DEF HInv, Tells, happened, States, behind
  <2> QED
    BY <2>1 DEF BracketsTellCrash, Whole, TellsOf
<1> QED
  BY Invariant, <1>1, PTL

\* The steps of a run/end are the node/ends of its run, on record or lost by a
\* fail-soft recorder, if no other graph run was open on the same handler and no
\* node runs outside of a graph (_close_node and _run_open).
THEOREM Steps == ASSUME NodesInGraphs PROVE Spec => []StepsCountNodes
<1>1. IInv /\ HInv => StepsCountNodes
  <2> SUFFICES ASSUME HInv, NEW i \in at(log, "run/end"), NEW g, g = log[i].run,
                      g # None, g \notin overlapped
               PROVE  log[i].steps = Cardinality(EndsOf(g)) + Cardinality(LostOf(g))
    BY DEF StepsCountNodes, EndsOf, LostOf
  <2> QED
    BY DEF HInv, Total
<1> QED
  BY Invariant, <1>1, PTL

LEMMA Failures == Spec => [](IInv /\ HInv /\ FInv)
  BY IInvInit, IInvNext, HInvInit, HInvNext, FInvInit, FInvNext, PTL DEF Spec

\* The report names each failed node, model call and tool call once and in order,
\* unless its end was lost, and counts the failed ones among the models and the
\* node times; the DAG marks them and the failed graph runs (on_chain_error,
\* on_llm_error, on_tool_error; the three chains of analyze_log; _is_error).
THEOREM Reporting == Spec => []FailuresReported
<1>1. ASSUME IInv, HInv, FInv PROVE FailuresReported
  <2> DEFINE report == analyze_log(log)
             on_record == {r \in failed : /\ is_graph(r) \/ end_kind(r) # "run/end"
                                          /\ <<end_kind(r), r>> \notin lost}
  <2>1. PICK E : log \in Seq(E)
    BY <1>1 DEF IInv, IsLog
  <2>2. /\ \A m, n \in DOMAIN report.errors : m < n => report.errors[m] < report.errors[n]
        /\ \A n \in DOMAIN report.errors :
             report.errors[n] \in DOMAIN log /\ Failing(log[report.errors[n]])
        /\ \A i \in DOMAIN log : Failing(log[i]) =>
             \E n \in DOMAIN report.errors : report.errors[n] = i
        /\ report.models = at(log, "llm/call") /\ report.node_time = at(log, "node/end")
    BY <2>1, ReportLists
  <2>3. None \notin Runs /\ failed \subseteq Runs
    BY <1>1, PlansAssumption DEF HInv, Runs, FInv
  <2>4. ASSUME NEW i \in DOMAIN log, is_error(log[i]), log[i].run # None
        PROVE  log[i].run \in on_record /\ log[i].kind = end_kind(log[i].run)
    <3>1. told(log[i]) /\ log[i].kind \in EndKinds
      BY <1>1, <2>4 DEF FInv, is_error, EndKinds
    <3>2. /\ log[i].run \in Runs /\ log[i].kind = end_kind(log[i].run)
          /\ Ending(log[i].run) /\ log[i].run \in failed
      BY <2>4, <3>1 DEF told
    <3>3. HasEnd(log, log[i].run)
      BY <3>2 DEF HasEnd
    <3>4. <<end_kind(log[i].run), log[i].run>> \notin lost
      BY <1>1, <3>2, <3>3 DEF FInv
    <3> QED
      BY <3>2, <3>4 DEF Ending
  <2>5. ASSUME NEW r \in on_record
        PROVE  \E i \in DOMAIN log : is_error(log[i]) /\ log[i].run = r /\ log[i].kind = end_kind(r)
    <3>1. HasEnd(log, r)
      BY <1>1 DEF FInv, Ending
    <3>2. PICK i \in DOMAIN log : log[i].kind = end_kind(r) /\ log[i].run = r
      BY <3>1 DEF HasEnd
    <3>3. told(log[i]) /\ log[i].kind \in EndKinds
      BY <1>1, <2>3, <3>2, EndKind DEF FInv
    <3>4. is_error(log[i])
      BY <2>3, <3>2, <3>3 DEF told
    <3> QED
      BY <3>2, <3>4
  <2>6. \A i \in DOMAIN log : Failing(log[i]) => is_error(log[i]) /\ log[i].kind # "run/end"
    BY DEF Failing, Fails, is_error
  <2>7. \A i \in DOMAIN log : is_error(log[i]) /\ log[i].kind # "run/end" => Failing(log[i])
    BY DEF Failing, Fails, is_error
  <2>8. \A r \in Runs : is_graph(r) => end_kind(r) = "run/end"
    BY DEF is_graph, is_node, end_kind
  <2>9. \A i \in DOMAIN log : Failing(log[i]) => log[i].run # None
    <3> SUFFICES ASSUME NEW i \in DOMAIN log, Failing(log[i]) PROVE log[i].run # None
      OBVIOUS
    <3>1. told(log[i]) /\ log[i].kind \in EndKinds /\ log[i].kind # "run/end"
      BY <1>1 DEF FInv, Failing, Fails, EndKinds
    <3> QED
      BY <2>3, <3>1 DEF told
  <2> HIDE DEF report, on_record
  <2>10. {log[report.errors[n]].run : n \in DOMAIN report.errors} = {r \in on_record : ~is_graph(r)}
    <3>1. ASSUME NEW n \in DOMAIN report.errors
          PROVE  log[report.errors[n]].run \in {r \in on_record : ~is_graph(r)}
      <4>1. PICK i \in DOMAIN log : i = report.errors[n] /\ Failing(log[i])
        BY <2>2
      <4>2. log[i].run \in on_record /\ log[i].kind = end_kind(log[i].run) /\ log[i].kind # "run/end"
        BY <2>4, <2>6, <2>9, <4>1
      <4>3. log[i].run \in Runs
        BY <2>3, <4>2 DEF on_record
      <4> QED
        BY <2>8, <4>1, <4>2, <4>3
    <3>2. ASSUME NEW r \in on_record, ~is_graph(r)
          PROVE  \E n \in DOMAIN report.errors : log[report.errors[n]].run = r
      <4>1. PICK i \in DOMAIN log : is_error(log[i]) /\ log[i].run = r /\ log[i].kind = end_kind(r)
        BY <2>5
      <4>2. log[i].kind # "run/end"
        BY <3>2, <4>1 DEF on_record
      <4> QED
        BY <2>2, <2>7, <4>1, <4>2
    <3> QED
      BY <3>1, <3>2
  <2>11. {log[i].run : i \in error_nodes(log)} \ {None} = on_record
    <3>1. None \notin on_record
      BY <2>3 DEF on_record
    <3> QED
      BY <2>4, <2>5, <3>1 DEF error_nodes
  <2> QED
    BY <2>2, <2>10, <2>11 DEF FailuresReported, report, on_record
<1> QED
  BY Failures, <1>1, PTL

\* The streaks of the failure report are the longest blocks of repeated calls,
\* whatever the log (the loop of analyze_log).
THEOREM LongestBlocks == Spec => []StreaksExact
<1>1. IInv => StreaksExact
  BY StreaksExactOn DEF IInv, IsLog, StreaksExact
<1> QED
  BY IInvInit, IInvNext, <1>1, PTL DEF Spec

LEMMA Records == Spec => [](IInv /\ RInv)
  BY IInvInit, IInvNext, RInvInit, RInvNext, PTL DEF Spec

\* The one pass of build_dag draws the edges of the definition and no other, each
\* of the most semantic kind that connects its pair.
THEOREM DagExact == Spec => []DagMatches
<1>1. IInv /\ RInv => DagMatches
  BY DagMatchesOn DEF IInv, IsLog, RInv, DagMatches
<1> QED
  BY Records, <1>1, PTL

\* A call edge joins the call and the result of one run, with any number of calls
\* of one label under way; only a lost call is replaced by another one.
THEOREM CallEdges == Spec => []CallEdgesTrue
<1>1. ASSUME IInv, RInv PROVE CallEdgesTrue
  <2> DEFINE edges == build_dag(log).edges
  <2>1. dag_as_related(log)
    BY <1>1, DagMatchesOn DEF IInv, IsLog, RInv
  <2> SUFFICES ASSUME NEW j \in at(log, "tool/result"), NEW i \in at(log, "tool/call"),
                      <<"tool/call", log[j].run>> \notin lost
               PROVE  log[i].run = log[j].run
                        <=> <<i, j>> \in DOMAIN edges /\ edges[<<i, j>>] = "call"
    BY DEF CallEdgesTrue
  <2>2. i \in DOMAIN log /\ j \in DOMAIN log /\ log[j].kind = "tool/result"
    BY DEF at
  <2>3. PICK c \in at(log, "tool/call") : log[c].run = log[j].run /\ c < j
    BY <1>1 DEF RInv, answered, OnRecord
  <2> DEFINE own == {n \in at(log, "tool/call") : n < j /\ log[n].run = log[j].run}
  <2>4. relations(log, i, j) \subseteq {"chain", "call"}
        /\ ("call" \in relations(log, i, j) <=> i \in own)
    <3>1. c \in own
      BY <2>3
    <3> QED
      BY <2>2, <3>1 DEF relations
  <2>5. log[i].run = log[j].run <=> i \in own
    BY <1>1 DEF RInv, answered
  <2>6. <<i, j>> \in DOMAIN edges <=> i < j /\ relations(log, i, j) # {}
    BY <2>1, <2>2 DEF dag_as_related
  <2>7. <<i, j>> \in DOMAIN edges =>
          /\ edges[<<i, j>>] \in relations(log, i, j)
          /\ \A k \in relations(log, i, j) : Priority[k] <= Priority[edges[<<i, j>>]]
    BY <2>1, <2>2 DEF dag_as_related
  <2> HIDE DEF edges
  <2>8. i \in own => i < j
    OBVIOUS
  <2> HIDE DEF own
  <2> QED
    BY <2>4, <2>5, <2>6, <2>7, <2>8, Priorities
<1> QED
  BY Records, <1>1, PTL

\* The replay surfaces the labels of the unanswered calls that no result of their
\* label follows, and no other: pending_calls is keyed by label, and a result
\* that has its call on record stands behind it (replay_messages of replay.py).
THEOREM Surfaced == Spec => []ReplayHonest
<1>1. ASSUME IInv, RInv PROVE ReplayHonest
  <2>1. PICK E : log \in Seq(E)
    BY <1>1 DEF IInv, IsLog
  <2>2. interrupted_labels(log) = {log[i].label : i \in pending(log, Len(log))}
    BY <2>1, InterruptedOn
  <2>3. DOMAIN log = 1..Len(log) /\ Len(log) \in Nat
    BY <2>1
  <2> DEFINE silent == {i \in at(log, "tool/call") :
                          \A j \in at(log, "tool/result") : log[j].label = log[i].label => j < i}
  <2>4. pending(log, Len(log)) = silent
    BY <2>3 DEF pending, at
  <2>5. ASSUME NEW i \in silent PROVE i \in unanswered(log)
    <3>1. SUFFICES ASSUME NEW j \in at(log, "tool/result"), log[j].run = log[i].run PROVE FALSE
      BY DEF unanswered
    <3>2. j \in DOMAIN log /\ log[j].kind = "tool/result" /\ i \in 1..Len(log) /\ j \in 1..Len(log)
      BY <2>3 DEF at
    <3>3. log[j].label = run(log[j].run).label
      BY <1>1, <3>2 DEF IInv, PairedByRun
    <3>4. log[i].label = log[j].label
      BY <1>1, <3>1, <3>3 DEF RInv, called
    <3>5. i < j /\ j < i
      BY <1>1, <3>1, <3>4 DEF RInv, answered
    <3> QED
      BY <2>3, <3>2, <3>5
  <2>6. silent = {n \in unanswered(log) :
                    \A j \in at(log, "tool/result") : log[j].label = log[n].label => j < n}
    BY <2>5 DEF unanswered
  <2> HIDE DEF silent
  <2> QED
    BY <2>2, <2>4, <2>6 DEF ReplayHonest
<1> QED
  BY Records, <1>1, PTL
=============================================================================
