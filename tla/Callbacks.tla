------------------------------ MODULE Callbacks ------------------------------
(***************************************************************************)
(* callbacks.py: one DshTraceCallbackHandler on the LangChain runs of a    *)
(* process, and the log it writes through a recorder, next to the          *)
(* checkpointer's events.  Runs in parallel call the handler from threads  *)
(* of their own.  A plan says which runs there are: their parent, the run  *)
(* they come after, the node their metadata names, the label of a tool     *)
(* call; when they start and end is open.  LangChain ends a run after its  *)
(* children, and swallows what a handler raises.                           *)
(*                                                                         *)
(* An append may fail: a fail-soft recorder loses the event, a strict one  *)
(* also leaves the handler at that point.  The process may die and start   *)
(* again with a fresh handler; the runs that were under way have died.     *)
(***************************************************************************)
EXTENDS Timeline, FiniteSets

CONSTANTS Plans, None,
          MaxTrouble    \* bound for TLC: lost events, errors and crashes

\* LangChain names as a parent only a run that it has announced.
ASSUME PlansAssumption ==
  /\ MaxTrouble \in Nat
  /\ \A p \in Plans :
       /\ IsFiniteSet(DOMAIN p.runs) /\ None \notin DOMAIN p.runs
       /\ \A r \in DOMAIN p.runs : p.runs[r].parent \in DOMAIN p.runs \cup {None}

VARIABLES
  plan,         \* the runs of LangChain, and of how many checkpoint events
  strict,       \* the recorder is strict
  log,          \* the recorded events
  alive,        \* the process runs
  state,        \* per run: "new", "open", "counting", "over" or "died"
  starts,       \* handler._starts: the runs with a start time
  run_open,     \* handler._run_open: run -> steps
  node_open,    \* handler._node_open: run -> node
  llm_open,     \* handler._llm_open: run -> node
  tool_open,    \* handler._tool_open: run -> label
  lost,         \* history: the events whose append failed
  failed,       \* history: the runs that ended with an error
  overlapped,   \* history: the graph runs that were open beside another one
  crashes

handler == <<starts, run_open, node_open, llm_open, tool_open>>
history == <<failed, overlapped, crashes>>
vars == <<plan, strict, log, alive, state, handler, lost, history>>

Runs == DOMAIN plan.runs
run(r) == plan.runs[r]

\* A top-level run without node metadata: one invocation of a graph.
is_graph(r) == run(r).kind = "chain" /\ run(r).parent = None /\ run(r).node = None
is_node(r) == run(r).kind = "chain" /\ run(r).node # None

Init ==
  /\ plan \in Plans /\ strict \in BOOLEAN
  /\ log = <<>> /\ alive = TRUE
  /\ state = [r \in Runs |-> "new"]
  /\ starts = {} /\ run_open = <<>> /\ node_open = <<>>
  /\ llm_open = <<>> /\ tool_open = <<>>
  /\ lost = {} /\ failed = {} /\ overlapped = {} /\ crashes = 0

trouble == Cardinality(lost) + Cardinality(failed) + crashes < MaxTrouble

-----------------------------------------------------------------------------
(***************************************************************************)
(* What the handlers share.                                                *)
(***************************************************************************)
pop(d, r) == Restrict(d, DOMAIN d \ {r})

\* emit: the event is appended, or lost.
emit(e, x) ==
  \/ log' = Append(log, e) /\ UNCHANGED lost
  \/ /\ trouble
     /\ lost' = lost \cup {<<e.kind, x>>}
     /\ UNCHANGED log

\* emit raised.
raised == strict /\ lost' # lost

begins(r, kind) ==
  /\ alive /\ state[r] = "new" /\ run(r).kind = kind
  /\ run(r).parent # None => state[run(r).parent] = "open"
  /\ run(r).after # None => state[run(r).after] = "over"
  /\ state' = [state EXCEPT ![r] = "open"]
  /\ UNCHANGED <<plan, strict, alive, failed, crashes>>

\* r is about to end, with an error or without.
ends(r, ok) ==
  /\ alive /\ state[r] = "open"
  /\ \A q \in Runs : run(q).parent = r => state[q] \in {"new", "over"}
  /\ ~ok => trouble
  /\ failed' = IF ok THEN failed ELSE failed \cup {r}
  /\ UNCHANGED <<plan, strict, alive, overlapped, crashes>>

over(r) == state' = [state EXCEPT ![r] = "over"]

-----------------------------------------------------------------------------
(***************************************************************************)
(* The events.  The log names the run of nodes and tools only: the field   *)
(* run of run/start, run/end and llm/call is there for the properties.     *)
(***************************************************************************)
run_start(r) == [kind |-> "run/start", run |-> r]

run_end(r, status, steps) ==
  [kind |-> "run/end", run |-> r, status |-> status, steps |-> steps]

node_start(r, node) == [kind |-> "node/start", run |-> r, node |-> node]

node_end(r, node, ok) == [kind |-> "node/end", run |-> r, node |-> node, ok |-> ok]

llm_call(r, node, ok) == [kind |-> "llm/call", run |-> r, node |-> node, ok |-> ok]

tool_call(r, label) == [kind |-> "tool/call", run |-> r, label |-> label]

tool_result(r, label, ok) ==
  [kind |-> "tool/result", run |-> r, label |-> label, ok |-> ok]

state_snapshot(c, parent) == [kind |-> "state/snapshot", cp |-> c, parent |-> parent]

-----------------------------------------------------------------------------
(***************************************************************************)
(* Graph runs and nodes.                                                   *)
(***************************************************************************)
on_chain_start(r) ==
  /\ begins(r, "chain")
  /\ \/ /\ is_graph(r)
        /\ starts' = starts \cup {r}
        /\ run_open' = put(run_open, r, 0)
        /\ emit(run_start(r), r)
        /\ overlapped' = IF DOMAIN run_open = {} THEN overlapped
                         ELSE overlapped \cup DOMAIN run_open \cup {r}
        /\ UNCHANGED node_open
     \/ /\ is_node(r)
        /\ starts' = starts \cup {r}
        /\ node_open' = put(node_open, r, run(r).node)
        /\ emit(node_start(r, run(r).node), r)
        /\ UNCHANGED <<run_open, overlapped>>
     \/ /\ ~is_graph(r) /\ ~is_node(r)
        /\ UNCHANGED <<starts, run_open, node_open, log, lost, overlapped>>
  /\ UNCHANGED <<llm_open, tool_open>>

close_run(r, ok) ==
  /\ run_open' = pop(run_open, r)
  /\ starts' = starts \ {r}
  /\ emit(run_end(r, IF ok THEN "completed" ELSE "error", run_open[r]), r)
  /\ over(r)
  /\ UNCHANGED node_open

\* A mutant of close_node: the steps are counted even if emit raised.
close_node_finally(r, ok) ==
  /\ node_open' = pop(node_open, r)
  /\ starts' = starts \ {r}
  /\ emit(node_end(r, node_open[r], ok), r)
  /\ state' = [state EXCEPT ![r] = "counting"]
  /\ UNCHANGED run_open

\* The node is closed; its step is counted after emit.
close_node(r, ok) ==
  /\ node_open' = pop(node_open, r)
  /\ starts' = starts \ {r}
  /\ emit(node_end(r, node_open[r], ok), r)
  /\ state' = [state EXCEPT ![r] = IF raised THEN "over" ELSE "counting"]
  /\ UNCHANGED run_open

\* A mutant of on_chain_end: an error always closes a node.
on_chain_end_node(r, ok) ==
  /\ run(r).kind = "chain" /\ ends(r, ok)
  /\ \/ ok /\ r \in DOMAIN run_open /\ close_run(r, ok)
     \/ r \in DOMAIN node_open /\ close_node(r, ok)
     \/ /\ (ok => r \notin DOMAIN run_open) /\ r \notin DOMAIN node_open
        /\ over(r)
        /\ UNCHANGED <<starts, run_open, node_open, log, lost>>
  /\ UNCHANGED <<llm_open, tool_open>>

\* on_chain_end, and on_chain_error if not ok.
on_chain_end(r, ok) ==
  /\ run(r).kind = "chain" /\ ends(r, ok)
  /\ \/ r \in DOMAIN run_open /\ close_run(r, ok)
     \/ r \notin DOMAIN run_open /\ r \in DOMAIN node_open /\ close_node(r, ok)
     \/ /\ r \notin DOMAIN run_open \cup DOMAIN node_open
        /\ over(r)
        /\ UNCHANGED <<starts, run_open, node_open, log, lost>>
  /\ UNCHANGED <<llm_open, tool_open>>

\* A mutant of count_step: each open run is counted once per open run.
count_step_squared(r) ==
  /\ alive /\ state[r] = "counting"
  /\ run_open' = [g \in DOMAIN run_open |-> run_open[g] + Cardinality(DOMAIN run_open)]
  /\ over(r)
  /\ UNCHANGED <<plan, strict, log, alive, starts, node_open, llm_open, tool_open,
                 lost, history>>

\* The end of close_node: every open run has one more step.  The loop takes no
\* lock: a thread that opens or closes another run under it breaks it off with
\* an exception, and the runs behind the first may miss the step.
count_step(r) ==
  /\ alive /\ state[r] = "counting"
  /\ \E missed \in SUBSET DOMAIN run_open :
       /\ missed # {} => missed # DOMAIN run_open
       /\ run_open' = [g \in DOMAIN run_open |->
                         IF g \in missed THEN run_open[g] ELSE run_open[g] + 1]
  /\ over(r)
  /\ UNCHANGED <<plan, strict, log, alive, starts, node_open, llm_open, tool_open,
                 lost, history>>

-----------------------------------------------------------------------------
(***************************************************************************)
(* LLM and tool calls.                                                     *)
(***************************************************************************)
on_llm_start(r) ==
  /\ begins(r, "llm")
  /\ starts' = starts \cup {r}
  /\ llm_open' = put(llm_open, r, run(r).node)
  /\ UNCHANGED <<log, lost, run_open, node_open, tool_open, overlapped>>

\* on_llm_end, and on_llm_error if not ok.
on_llm_end(r, ok) ==
  /\ run(r).kind = "llm" /\ ends(r, ok) /\ over(r)
  /\ starts' = starts \ {r}
  /\ llm_open' = pop(llm_open, r)
  /\ emit(llm_call(r, llm_open[r], ok), r)
  /\ UNCHANGED <<run_open, node_open, tool_open>>

on_tool_start(r) ==
  /\ begins(r, "tool")
  /\ starts' = starts \cup {r}
  /\ tool_open' = put(tool_open, r, run(r).label)
  /\ emit(tool_call(r, run(r).label), r)
  /\ UNCHANGED <<run_open, node_open, llm_open, overlapped>>

\* A mutant of on_tool_end: any open call is taken for the one that ends.
on_tool_end_any(r, ok) ==
  /\ run(r).kind = "tool" /\ ends(r, ok) /\ over(r)
  /\ starts' = starts \ {r}
  /\ \E q \in DOMAIN tool_open :
       /\ tool_open' = pop(tool_open, q)
       /\ emit(tool_result(r, tool_open[q], ok), r)
  /\ UNCHANGED <<run_open, node_open, llm_open>>

\* A mutant of on_tool_end: the open call is removed after emit.
on_tool_end_late(r, ok) ==
  /\ run(r).kind = "tool" /\ ends(r, ok) /\ over(r)
  /\ starts' = starts \ {r}
  /\ emit(tool_result(r, tool_open[r], ok), r)
  /\ tool_open' = IF raised THEN tool_open ELSE pop(tool_open, r)
  /\ UNCHANGED <<run_open, node_open, llm_open>>

\* on_tool_end, and on_tool_error if not ok.
on_tool_end(r, ok) ==
  /\ run(r).kind = "tool" /\ ends(r, ok) /\ over(r)
  /\ starts' = starts \ {r}
  /\ tool_open' = pop(tool_open, r)
  /\ emit(tool_result(r, tool_open[r], ok), r)
  /\ UNCHANGED <<run_open, node_open, llm_open>>

-----------------------------------------------------------------------------
(***************************************************************************)
(* The other writers of the log, and the life of the process.              *)
(***************************************************************************)
\* A put of the checkpointer during a run, behind any earlier checkpoint.
Snapshot(c, parent) ==
  /\ alive /\ DOMAIN run_open # {}
  /\ Cardinality(at(log, "state/snapshot")) < plan.snapshots
  /\ parent # None => parent < c
  /\ emit(state_snapshot(c, parent), c)
  /\ UNCHANGED <<plan, strict, alive, state, handler, history>>

\* A put_writes of the checkpointer.
Writes ==
  /\ alive /\ DOMAIN run_open # {}
  /\ Cardinality(at(log, "checkpoint/writes")) < plan.writes
  /\ emit([kind |-> "checkpoint/writes"], None)
  /\ UNCHANGED <<plan, strict, alive, state, handler, history>>

Crash ==
  /\ alive /\ trouble
  /\ alive' = FALSE /\ crashes' = crashes + 1
  /\ state' = [r \in Runs |-> IF state[r] \in {"open", "counting"} THEN "died" ELSE state[r]]
  /\ starts' = {} /\ run_open' = <<>> /\ node_open' = <<>>
  /\ llm_open' = <<>> /\ tool_open' = <<>>
  /\ UNCHANGED <<plan, strict, log, lost, failed, overlapped>>

Restart ==
  /\ ~alive /\ alive' = TRUE
  /\ UNCHANGED <<plan, strict, log, state, handler, lost, history>>

\* close_orphaned_run, if the last bracket of the log is open.
Repair ==
  /\ ~alive
  /\ \E i \in last(at(log, "run/start") \cup at(log, "run/end")) :
       log[i].kind = "run/start"
  /\ log' = Append(log, run_end(None, "interrupted", 0))
  /\ UNCHANGED <<plan, strict, alive, state, handler, lost, history>>

Next ==
  \/ \E r \in Runs :
       \/ on_chain_start(r) \/ count_step(r)
       \/ on_llm_start(r) \/ on_tool_start(r)
       \/ \E ok \in BOOLEAN : on_chain_end(r, ok) \/ on_llm_end(r, ok) \/ on_tool_end(r, ok)
  \/ \E c \in 1..plan.snapshots, p \in {None} \cup 1..plan.snapshots : Snapshot(c, p)
  \/ Writes
  \/ Crash
  \/ Restart
  \/ Repair

Spec == Init /\ [][Next]_vars

-----------------------------------------------------------------------------
(***************************************************************************)
(* Properties of the handler.                                              *)
(***************************************************************************)
\* The types of the variables.
TypeOK ==
  /\ plan \in Plans /\ strict \in BOOLEAN /\ alive \in BOOLEAN
  /\ \A i \in DOMAIN log : log[i].kind \in Kinds
  /\ state \in [Runs -> {"new", "open", "counting", "over", "died"}]
  /\ UNION {starts, failed, overlapped, DOMAIN run_open, DOMAIN node_open,
            DOMAIN llm_open, DOMAIN tool_open} \subseteq Runs
  /\ \A g \in DOMAIN run_open : run_open[g] \in 0..Cardinality({r \in Runs : is_node(r)})
  /\ crashes \in 0..MaxTrouble

\* "LLM/tool activity is paired by run id - the tool result carries the same
\* content label as its call": whatever runs in parallel, a result, a node/end
\* and an llm/call say of their run what its start said.
PairedByRun ==
  \A i \in DOMAIN log :
    CASE log[i].kind = "tool/result" -> log[i].label = run(log[i].run).label
      [] log[i].kind \in {"node/end", "llm/call"} -> log[i].node = run(log[i].run).node
      [] OTHER -> TRUE

\* The handler keeps exactly what is under way: nothing is left behind when an
\* event is lost or the recorder raises, and nothing is dropped early.
HandlerForgets ==
  LET open(P(_)) == {r \in Runs : state[r] = "open" /\ P(r)} IN
  /\ DOMAIN run_open = open(is_graph)
  /\ DOMAIN node_open = open(is_node)
  /\ DOMAIN llm_open = open(LAMBDA r : run(r).kind = "llm")
  /\ DOMAIN tool_open = open(LAMBDA r : run(r).kind = "tool")
  /\ starts = UNION {DOMAIN run_open, DOMAIN node_open, DOMAIN llm_open, DOMAIN tool_open}

\* The graph run at the top of a run.
graph_of[r \in Runs] == IF run(r).parent = None THEN r ELSE graph_of[run(r).parent]

\* The steps of a run/end are the node/ends of its run on record; a fail-soft
\* recorder also counts those it lost.  (Runs that share the handler count each
\* other's nodes.)
StepsCountNodes ==
  \A i \in at(log, "run/end") :
    LET g == log[i].run IN
    g # None /\ g \notin overlapped =>
      log[i].steps =
        Cardinality({j \in at(log, "node/end") : graph_of[log[j].run] = g})
          + Cardinality({x \in lost : ~strict /\ x[1] = "node/end" /\ graph_of[x[2]] = g})

\* "an unclosed run/start means 'died here'": the last run/start has a run/end
\* behind it exactly if its run ended, or died and was repaired.
BracketsTellCrash ==
  overlapped = {} /\ (\A x \in lost : x[1] \notin {"run/start", "run/end"}) =>
    \A i \in last(at(log, "run/start")) :
      LET behind == {j \in at(log, "run/end") : j > i} IN
      CASE state[log[i].run] = "open" -> behind = {}
        [] state[log[i].run] = "over" ->
             \E j \in behind : behind = {j} /\ log[j].status =
               (IF log[i].run \in failed THEN "error" ELSE "completed")
        [] state[log[i].run] = "died" -> \A j \in behind : log[j].status = "interrupted"

-----------------------------------------------------------------------------
(***************************************************************************)
(* Properties of what is read from the log.                                *)
(***************************************************************************)
\* "call - tool/call -> its tool/result": a call edge joins the two events of
\* one run, and every result on record whose call is on record has its edge,
\* with any number of calls of one label under way.
CallEdgesTrue ==
  LET edges == build_dag(log).edges IN
  \A j \in at(log, "tool/result"), i \in at(log, "tool/call") :
    <<"tool/call", log[j].run>> \notin lost =>
      (log[i].run = log[j].run
        <=> <<i, j>> \in DOMAIN edges /\ edges[<<i, j>>] = "call")

\* The edges of the DAG are those of its definition, with their priority.
DagMatches == dag_as_related(log)

\* "a call whose result never arrived (crash mid-tool) is surfaced", as far as
\* a label tells calls apart: the labels the replay reports as interrupted are
\* those of the calls without a result that no result of that label follows.
ReplayHonest ==
  interrupted_labels(log) =
    {log[i].label : i \in {n \in unanswered(log) :
       \A j \in at(log, "tool/result") : log[j].label = log[n].label => j < n}}

\* "unfinished tool calls surface as interrupted, never silently dropped": every
\* call on record that died with its process is surfaced.
UnfinishedSurface ==
  \A i \in unanswered(log) :
    state[log[i].run] = "died" => log[i].label \in interrupted_labels(log)

\* The streaks of the failure report are the longest blocks of repeated calls.
StreaksExact == streaks_as_blocks(log)

\* The last event of a run.
end_kind(r) ==
  CASE run(r).kind = "llm" -> "llm/call"
    [] run(r).kind = "tool" -> "tool/result"
    [] is_node(r) -> "node/end"
    [] OTHER -> "run/end"

\* "error events and node timings ... a compact first-stop failure report": it
\* names, each once and in their order, the node, model and tool runs that
\* failed, if their end was not lost, and counts the failed ones with the others;
\* the DAG marks them and the failed graph runs.
FailuresReported ==
  LET report == analyze_log(log)
      on_record == {r \in failed : /\ is_graph(r) \/ end_kind(r) # "run/end"
                                   /\ <<end_kind(r), r>> \notin lost}
  IN /\ \A m, n \in DOMAIN report.errors : m < n => report.errors[m] < report.errors[n]
     /\ {log[report.errors[n]].run : n \in DOMAIN report.errors}
          = {r \in on_record : ~is_graph(r)}
     /\ report.models = at(log, "llm/call") /\ report.node_time = at(log, "node/end")
     /\ {log[i].run : i \in error_nodes(log)} \ {None} = on_record
=============================================================================
