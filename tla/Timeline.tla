------------------------------ MODULE Timeline ------------------------------
(***************************************************************************)
(* What is computed from one recorded log: the run DAG (dag.py), the       *)
(* message timeline (replay.py) and the failure report (analysis.py).      *)
(* Each is one pass over the events, written as a fold over the positions  *)
(* of the log; seq is the position.  Below them stand the definitions they *)
(* are compared with, which look at the whole log at once.                 *)
(*                                                                         *)
(* An event is a record with its kind; ok tells an event without an error  *)
(* from one with.  Names, texts, digests and durations are left out, and   *)
(* so is the kind "error", which nothing under src/ records.               *)
(***************************************************************************)
EXTENDS Naturals, SequencesExt

Kinds == {"run/start", "run/end", "node/start", "node/end", "llm/call",
          "tool/call", "tool/result", "state/snapshot", "checkpoint/writes"}

\* d[k] = v, and d.setdefault(k, v).
put(d, k, v) == [x \in DOMAIN d \cup {k} |-> IF x = k THEN v ELSE d[x]]
put_first(d, k, v) == IF k \in DOMAIN d THEN d ELSE put(d, k, v)

\* The positions of the events of one kind.
at(log, kind) == {i \in DOMAIN log : log[i].kind = kind}

-----------------------------------------------------------------------------
(***************************************************************************)
(* The DAG.                                                                *)
(***************************************************************************)
Priority == [parent |-> 4, call |-> 3, writes |-> 2, chain |-> 1]

\* A mutant of add_edge: the first kind of a pair stays.
add_edge_first(edges, src, dst, kind) == put_first(edges, <<src, dst>>, kind)

add_edge(edges, src, dst, kind) ==
  IF <<src, dst>> \in DOMAIN edges /\ Priority[edges[<<src, dst>>]] >= Priority[kind]
    THEN edges
    ELSE put(edges, <<src, dst>>, kind)

\* _is_error.
is_error(e) ==
  CASE e.kind \in {"tool/result", "llm/call", "node/end"} -> ~e.ok
    [] e.kind = "run/end" -> e.status # "completed"
    [] OTHER -> FALSE

\* A mutant of source: the first call of the label comes first.
source_by_label(dag, e) ==
  IF e.label \in DOMAIN dag.call_by_label THEN {dag.call_by_label[e.label]} ELSE {}

\* The call a result belongs to: that of its run, else the first of its label.
source(dag, e) ==
  CASE e.run \in DOMAIN dag.call_by_run -> {dag.call_by_run[e.run]}
    [] e.run \notin DOMAIN dag.call_by_run /\ e.label \in DOMAIN dag.call_by_label ->
         {dag.call_by_label[e.label]}
    [] OTHER -> {}

\* The loop body of build_dag; the log is chained, so prev is the event before.
visit(log, dag0, i) ==
  LET e == log[i]
      dag == IF i = 1 THEN dag0
             ELSE [dag0 EXCEPT !.edges = add_edge(@, i - 1, i, "chain")]
      draw(srcs, kind) ==
        IF srcs = {} THEN dag.edges ELSE add_edge(dag.edges, Max(srcs), i, kind)
  IN CASE e.kind = "tool/call" ->
            [dag EXCEPT !.call_by_run = put(@, e.run, i),
                        !.call_by_label = put_first(@, e.label, i)]
       [] e.kind = "tool/result" -> [dag EXCEPT !.edges = draw(source(dag, e), "call")]
       [] e.kind = "state/snapshot" ->
            [dag EXCEPT !.edges = draw(IF e.parent \in DOMAIN dag.snapshot_by_cp
                                         THEN {dag.snapshot_by_cp[e.parent]} ELSE {},
                                       "parent"),
                        !.snapshot_by_cp = put(@, e.cp, i),
                        !.last_snapshot_seq = {i}]
       [] e.kind = "checkpoint/writes" ->
            [dag EXCEPT !.edges = draw(dag.last_snapshot_seq, "writes")]
       [] OTHER -> dag

build_dag(log) ==
  LET empty == [edges |-> <<>>, call_by_run |-> <<>>, call_by_label |-> <<>>,
                snapshot_by_cp |-> <<>>, last_snapshot_seq |-> {}]
  IN FoldLeftDomain(LAMBDA dag, i : visit(log, dag, i), empty, log)

\* The nodes of the DAG that are marked as errors.
error_nodes(log) == {i \in DOMAIN log : is_error(log[i])}

-----------------------------------------------------------------------------
(***************************************************************************)
(* The replay: a message has a role, and for tools a label and an outcome. *)
(***************************************************************************)
\* A mutant of replay_step: only a successful result settles its call.
replay_step_ok(e, r) ==
  CASE e.kind = "llm/call" ->
         [r EXCEPT !.messages = Append(@, [role |-> "assistant"])]
    [] e.kind = "tool/call" ->
         [messages |-> Append(r.messages, [role |-> "tool_call", label |-> e.label]),
          pending_calls |-> r.pending_calls \cup {e.label}]
    [] e.kind = "tool/result" ->
         [messages |-> Append(r.messages, [role |-> "tool", label |-> e.label,
                                           outcome |-> IF e.ok THEN "ok" ELSE "failed"]),
          pending_calls |-> IF e.ok THEN r.pending_calls \ {e.label} ELSE r.pending_calls]
    [] OTHER -> r

\* The loop body; pending_calls is the dictionary's key set.
replay_step(e, r) ==
  CASE e.kind = "llm/call" ->
         [r EXCEPT !.messages = Append(@, [role |-> "assistant"])]
    [] e.kind = "tool/call" ->
         [messages |-> Append(r.messages, [role |-> "tool_call", label |-> e.label]),
          pending_calls |-> r.pending_calls \cup {e.label}]
    [] e.kind = "tool/result" ->
         [messages |-> Append(r.messages, [role |-> "tool", label |-> e.label,
                                           outcome |-> IF e.ok THEN "ok" ELSE "failed"]),
          pending_calls |-> r.pending_calls \ {e.label}]
    [] OTHER -> r

replay_messages(log) ==
  LET end == FoldLeftDomain(LAMBDA r, i : replay_step(log[i], r),
                            [messages |-> <<>>, pending_calls |-> {}], log)
      surfaced == {[role |-> "tool", label |-> l, outcome |-> "interrupted"] :
                     l \in end.pending_calls}
  IN end.messages \o SetToSeq(surfaced)

\* The labels of the calls the replay reports as interrupted.
interrupted_labels(log) ==
  LET messages == replay_messages(log) IN
  {messages[n].label : n \in {j \in DOMAIN messages :
     messages[j].role = "tool" /\ messages[j].outcome = "interrupted"}}

-----------------------------------------------------------------------------
(***************************************************************************)
(* The failure report.  A streak is a set of at most one record while the  *)
(* pass is under way.  The models and the node times are the positions of  *)
(* the events they are counted from: a model call names its model here.    *)
(***************************************************************************)
\* A mutant of count_call: a streak that ends is forgotten.
count_call_lazy(a, label, i) ==
  IF {label} = a.prev_call_label
    THEN [a EXCEPT !.streak =
            IF @ = {} THEN {[label |-> label, start_seq |-> i, length |-> 2]}
            ELSE {[s EXCEPT !.length = @ + 1] : s \in @}]
    ELSE [a EXCEPT !.streak = {}, !.prev_call_label = {label}]

\* A tool call extends, starts or ends a streak.
count_call(a, label, i) ==
  IF {label} = a.prev_call_label
    THEN [a EXCEPT !.streak =
            IF @ = {} THEN {[label |-> label, start_seq |-> i, length |-> 2]}
            ELSE {[s EXCEPT !.length = @ + 1] : s \in @}]
    ELSE [a EXCEPT !.streaks = @ \cup a.streak, !.streak = {},
                   !.prev_call_label = {label}]

\* The three if/elif chains of the loop body: the calls and their failures,
call_chain(a, e, i) ==
  CASE e.kind = "tool/call" -> count_call(a, e.label, i)
    [] e.kind \in {"tool/result", "llm/call"} /\ ~e.ok ->
         [a EXCEPT !.errors = Append(@, i)]
    [] OTHER -> a

\* the models and the failed nodes,
model_chain(a, e, i) ==
  CASE e.kind = "llm/call" -> [a EXCEPT !.models = @ \cup {i}]
    [] e.kind = "node/end" /\ ~e.ok -> [a EXCEPT !.errors = Append(@, i)]
    [] OTHER -> a

\* the time of the nodes, the interrupted runs and the checkpoints.
node_chain(a, e, i) ==
  CASE e.kind = "node/end" -> [a EXCEPT !.node_time = @ \cup {i}]
    [] e.kind = "run/end" /\ e.status = "interrupted" ->
         [a EXCEPT !.interrupted_runs = @ + 1]
    [] e.kind = "state/snapshot" ->
         [a EXCEPT !.checkpoints = @ + 1, !.prev_call_label = {}]
    [] OTHER -> a

\* A mutant of tally: the last chain is tried first, and the others only for
\* an event that it leaves alone.
tally_merged(log, a, i) ==
  LET e == log[i] IN
  IF e.kind \in {"node/end", "run/end", "state/snapshot"} THEN node_chain(a, e, i)
  ELSE model_chain(call_chain(a, e, i), e, i)

\* The loop body of analyze_log: an event runs through all three.
tally(log, a, i) ==
  LET e == log[i] IN node_chain(model_chain(call_chain(a, e, i), e, i), e, i)

analyze_log(log) ==
  LET start == [errors |-> <<>>, models |-> {}, node_time |-> {},
                interrupted_runs |-> 0, checkpoints |-> 0,
                prev_call_label |-> {}, streak |-> {}, streaks |-> {}]
      end == FoldLeftDomain(LAMBDA a, i : tally(log, a, i), start, log)
  IN [end EXCEPT !.streaks = @ \cup end.streak]

-----------------------------------------------------------------------------
(***************************************************************************)
(* What they are compared with.                                            *)
(***************************************************************************)
\* The last of these positions, if any.
last(S) == {i \in S : \A j \in S : j <= i}

\* The kinds of edge that two positions i < j of a log call for.
relations(log, i, j) ==
  LET e == log[j]
      before(kind) == {n \in at(log, kind) : n < j}
      own == {n \in before("tool/call") : log[n].run = e.run}
      same == {n \in before("tool/call") : log[n].label = e.label}
  IN {k \in {"chain", "call", "writes", "parent"} :
        CASE k = "chain" -> j = i + 1
          [] k = "call" -> /\ e.kind = "tool/result"
                           /\ \/ i \in own
                              \/ own = {} /\ i \in same /\ \A n \in same : i <= n
          [] k = "writes" -> e.kind = "checkpoint/writes" /\ i \in last(before("state/snapshot"))
          [] k = "parent" ->
               /\ e.kind = "state/snapshot"
               /\ i \in last({n \in before("state/snapshot") : log[n].cp = e.parent})}

\* "When several edge kinds would connect the same pair, the most semantic one
\* wins (parent > call > writes > chain)": the edges are the related pairs, each
\* with the strongest of its relations.
dag_as_related(log) ==
  LET edges == build_dag(log).edges
      pairs == {p \in (DOMAIN log) \X (DOMAIN log) :
                  p[1] < p[2] /\ relations(log, p[1], p[2]) # {}}
  IN /\ DOMAIN edges = pairs
     /\ \A p \in pairs :
          /\ edges[p] \in relations(log, p[1], p[2])
          /\ \A k \in relations(log, p[1], p[2]) : Priority[k] <= Priority[edges[p]]

\* The calls from a to b are at least two, all have one label, and no snapshot
\* lies between them.
repeats(log, a, b) ==
  /\ {a, b} \subseteq at(log, "tool/call") /\ a < b
  /\ \A n \in at(log, "tool/call") \cap (a..b) : log[n].label = log[a].label
  /\ at(log, "state/snapshot") \cap (a..b) = {}

\* "exact-repeat loops (the agent calling the same tool with the same input over
\* and over) fall out for free": the streaks are the longest blocks of repeated
\* calls, each with the position of its second call and its length.
streaks_as_blocks(log) ==
  LET calls == at(log, "tool/call")
      blocks == {p \in calls \X calls :
                   /\ repeats(log, p[1], p[2])
                   /\ \A q \in calls \X calls :
                        repeats(log, q[1], q[2]) /\ q[1] <= p[1] /\ p[2] <= q[2] => q = p}
  IN analyze_log(log).streaks =
       {[label |-> log[p[1]].label,
         start_seq |-> CHOOSE n \in calls : n > p[1] /\ \A c \in calls : c > p[1] => n <= c,
         length |-> Cardinality(calls \cap (p[1]..p[2]))] : p \in blocks}

\* The calls on record whose result is not.
unanswered(log) ==
  {i \in at(log, "tool/call") :
     ~\E j \in at(log, "tool/result") : log[j].run = log[i].run}
=============================================================================
