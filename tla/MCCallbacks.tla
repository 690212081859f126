----------------------------- MODULE MCCallbacks -----------------------------
(***************************************************************************)
(* TLC instance of Callbacks: six small sets of LangChain runs.           *)
(***************************************************************************)
EXTENDS Callbacks

CONSTANTS node_a, node_b, \* nodes
          look, ask        \* labels of tool calls

kind_of(k, p, n, l) ==
  [kind |-> k, parent |-> p, after |-> None, node |-> n, label |-> l]
graph == kind_of("chain", None, None, None)
node_of(p, n) == kind_of("chain", p, n, None)
inner_of(p) == kind_of("chain", p, None, None)
llm_of(p, n) == kind_of("llm", p, n, None)
tool_of(p, n, l) == kind_of("tool", p, n, l)
after(r, x) == [x EXCEPT !.after = r]

MCPlans == {
  \* Two nodes in parallel, each with a tool call of the same label.
  [snapshots |-> 0, writes |-> 0, runs |->
    <<graph, node_of(1, node_a), node_of(1, node_b),
      tool_of(2, node_a, look), tool_of(3, node_b, look)>>],
  \* One node with two different tool calls in parallel.
  [snapshots |-> 0, writes |-> 0, runs |->
    <<graph, node_of(1, node_a), tool_of(2, node_a, look), tool_of(2, node_a, ask)>>],
  \* Two graph runs, one after the other or side by side.
  [snapshots |-> 0, writes |-> 0, runs |->
    <<graph, node_of(1, node_a), graph, node_of(3, node_b)>>],
  \* A model call, then a chain and a subgraph node inside a node.
  [snapshots |-> 0, writes |-> 0, runs |->
    <<graph, node_of(1, node_a), llm_of(2, node_a),
      after(3, inner_of(2)), after(3, node_of(2, node_b))>>],
  \* Tool calls one after another, with a checkpoint in between.
  [snapshots |-> 1, writes |-> 0, runs |->
    <<graph, tool_of(1, node_a, look), after(2, tool_of(1, node_a, look)),
      after(3, tool_of(1, node_a, look)), after(4, tool_of(1, node_a, ask))>>],
  \* Checkpoints behind one another.
  [snapshots |-> 3, writes |-> 1, runs |-> <<graph>>]}
=============================================================================
