----------------------------- MODULE AuditLog -----------------------------
(***************************************************************************)
(* What the recorder promises its callers, without files, locks, chains or *)
(* crashes: a log that only grows, in which an event is acknowledged only  *)
(* after it was recorded, and only while it is the newest one.             *)
(***************************************************************************)
EXTENDS Naturals, Sequences

CONSTANT Contents

VARIABLES recorded,      \* the contents on record, in order
          acknowledged   \* the positions whose append returned to the caller

vars == <<recorded, acknowledged>>

Init == recorded = <<>> /\ acknowledged = {}

Record(c) ==
  /\ recorded' = Append(recorded, c)
  /\ UNCHANGED acknowledged

Acknowledge ==
  /\ recorded # <<>>
  /\ acknowledged' = acknowledged \cup {Len(recorded)}
  /\ UNCHANGED recorded

Next == Acknowledge \/ \E c \in Contents : Record(c)

Spec == Init /\ [][Next]_vars
=============================================================================
