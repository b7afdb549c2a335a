------------------------------- MODULE Outbox -------------------------------
(* What the push of telemetry promises its producers: only a row that is in the
   store is settled, that is, the cloud has it or it was given up for a reason,
   and it stays so.                                                          *)

CONSTANT Rows

VARIABLES produced, settled

Init == produced = {} /\ settled = {}

Produce(r) == r \notin produced /\ produced' = produced \cup {r} /\ UNCHANGED settled

Settle(S) == S \subseteq produced /\ settled' = settled \cup S /\ UNCHANGED produced

\* A row may be settled in the step that produces it: see PushDrain's `slipped`.
ProduceSettled(r) ==
  r \notin produced /\ produced' = produced \cup {r} /\ settled' = settled \cup {r}

Next ==
  \/ \E r \in Rows : Produce(r) \/ ProduceSettled(r)
  \/ \E S \in SUBSET Rows : Settle(S)

Spec == Init /\ [][Next]_<<produced, settled>>

=============================================================================
