---------------------------- MODULE Conversation ----------------------------
(* What the bridge promises an IDE: a request is answered once at most, and only
   when it was asked.  An id that is answered twice is a protocol violation, one
   that is answered by several parties is easily answered twice.  Only the last
   words of a bridge that is refused may answer initialize once more.        *)
EXTENDS Naturals

CONSTANTS Requests, Initialize

VARIABLES asked, answers,
          over               \* the bridge has ended: it says nothing any more

Init == asked = {} /\ answers = [r \in Requests |-> 0] /\ over = FALSE

With(S) == [r \in Requests |-> IF r \in S THEN 1 ELSE answers[r]]

Ask(r) == r \notin asked /\ asked' = asked \cup {r} /\ UNCHANGED <<answers, over>>

Answer(S) ==
  /\ S \subseteq asked /\ \A r \in S : answers[r] = 0
  /\ answers' = With(S) /\ UNCHANGED <<asked, over>>

\* An answer that needs nobody else is given with the question.
AskAnswered(r) ==
  r \notin asked /\ asked' = asked \cup {r} /\ answers' = With({r}) /\ UNCHANGED over

End == over' = TRUE /\ UNCHANGED <<asked, answers>>

\* The error that ends a refused bridge, whether initialize is answered or not.
Refuse ==
  /\ Initialize \in asked /\ answers' = [answers EXCEPT ![Initialize] = @ + 1]
  /\ over' = TRUE /\ UNCHANGED asked

Next ==
  /\ ~over
  /\ \/ \E r \in Requests : Ask(r) \/ AskAnswered(r)
     \/ \E S \in SUBSET Requests : Answer(S)
     \/ End \/ Refuse

Spec == Init /\ [][Next]_<<asked, answers, over>>

=============================================================================
