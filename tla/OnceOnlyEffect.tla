--------------------------- MODULE OnceOnlyEffect ---------------------------
(***************************************************************************)
(* What the execution identity boundary promises: an identity is consumed  *)
(* before its effect is performed, the effect is performed at most once    *)
(* and never after the identity was closed with an outcome, and neither an *)
(* effect nor an outcome is forgotten.                                     *)
(***************************************************************************)
CONSTANT Ids

VARIABLES consumed,  \* identities some request has claimed
          executed,  \* identities whose effect was started
          closed     \* identities with a durable outcome

TypeOK ==
    /\ consumed \subseteq Ids
    /\ executed \subseteq consumed
    /\ closed \subseteq consumed

Init == consumed = {} /\ executed = {} /\ closed = {}

Consume(i) ==
    /\ i \notin consumed
    /\ consumed' = consumed \cup {i}
    /\ UNCHANGED <<executed, closed>>

Execute(i) ==
    /\ i \in consumed \ (executed \cup closed)
    /\ executed' = executed \cup {i}
    /\ UNCHANGED <<consumed, closed>>

\* Outcomes become durable; a claim that had no effect yet may be lost.
Settle ==
    \E lost \in SUBSET (consumed \ (executed \cup closed)) :
    \E outcome \in SUBSET (consumed \ lost) :
        /\ consumed' = consumed \ lost
        /\ closed' = closed \cup outcome
        /\ UNCHANGED executed

Next == (\E i \in Ids : Consume(i) \/ Execute(i)) \/ Settle

Spec == Init /\ [][Next]_<<consumed, executed, closed>>
=============================================================================
