------------------------ MODULE MCExecutionIdentity ------------------------
(***************************************************************************)
(* Small instances of ExecutionIdentity.                                   *)
(***************************************************************************)
EXTENDS ExecutionIdentity, TLC

CONSTANTS i1, i2, r1, b1, b2

Req(i, r, b) == [id |-> i, run |-> r, body |-> b]

\* One identity with and without a permit and with two contents, and one run
\* with two identities.
ClashingRequests == {Req(i1, None, b1), Req(i1, r1, b2), Req(i2, r1, b2)}

\* One identity, with and without a permit.
OneIdentity == {Req(i1, None, b1), Req(i1, r1, b1)}

CallersAreSymmetric == Permutations(Callers)
=============================================================================
