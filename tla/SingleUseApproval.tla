------------------------- MODULE SingleUseApproval -------------------------
(***************************************************************************)
(* What one Commander approval promises: it is held by one request at a    *)
(* time, only its holder can spend it, and once it is spent it is neither  *)
(* spent again nor given to another request.  A holder that has not spent  *)
(* the approval may lose it in a power failure.                            *)
(***************************************************************************)
CONSTANTS Requests, None

VARIABLES holder,  \* the request the approval was issued to
          spent    \* the requests whose effect was performed under it

TypeOK == holder \in Requests \cup {None} /\ spent \subseteq Requests

Init == holder = None /\ spent = {}

Issue(r) == holder = None /\ holder' = r /\ UNCHANGED spent

Spend == holder # None /\ spent = {} /\ spent' = {holder} /\ UNCHANGED holder

Lose == spent = {} /\ holder' = None /\ UNCHANGED spent

Next == (\E r \in Requests : Issue(r)) \/ Spend \/ Lose

Spec == Init /\ [][Next]_<<holder, spent>>
=============================================================================
