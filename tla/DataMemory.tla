----------------------------- MODULE DataMemory -----------------------------
(***************************************************************************)
(* What the data cache promises its client: a memory that answers one      *)
(* request at a time.  A store takes effect once, at some cycle between    *)
(* its request and its answer, and nothing else changes the memory.        *)
(***************************************************************************)
EXTENDS Integers

CONSTANTS Requests, NoReq

VARIABLES
  image,    \* line -> what the client has made of it
  request   \* the client's request, until it is answered

dmvars == <<image, request>>

Effect(req) ==
  IF req # NoReq /\ req.we
  THEN [image EXCEPT ![req.line] = [@ EXCEPT ![req.off] = req.val]]
  ELSE image

Init == request = NoReq

(* The request takes effect; it is answered, and the client goes on.       *)
Apply  == image' = Effect(request) /\ UNCHANGED request
Answer == image' = Effect(request) /\ request' \in Requests \cup {NoReq}

Next == Apply \/ Answer

Spec == Init /\ [][Next]_dmvars
=============================================================================
