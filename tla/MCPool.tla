------------------------------ MODULE MCPool ------------------------------
(* Instances of Pool for TLC, and what the documentation says of the pool. *)
EXTENDS Pool

\* inference/mod.rs 143, "Checkout an item from the pool. Awaits FIFO if none
\* available": a caller is not left waiting while an item lies idle in the pool.
NoIdleItemWhileWaiting ==
  \A r \in Requests :
    (pc[r] = "parked" /\ got[r] = None /\ items # {})
      ~> (pc[r] # "parked" \/ got[r] # None \/ items = {})

\* inference/mod.rs 254-255, "On drop (including panic unwind) the item is
\* returned to the pool; if the pool was closed in the meantime the item is
\* silently dropped": a checkin that ends on an open pool has put the item in the
\* deque or in a waiter's channel.
GuardReturnsItem ==
  [][\A r \in Requests, i \in Items :
       got[r] = i /\ pc[r] \in {"sending", "pushing"} /\ pc'[r] = "served" /\ ~closed
         => Present(i)']_poolVars
=============================================================================
