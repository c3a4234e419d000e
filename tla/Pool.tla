------------------------------ MODULE Pool ------------------------------
(***************************************************************************)
(* The session pool of src/inference/mod.rs: a deque of idle items, a      *)
(* deque of waiters and a closed flag, each behind its own lock.  No lock  *)
(* is held across two of them, so every operation is a chain of critical   *)
(* sections and other callers run in between.                              *)
(*                                                                         *)
(* A member of Requests is one call of checkout (or checkout_blocking),    *)
(* followed by the one checkin of what it got.  Its channel is modelled by *)
(* got[r]: while r is parked, got[r] is the value sitting in the oneshot / *)
(* mpsc channel; later it is the item r's guard owns.  The deque of items  *)
(* is a set: triplets are interchangeable, nothing depends on their order. *)
(***************************************************************************)
EXTENDS Naturals, Sequences

CONSTANTS Items,      \* the pre-loaded session triplets
          Requests,   \* the checkout calls made in a behaviour
          Blocking,   \* those that are checkout_blocking: a parked one cannot be cancelled
          None        \* no item, no request

ASSUME PoolAssumption ==
  /\ Blocking \subseteq Requests
  /\ None \notin Items
  /\ None \notin Requests

VARIABLES items,      \* idle items, PoolInner.items
          waiters,    \* PoolInner.waiters: the requests whose Sender is registered
          closed,     \* PoolInner.closed
          closer,     \* where the shutdown's call of close() is
          pc,         \* where each request is
          got,        \* the item in a request's channel, guard or checkin call
          target,     \* the waiter whose Sender a checkin popped
          charged     \* history: the request that an item was dropped for

poolVars == <<items, waiters, closed, closer, pc, got, target, charged>>

Phases == {"new", "missed", "parked", "holding", "returning", "sending",
           "pushing", "served", "refused", "cancelled", "abandoned"}

Init ==
  /\ items = Items
  /\ waiters = <<>>
  /\ closed = FALSE
  /\ closer = "idle"
  /\ pc = [r \in Requests |-> "new"]
  /\ got = [r \in Requests |-> None]
  /\ target = [r \in Requests |-> None]
  /\ charged = [i \in Items |-> None]

-----------------------------------------------------------------------------
Registered == {waiters[n] : n \in 1..Len(waiters)}

\* The Sender of r's channel still exists: in the queue, or popped by a checkin.
SenderAlive(r) == r \in Registered \/ \E q \in Requests : target[q] = r

\* An item is somewhere a caller can still get it from.
Present(i) == i \in items \/ \E r \in Requests : got[r] = i

Goto(r, phase) == pc' = [pc EXCEPT ![r] = phase]

-----------------------------------------------------------------------------
(* checkout / checkout_blocking *)

\* Fast path, under the items lock: closed, an idle item, or nothing.
FastPathClosed(r) ==
  /\ pc[r] = "new"
  /\ closed
  /\ Goto(r, "refused")
  /\ UNCHANGED <<items, waiters, closed, closer, got, target, charged>>

\* Mutant of FastPathItem: the item is looked at, not popped.
FastPathPeek(r) ==
  /\ pc[r] = "new"
  /\ ~closed
  /\ \E i \in items : got' = [got EXCEPT ![r] = i]
  /\ Goto(r, "holding")
  /\ UNCHANGED <<items, waiters, closed, closer, target, charged>>

\* Mutant of FastPathItem: the flag is only looked at when there is no item.
FastPathAfterClose(r) ==
  /\ pc[r] = "new"
  /\ \E i \in items :
       /\ items' = items \ {i}
       /\ got' = [got EXCEPT ![r] = i]
  /\ Goto(r, "holding")
  /\ UNCHANGED <<waiters, closed, closer, target, charged>>

FastPathItem(r) ==
  /\ pc[r] = "new"
  /\ ~closed
  /\ \E i \in items :
       /\ items' = items \ {i}
       /\ got' = [got EXCEPT ![r] = i]
  /\ Goto(r, "holding")
  /\ UNCHANGED <<waiters, closed, closer, target, charged>>

FastPathMiss(r) ==
  /\ pc[r] = "new"
  /\ ~closed
  /\ items = {}
  /\ Goto(r, "missed")
  /\ UNCHANGED <<items, waiters, closed, closer, got, target, charged>>

\* Slow path, under the waiters lock: the items are not looked at again.
RegisterClosed(r) ==
  /\ pc[r] = "missed"
  /\ closed
  /\ Goto(r, "refused")
  /\ UNCHANGED <<items, waiters, closed, closer, got, target, charged>>

\* Mutant of Register: the flag is not looked at again under the queue's lock.
RegisterUnchecked(r) ==
  /\ pc[r] = "missed"
  /\ waiters' = Append(waiters, r)
  /\ Goto(r, "parked")
  /\ UNCHANGED <<items, closed, closer, got, target, charged>>

Register(r) ==
  /\ pc[r] = "missed"
  /\ ~closed
  /\ waiters' = Append(waiters, r)
  /\ Goto(r, "parked")
  /\ UNCHANGED <<items, closed, closer, got, target, charged>>

\* The await (or recv) returns the item, or an error once the Sender is gone.
Receive(r) ==
  /\ pc[r] = "parked"
  /\ got[r] # None
  /\ Goto(r, "holding")
  /\ UNCHANGED <<items, waiters, closed, closer, got, target, charged>>

ReceiveClosed(r) ==
  /\ pc[r] = "parked"
  /\ got[r] = None
  /\ ~SenderAlive(r)
  /\ Goto(r, "refused")
  /\ UNCHANGED <<items, waiters, closed, closer, got, target, charged>>

\* The checkout future is dropped at its await (deadline, select!, a dropped
\* handler).  Its Receiver goes, with an item already sent to it; its Sender
\* stays where it is.
Cancel(r) ==
  /\ pc[r] = "parked"
  /\ r \notin Blocking
  /\ Goto(r, "cancelled")
  /\ got' = [got EXCEPT ![r] = None]
  /\ charged' = [i \in Items |-> IF i = got[r] THEN r ELSE charged[i]]
  /\ UNCHANGED <<items, waiters, closed, closer, target>>

-----------------------------------------------------------------------------
(* checkin, from the guard's Drop or OwnedReservation::checkin *)

\* Mutant of CheckinClosed: the early return is taken on an open pool, too.
CheckinDrops(r) ==
  /\ pc[r] = "holding"
  /\ Goto(r, "served")
  /\ got' = [got EXCEPT ![r] = None]
  /\ UNCHANGED <<items, waiters, closed, closer, target, charged>>

CheckinClosed(r) ==
  /\ pc[r] = "holding"
  /\ closed
  /\ Goto(r, "served")
  /\ got' = [got EXCEPT ![r] = None]
  /\ UNCHANGED <<items, waiters, closed, closer, target, charged>>

CheckinOpen(r) ==
  /\ pc[r] = "holding"
  /\ ~closed
  /\ Goto(r, "returning")
  /\ UNCHANGED <<items, waiters, closed, closer, got, target, charged>>

\* An OwnedReservation is no drop guard: a holder that loses the item, or is
\* dropped before it calls checkin, takes the item with it.
Abandon(r) ==
  /\ pc[r] = "holding"
  /\ r \notin Blocking
  /\ Goto(r, "abandoned")
  /\ got' = [got EXCEPT ![r] = None]
  /\ charged' = [charged EXCEPT ![got[r]] = r]
  /\ UNCHANGED <<items, waiters, closed, closer, target>>

\* Mutant of CheckinPop: the newest Sender is served.
CheckinPopNewest(r) ==
  /\ pc[r] = "returning"
  /\ waiters # <<>>
  /\ target' = [target EXCEPT ![r] = waiters[Len(waiters)]]
  /\ waiters' = SubSeq(waiters, 1, Len(waiters) - 1)
  /\ Goto(r, "sending")
  /\ UNCHANGED <<items, closed, closer, got, charged>>

\* Mutant of CheckinPop: the queue is taken whole and one Sender of it used.
CheckinTakeQueue(r) ==
  /\ pc[r] = "returning"
  /\ waiters # <<>>
  /\ target' = [target EXCEPT ![r] = Head(waiters)]
  /\ waiters' = <<>>
  /\ Goto(r, "sending")
  /\ UNCHANGED <<items, closed, closer, got, charged>>

\* Under the waiters lock: take the oldest Sender, if there is one.
CheckinPop(r) ==
  /\ pc[r] = "returning"
  /\ waiters # <<>>
  /\ target' = [target EXCEPT ![r] = Head(waiters)]
  /\ waiters' = Tail(waiters)
  /\ Goto(r, "sending")
  /\ UNCHANGED <<items, closed, closer, got, charged>>

CheckinNoWaiter(r) ==
  /\ pc[r] = "returning"
  /\ waiters = <<>>
  /\ Goto(r, "pushing")
  /\ UNCHANGED <<items, waiters, closed, closer, got, target, charged>>

\* Mutant of CheckinSend: the popped Sender is dropped unused.
CheckinDropsSender(r) ==
  /\ pc[r] = "sending"
  /\ got' = [got EXCEPT ![r] = None]
  /\ target' = [target EXCEPT ![r] = None]
  /\ Goto(r, "served")
  /\ UNCHANGED <<items, waiters, closed, closer, charged>>

\* `let _ = tx.send(item)`: a failed send gives the item back, and drops it.
CheckinSend(r) ==
  /\ pc[r] = "sending"
  /\ LET w == target[r] IN
       \/ /\ pc[w] = "parked"
          /\ got' = [got EXCEPT ![r] = None, ![w] = got[r]]
          /\ UNCHANGED charged
       \/ /\ pc[w] # "parked"
          /\ got' = [got EXCEPT ![r] = None]
          /\ charged' = [charged EXCEPT ![got[r]] = w]
  /\ target' = [target EXCEPT ![r] = None]
  /\ Goto(r, "served")
  /\ UNCHANGED <<items, waiters, closed, closer>>

\* Mutant of CheckinPush: the guard is not forgotten, and checks in once more.
CheckinPushTwice(r) ==
  /\ pc[r] = "pushing"
  /\ items' = items \cup {got[r]}
  /\ got' = [got EXCEPT ![r] = None]
  /\ Goto(r, "holding")
  /\ UNCHANGED <<waiters, closed, closer, target, charged>>

CheckinPush(r) ==
  /\ pc[r] = "pushing"
  /\ items' = items \cup {got[r]}
  /\ got' = [got EXCEPT ![r] = None]
  /\ Goto(r, "served")
  /\ UNCHANGED <<waiters, closed, closer, target, charged>>

-----------------------------------------------------------------------------
(* close *)

CloseStore ==
  /\ closer = "idle"
  /\ closed' = TRUE
  /\ closer' = "stored"
  /\ UNCHANGED <<items, waiters, pc, got, target, charged>>

\* Mutant of CloseClear: the parked callers' Senders stay in the queue.
CloseKeepsQueue ==
  /\ closer = "stored"
  /\ closer' = "cleared"
  /\ UNCHANGED <<items, waiters, closed, pc, got, target, charged>>

CloseClear ==
  /\ closer = "stored"
  /\ waiters' = <<>>
  /\ closer' = "cleared"
  /\ UNCHANGED <<items, closed, pc, got, target, charged>>

-----------------------------------------------------------------------------
Checkout(r) == FastPathClosed(r) \/ FastPathItem(r) \/ FastPathMiss(r)

\* What the thread or task running r's call does on its own.
CallStep(r) ==
  \/ RegisterClosed(r) \/ Register(r)
  \/ Receive(r) \/ ReceiveClosed(r)
  \/ CheckinPop(r) \/ CheckinNoWaiter(r) \/ CheckinSend(r) \/ CheckinPush(r)

Checkin(r) == CheckinClosed(r) \/ CheckinOpen(r)

Next ==
  \/ \E r \in Requests : Checkout(r) \/ CallStep(r) \/ Checkin(r) \/ Cancel(r) \/ Abandon(r)
  \/ CloseStore
  \/ CloseClear

Spec == Init /\ [][Next]_poolVars

(***************************************************************************)
(* Fairness: a started call runs on (its thread is scheduled, its task is  *)
(* polled when woken), a holder's inference ends, and close() finishes.    *)
(* Nobody is obliged to start a call, to give up or to close the pool.     *)
(***************************************************************************)
Fairness ==
  /\ \A r \in Requests : WF_poolVars(CallStep(r)) /\ WF_poolVars(Checkin(r))
  /\ WF_poolVars(CloseClear)

FairSpec == Spec /\ Fairness

-----------------------------------------------------------------------------
TypeOK ==
  /\ items \subseteq Items
  /\ waiters \in Seq(Requests)
  /\ closed \in BOOLEAN
  /\ closer \in {"idle", "stored", "cleared"}
  /\ pc \in [Requests -> Phases]
  /\ got \in [Requests -> Items \cup {None}]
  /\ target \in [Requests -> Requests \cup {None}]
  /\ charged \in [Items -> Requests \cup {None}]

\* An item is in one place only: idle, in one channel, guard or checkin call,
\* or dropped.  Two sessions never run inference on the same triplet, whatever
\* the interleaving of checkout, checkin and a cancelled wait
\* (inference/mod.rs checkout, checkin).
UniqueOwner ==
  /\ \A r \in Requests : got[r] \notin items
  /\ \A q, r \in Requests : got[q] = got[r] /\ got[q] # None => q = r
  /\ \A i \in Items : charged[i] # None => ~Present(i)

\* While the pool is open no item disappears except for a cancelled wait or an
\* abandoned reservation, and each of these costs at most one item: capacity is
\* at least total - (number of such requests), however a dead Sender is popped
\* or a full channel dropped (inference/mod.rs checkin, OwnedReservation).
LossesCharged ==
  /\ \A i \in Items : closed \/ Present(i) \/ charged[i] # None
  /\ \A i \in Items : charged[i] # None => pc[charged[i]] \in {"cancelled", "abandoned"}
  /\ \A i, j \in Items : charged[i] = charged[j] /\ charged[i] # None => i = j

\* What makes a handover safe although pop and send are separate steps: a live
\* Sender belongs to a caller that has nothing yet, is in the queue once or in one
\* checkin's hand, and a caller that was charged with an item has none left.  A
\* Sender is never dropped unused, which its caller would take for Closed, before
\* close() drains the queue.
Owning == {"holding", "returning", "sending", "pushing"}

SendersInv ==
  /\ \A r \in Requests : pc[r] \in Owning => got[r] # None
  /\ \A r \in Requests : got[r] # None => pc[r] \in Owning \cup {"parked"}
  /\ \A r \in Requests : target[r] # None <=> pc[r] = "sending"
  /\ \A m, n \in 1..Len(waiters) : waiters[m] = waiters[n] => m = n
  /\ \A q, r \in Requests : target[q] = target[r] /\ target[q] # None => q = r
  /\ \A q \in Requests : target[q] \notin Registered
  /\ \A r \in Requests : SenderAlive(r) =>
       /\ pc[r] \in {"parked", "cancelled"}
       /\ got[r] = None
       /\ \A i \in Items : charged[i] # r
  /\ \A r \in Requests : pc[r] = "parked" =>
       SenderAlive(r) \/ got[r] # None \/ closer = "cleared"
  /\ closed <=> closer # "idle"

\* Once close() has returned nobody is registered, and nobody registers any
\* more: the flag is stored before the queue is drained and checked under the
\* queue's lock (inference/mod.rs close and the slow path of checkout).
NoWaiterAfterClose == closer = "cleared" => waiters = <<>>

\* A registered waiter leaves the queue only together with, or after, all that
\* registered before it (inference/mod.rs 109: "served in order").
ServedInOrder ==
  [][\A m, n \in 1..Len(waiters) :
       m < n /\ waiters[n] \notin Registered' => waiters[m] \notin Registered']_poolVars

\* Whoever is waiting when the pool closes is released: with an item a checkin
\* was already handing over, or with PoolError::Closed (inference/mod.rs close).
CloseReleasesWaiters ==
  \A r \in Requests : closed /\ pc[r] \in {"missed", "parked"} ~> pc[r] \notin {"missed", "parked"}

\* A checkin that pops a waiter's Sender finishes the handover: the waiter gets
\* the item or was cancelled (inference/mod.rs checkin: pop and send are not in
\* one critical section).
HandoverCompletes ==
  \A r \in Requests : (\E q \in Requests : target[q] = r) ~> pc[r] \in {"holding", "cancelled"}

-----------------------------------------------------------------------------
(* The pool implements what SessionPool promises. *)

Status(p) == CASE p \in {"new", "refused"} -> p
               [] p \in {"cancelled", "abandoned"} -> "quit"
               [] p \in {"missed", "parked"} -> "waiting"
               [] p = "holding" -> "using"
               [] OTHER -> "served"

statusBar == [r \in Requests |-> Status(pc[r])]
usingBar == [r \in Requests |-> IF pc[r] = "holding" THEN got[r] ELSE None]
goneBar == {i \in Items : ~Present(i)}

Promise == INSTANCE SessionPool WITH status <- statusBar, using <- usingBar, gone <- goneBar

\* Every step of the pool is one step of the promise or none: a triplet goes to
\* one caller at a time, only to callers that came before close(), and comes back
\* unless the pool is closed or its caller quit.
PromiseSpec == Promise!Spec
=============================================================================
