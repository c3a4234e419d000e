---------------------------- MODULE PoolProofs ----------------------------
(***************************************************************************)
(* Proofs about Pool, for any set of items, any set of callers and any     *)
(* split of the callers into cancellable and blocking ones.                *)
(***************************************************************************)
EXTENDS Pool, TLAPS

\* The inductive invariant.  UniqueOwner and LossesCharged do not survive a
\* CheckinSend on their own: that the popped Sender's caller has nothing in its
\* channel and is charged with nothing is SendersInv.
IInv == TypeOK /\ SendersInv /\ UniqueOwner /\ LossesCharged /\ NoWaiterAfterClose

-----------------------------------------------------------------------------
(* The waiters queue *)

\* Registering adds the caller to the queue and keeps the queue free of
\* duplicates.
LEMMA AppendWaiter ==
  ASSUME NEW w \in Seq(Requests), NEW r \in Requests,
         \A n \in 1..Len(w) : w[n] # r,
         \A m, n \in 1..Len(w) : w[m] = w[n] => m = n
  PROVE  LET v == Append(w, r) IN
         /\ v \in Seq(Requests)
         /\ {v[n] : n \in 1..Len(v)} = {w[n] : n \in 1..Len(w)} \cup {r}
         /\ \A m, n \in 1..Len(v) : v[m] = v[n] => m = n
<1> DEFINE v == Append(w, r)
<1>1. v \in Seq(Requests) /\ Len(v) = Len(w) + 1 /\ Len(w) \in Nat
  OBVIOUS
<1>2. \A n \in 1..Len(v) : v[n] = IF n <= Len(w) THEN w[n] ELSE r
  OBVIOUS
<1> HIDE DEF v
<1>3. {v[n] : n \in 1..Len(v)} = {w[n] : n \in 1..Len(w)} \cup {r}
  <2>1. ASSUME NEW n \in 1..Len(v) PROVE v[n] \in {w[k] : k \in 1..Len(w)} \cup {r}
    BY <1>1, <1>2
  <2>2. ASSUME NEW k \in 1..Len(w) PROVE \E n \in 1..Len(v) : v[n] = w[k]
    BY <1>1, <1>2
  <2>3. \E n \in 1..Len(v) : v[n] = r
    BY <1>1, <1>2
  <2>4. {v[n] : n \in 1..Len(v)} \subseteq {w[n] : n \in 1..Len(w)} \cup {r}
    BY <2>1
  <2>5. {w[n] : n \in 1..Len(w)} \cup {r} \subseteq {v[n] : n \in 1..Len(v)}
    BY <2>2, <2>3
  <2>6. QED
    BY <2>4, <2>5
<1>4. \A m, n \in 1..Len(v) : v[m] = v[n] => m = n
  BY <1>1, <1>2
<1>5. QED
  BY <1>1, <1>3, <1>4 DEF v

\* Popping takes the oldest waiter, and only it, out of the queue.
LEMMA PopWaiter ==
  ASSUME NEW w \in Seq(Requests), w # <<>>,
         \A m, n \in 1..Len(w) : w[m] = w[n] => m = n
  PROVE  LET v == Tail(w) IN
         /\ v \in Seq(Requests)
         /\ Head(w) \in {w[n] : n \in 1..Len(w)}
         /\ {v[n] : n \in 1..Len(v)} = {w[n] : n \in 1..Len(w)} \ {Head(w)}
         /\ \A m, n \in 1..Len(v) : v[m] = v[n] => m = n
<1> DEFINE v == Tail(w)
<1>1. v \in Seq(Requests) /\ Len(w) \in Nat /\ Len(w) > 0 /\ Len(v) = Len(w) - 1 /\ Head(w) = w[1]
  OBVIOUS
<1>2. \A n \in 1..Len(v) : v[n] = w[n + 1]
  OBVIOUS
<1> HIDE DEF v
<1>3. {v[n] : n \in 1..Len(v)} = {w[n] : n \in 1..Len(w)} \ {Head(w)}
  <2>1. ASSUME NEW n \in 1..Len(v) PROVE v[n] \in {w[k] : k \in 1..Len(w)} /\ v[n] # Head(w)
    <3>1. n + 1 \in 1..Len(w) /\ 1 \in 1..Len(w) /\ n + 1 # 1
      BY <1>1
    <3>2. QED
      BY <1>1, <1>2, <3>1
  <2>2. ASSUME NEW k \in 1..Len(w), w[k] # Head(w) PROVE \E n \in 1..Len(v) : v[n] = w[k]
    <3>1. k - 1 \in 1..Len(v) /\ (k - 1) + 1 = k
      BY <1>1, <2>2
    <3>2. QED
      BY <1>2, <3>1
  <2>3. QED
    BY <2>1, <2>2
<1>4. \A m, n \in 1..Len(v) : v[m] = v[n] => m = n
  <2> SUFFICES ASSUME NEW m \in 1..Len(v), NEW n \in 1..Len(v), v[m] = v[n] PROVE m = n
    OBVIOUS
  <2>1. m + 1 \in 1..Len(w) /\ n + 1 \in 1..Len(w) /\ w[m + 1] = w[n + 1]
    BY <1>1, <1>2
  <2>2. QED
    BY <2>1
<1>5. QED
  BY <1>1, <1>3, <1>4 DEF v

-----------------------------------------------------------------------------
\* PoolInner as `new` leaves it: all items idle, no waiter, open.
LEMMA InitIInv == Init => IInv
<1> SUFFICES ASSUME Init PROVE IInv
  OBVIOUS
<1> USE PoolAssumption DEF Init
<1>1. Registered = {}
  BY DEF Registered
<1>2. TypeOK
  <2>1. waiters \in Seq(Requests)
    OBVIOUS
  <2>2. /\ pc \in [Requests -> Phases]
        /\ got \in [Requests -> Items \cup {None}]
        /\ target \in [Requests -> Requests \cup {None}]
        /\ charged \in [Items -> Requests \cup {None}]
    BY DEF Phases
  <2>3. QED
    BY <2>1, <2>2 DEF TypeOK
<1>3. SendersInv
  BY <1>1 DEF SendersInv, SenderAlive, Owning
<1>4. UniqueOwner
  BY DEF UniqueOwner, Present
<1>5. LossesCharged
  BY DEF LossesCharged, Present
<1>6. NoWaiterAfterClose
  BY DEF NoWaiterAfterClose
<1>7. QED
  BY <1>2, <1>3, <1>4, <1>5, <1>6 DEF IInv

\* Steps that move one caller to another phase and leave the rest alone.
LEMMA QuietStep ==
  ASSUME IInv, NEW r \in Requests, NEW ph \in Phases,
         pc' = [pc EXCEPT ![r] = ph],
         UNCHANGED <<items, waiters, closed, closer, got, target, charged>>,
         pc[r] \notin {"cancelled", "abandoned", "sending"},
         ph \notin {"sending", "parked"},
         (ph \in Owning) => got[r] # None,
         got[r] # None => ph \in Owning,
         SenderAlive(r) => ph = "cancelled"
  PROVE  IInv'
<1> USE PoolAssumption
<1>1. TypeOK'
  BY DEF IInv, TypeOK
<1>2. Registered' = Registered /\ \A q \in Requests : SenderAlive(q)' = SenderAlive(q)
  BY DEF Registered, SenderAlive
<1>3. \A i \in Items : Present(i)' = Present(i)
  BY DEF Present
<1>4. SendersInv'
  BY <1>2 DEF IInv, TypeOK, SendersInv
<1>5. UniqueOwner'
  BY <1>3 DEF IInv, TypeOK, UniqueOwner
<1>6. LossesCharged'
  BY <1>3 DEF IInv, TypeOK, LossesCharged
<1>7. NoWaiterAfterClose'
  BY DEF IInv, NoWaiterAfterClose
<1>8. QED
  BY <1>1, <1>4, <1>5, <1>6, <1>7 DEF IInv

\* The steps of checkout and checkin that only decide how to go on.
LEMMA QuietActions ==
  ASSUME IInv, NEW r \in Requests,
         \/ FastPathClosed(r) \/ FastPathMiss(r) \/ RegisterClosed(r)
         \/ Receive(r) \/ ReceiveClosed(r) \/ CheckinOpen(r) \/ CheckinNoWaiter(r)
  PROVE  IInv'
<1> USE PoolAssumption DEF Goto
<1> USE QuietStep
<1>0. /\ pc[r] \in {"new", "missed"} => got[r] = None /\ ~SenderAlive(r)
      /\ pc[r] \in Owning => got[r] # None /\ ~SenderAlive(r)
  BY DEF IInv, SendersInv, Owning
<1>1. CASE FastPathClosed(r)
  BY <1>0, <1>1 DEF FastPathClosed, Phases, Owning
<1>2. CASE FastPathMiss(r)
  BY <1>0, <1>2 DEF FastPathMiss, Phases, Owning
<1>3. CASE RegisterClosed(r)
  BY <1>0, <1>3 DEF RegisterClosed, Phases, Owning
<1>4. CASE Receive(r)
  <2>1. ~SenderAlive(r)
    BY <1>4 DEF IInv, SendersInv, Receive
  <2>2. QED
    BY <1>4, <2>1 DEF Receive, Phases, Owning
<1>5. CASE ReceiveClosed(r)
  BY <1>5 DEF ReceiveClosed, Phases, Owning
<1>6. CASE CheckinOpen(r)
  BY <1>0, <1>6 DEF CheckinOpen, Phases, Owning
<1>7. CASE CheckinNoWaiter(r)
  BY <1>0, <1>7 DEF CheckinNoWaiter, Phases, Owning
<1>8. QED
  BY <1>1, <1>2, <1>3, <1>4, <1>5, <1>6, <1>7

\* The fast path's pop moves an idle item to one guard.
LEMMA FastPathItemStep ==
  ASSUME IInv, NEW r \in Requests, FastPathItem(r)
  PROVE  IInv'
<1> USE PoolAssumption DEF Goto, Owning
<1> PICK i \in items : items' = items \ {i} /\ got' = [got EXCEPT ![r] = i]
  BY DEF FastPathItem
<1>1. TypeOK /\ pc[r] = "new" /\ pc' = [pc EXCEPT ![r] = "holding"] /\ i \in Items
      /\ UNCHANGED <<waiters, closed, closer, target, charged>> /\ ~closed
  BY DEF IInv, TypeOK, FastPathItem
<1>2. TypeOK'
  BY <1>1 DEF TypeOK, Phases
<1>3. Registered' = Registered /\ \A q \in Requests : SenderAlive(q)' = SenderAlive(q)
  BY <1>1 DEF Registered, SenderAlive
<1>4. got[r] = None /\ ~SenderAlive(r)
  BY <1>1 DEF IInv, SendersInv
<1>5. \A j \in Items : Present(j)' = Present(j)
  BY <1>1, <1>4 DEF Present, TypeOK
<1>6. SendersInv'
  BY <1>1, <1>3, <1>4 DEF IInv, TypeOK, SendersInv
<1>7. UniqueOwner'
  BY <1>1, <1>5 DEF IInv, TypeOK, UniqueOwner
<1>8. LossesCharged'
  BY <1>1, <1>5 DEF IInv, TypeOK, LossesCharged
<1>9. NoWaiterAfterClose'
  BY <1>1 DEF IInv, NoWaiterAfterClose
<1>10. QED
  BY <1>2, <1>6, <1>7, <1>8, <1>9 DEF IInv

\* A Sender enters the queue under a lock that close() has not taken yet.
LEMMA RegisterStep ==
  ASSUME IInv, NEW r \in Requests, Register(r)
  PROVE  IInv'
<1> USE PoolAssumption DEF Goto, Owning
<1>1. TypeOK /\ pc[r] = "missed" /\ pc' = [pc EXCEPT ![r] = "parked"] /\ ~closed
      /\ waiters' = Append(waiters, r) /\ UNCHANGED <<items, closed, closer, got, target, charged>>
  BY DEF IInv, Register
<1>2. got[r] = None /\ ~SenderAlive(r) /\ closer # "cleared" /\ \A i \in Items : charged[i] # r
  BY <1>1 DEF IInv, SendersInv, LossesCharged
<1>3. /\ waiters' \in Seq(Requests)
      /\ Registered' = Registered \cup {r}
      /\ \A m, n \in 1..Len(waiters') : waiters'[m] = waiters'[n] => m = n
  <2>1. \A n \in 1..Len(waiters) : waiters[n] # r
    BY <1>2 DEF SenderAlive, Registered
  <2>2. \A m, n \in 1..Len(waiters) : waiters[m] = waiters[n] => m = n
    BY DEF IInv, SendersInv
  <2>3. QED
    BY <1>1, <2>1, <2>2, AppendWaiter DEF TypeOK, Registered
<1>4. TypeOK'
  BY <1>1, <1>3 DEF TypeOK, Phases
<1>5. \A q \in Requests : SenderAlive(q)' <=> SenderAlive(q) \/ q = r
  BY <1>1, <1>3 DEF SenderAlive
<1>6. \A j \in Items : Present(j)' = Present(j)
  BY <1>1 DEF Present
<1>7. SendersInv'
  <2>1. \A q \in Requests : target'[q] \notin Registered'
    BY <1>1, <1>2, <1>3 DEF IInv, SendersInv, SenderAlive
  <2>2. QED
    BY <1>1, <1>2, <1>3, <1>5, <2>1 DEF IInv, TypeOK, SendersInv
<1>8. UniqueOwner'
  BY <1>1, <1>6 DEF IInv, TypeOK, UniqueOwner
<1>9. LossesCharged'
  BY <1>1, <1>6 DEF IInv, TypeOK, LossesCharged
<1>10. NoWaiterAfterClose'
  BY <1>1, <1>2 DEF NoWaiterAfterClose
<1>11. QED
  BY <1>4, <1>7, <1>8, <1>9, <1>10 DEF IInv

\* A caller that leaves with an item, or a cancelled caller with an item in its
\* channel: the item is charged to it, and to nothing else.
LEMMA ChargeStep ==
  ASSUME IInv, NEW r \in Requests, NEW ph \in {"cancelled", "abandoned"},
         pc' = [pc EXCEPT ![r] = ph],
         got' = [got EXCEPT ![r] = None],
         charged' = [i \in Items |-> IF i = got[r] THEN r ELSE charged[i]],
         UNCHANGED <<items, waiters, closed, closer, target>>,
         \/ pc[r] = "parked" /\ ph = "cancelled"
         \/ pc[r] = "holding" /\ ph = "abandoned"
  PROVE  IInv'
<1> USE PoolAssumption DEF Owning
<1>1. TypeOK'
  BY DEF IInv, TypeOK, Phases
<1>2. Registered' = Registered /\ \A q \in Requests : SenderAlive(q)' = SenderAlive(q)
  BY DEF Registered, SenderAlive
<1>3. \A i \in Items : charged[i] # r
  BY DEF IInv, LossesCharged
<1>4. \A i \in Items : Present(i)' <=> Present(i) /\ i # got[r]
  BY DEF IInv, TypeOK, UniqueOwner, Present
<1>5. SendersInv'
  <2>1. SenderAlive(r) => ph = "cancelled" /\ got[r] = None
    BY DEF IInv, SendersInv
  <2>2. \A q \in Requests : SenderAlive(q) => \A i \in Items : charged'[i] # q
    BY <2>1 DEF IInv, TypeOK, SendersInv
  <2>3. QED
    BY <1>2, <2>1, <2>2 DEF IInv, TypeOK, SendersInv
<1>6. UniqueOwner'
  BY <1>4 DEF IInv, TypeOK, UniqueOwner
<1>7. LossesCharged'
  BY <1>3, <1>4 DEF IInv, TypeOK, LossesCharged
<1>8. NoWaiterAfterClose'
  BY DEF IInv, NoWaiterAfterClose
<1>9. QED
  BY <1>1, <1>5, <1>6, <1>7, <1>8 DEF IInv

\* A dropped checkout future costs at most what was in its channel.
LEMMA CancelStep ==
  ASSUME IInv, NEW r \in Requests, Cancel(r)
  PROVE  IInv'
BY ChargeStep DEF Cancel, Goto

\* A lost reservation costs the item it held.
LEMMA AbandonStep ==
  ASSUME IInv, NEW r \in Requests, Abandon(r)
  PROVE  IInv'
<1>1. got[r] \in Items
  BY DEF IInv, TypeOK, SendersInv, Owning, Abandon
<1>2. charged' = [i \in Items |-> IF i = got[r] THEN r ELSE charged[i]]
  BY <1>1 DEF Abandon, IInv, TypeOK
<1>3. QED
  BY <1>2, ChargeStep DEF Abandon, Goto

\* checkin on a closed pool drops the item.
LEMMA CheckinClosedStep ==
  ASSUME IInv, NEW r \in Requests, CheckinClosed(r)
  PROVE  IInv'
<1> USE PoolAssumption DEF Owning, Goto, CheckinClosed
<1>1. TypeOK'
  BY DEF IInv, TypeOK, Phases
<1>2. Registered' = Registered /\ \A q \in Requests : SenderAlive(q)' = SenderAlive(q)
  BY DEF Registered, SenderAlive
<1>3. \A i \in Items : Present(i)' => Present(i)
  BY DEF IInv, TypeOK, Present
<1>4. SendersInv'
  BY <1>2 DEF IInv, TypeOK, SendersInv
<1>5. UniqueOwner'
  BY <1>3 DEF IInv, TypeOK, UniqueOwner
<1>6. LossesCharged'
  BY DEF IInv, TypeOK, LossesCharged
<1>7. NoWaiterAfterClose'
  BY DEF IInv, NoWaiterAfterClose
<1>8. QED
  BY <1>1, <1>4, <1>5, <1>6, <1>7 DEF IInv

\* The oldest Sender moves from the queue into one checkin's hand.
LEMMA CheckinPopStep ==
  ASSUME IInv, NEW r \in Requests, CheckinPop(r)
  PROVE  IInv'
<1> USE PoolAssumption DEF Owning, Goto
<1> DEFINE w == Head(waiters)
<1>1. TypeOK /\ pc[r] = "returning" /\ pc' = [pc EXCEPT ![r] = "sending"] /\ waiters # <<>>
      /\ target' = [target EXCEPT ![r] = w] /\ waiters' = Tail(waiters)
      /\ UNCHANGED <<items, closed, closer, got, charged>>
  BY DEF IInv, CheckinPop
<1>2. /\ waiters' \in Seq(Requests)
      /\ w \in Registered /\ w \in Requests
      /\ Registered' = Registered \ {w}
      /\ \A m, n \in 1..Len(waiters') : waiters'[m] = waiters'[n] => m = n
  <2>1. \A m, n \in 1..Len(waiters) : waiters[m] = waiters[n] => m = n
    BY DEF IInv, SendersInv
  <2>2. Registered \subseteq Requests
    BY <1>1 DEF TypeOK, Registered
  <2>3. /\ Tail(waiters) \in Seq(Requests)
        /\ w \in Registered
        /\ {Tail(waiters)[n] : n \in 1..Len(Tail(waiters))} = Registered \ {w}
        /\ \A m, n \in 1..Len(Tail(waiters)) : Tail(waiters)[m] = Tail(waiters)[n] => m = n
    BY <1>1, <2>1, PopWaiter DEF TypeOK, Registered
  <2>4. Registered' = {Tail(waiters)[n] : n \in 1..Len(Tail(waiters))}
    BY <1>1 DEF Registered
  <2>5. QED
    BY <1>1, <2>2, <2>3, <2>4
<1> HIDE DEF w
<1>3. TypeOK'
  BY <1>1, <1>2 DEF TypeOK, Phases
<1>4. target[r] = None /\ \A q \in Requests : target[q] # w
  BY <1>1, <1>2 DEF IInv, SendersInv
<1>5. \A q \in Requests : SenderAlive(q)' <=> SenderAlive(q)
  <2>1. \A q \in Requests : target'[q] = IF q = r THEN w ELSE target[q]
    BY <1>1 DEF TypeOK
  <2>2. QED
    BY <1>2, <1>4, <2>1 DEF SenderAlive
<1>6. \A j \in Items : Present(j)' = Present(j)
  BY <1>1 DEF Present
<1>7. SendersInv'
  <2>1. ~SenderAlive(r)
    BY <1>1 DEF IInv, SendersInv
  <2>2. \A q \in Requests : target'[q] \notin Registered'
    BY <1>1, <1>2, <1>4 DEF IInv, TypeOK, SendersInv
  <2>3. \A p, q \in Requests : target'[p] = target'[q] /\ target'[p] # None => p = q
    BY <1>1, <1>2, <1>4 DEF IInv, TypeOK, SendersInv
  <2>4. \A q \in Requests : target'[q] # None <=> pc'[q] = "sending"
    BY <1>1, <1>2 DEF IInv, TypeOK, SendersInv
  <2>5. \A q \in Requests : pc'[q] = "parked" =>
          SenderAlive(q)' \/ got'[q] # None \/ closer' = "cleared"
    BY <1>1, <1>5 DEF IInv, TypeOK, SendersInv
  <2>6. QED
    BY <1>1, <1>2, <1>5, <2>1, <2>2, <2>3, <2>4, <2>5 DEF IInv, TypeOK, SendersInv
<1>8. UniqueOwner'
  BY <1>1, <1>6 DEF IInv, TypeOK, UniqueOwner
<1>9. LossesCharged'
  BY <1>1, <1>6 DEF IInv, TypeOK, LossesCharged
<1>10. NoWaiterAfterClose'
  BY <1>1 DEF IInv, NoWaiterAfterClose
<1>11. QED
  BY <1>3, <1>7, <1>8, <1>9, <1>10 DEF IInv

\* The popped Sender delivers, or the item is charged to the caller that is gone.
LEMMA CheckinSendStep ==
  ASSUME IInv, NEW r \in Requests, CheckinSend(r)
  PROVE  IInv'
<1> USE PoolAssumption DEF Owning, Goto
<1> DEFINE w == target[r]
           i == got[r]
<1>1. TypeOK /\ pc[r] = "sending" /\ pc' = [pc EXCEPT ![r] = "served"]
      /\ target' = [target EXCEPT ![r] = None]
      /\ UNCHANGED <<items, waiters, closed, closer>>
  BY DEF IInv, CheckinSend
<1>2. /\ w \in Requests /\ i \in Items /\ w # r
      /\ SenderAlive(w) /\ ~SenderAlive(r) /\ w \notin Registered
      /\ pc[w] \in {"parked", "cancelled"} /\ got[w] = None /\ \A j \in Items : charged[j] # w
  <2>1. w \in Requests /\ i \in Items
    BY <1>1 DEF IInv, TypeOK, SendersInv
  <2>2. SenderAlive(w)
    BY <2>1 DEF SenderAlive
  <2>3. QED
    BY <1>1, <2>1, <2>2 DEF IInv, SendersInv
<1>3. \/ /\ pc[w] = "parked"
         /\ got' = [got EXCEPT ![r] = None, ![w] = i]
         /\ charged' = charged
      \/ /\ pc[w] = "cancelled"
         /\ got' = [got EXCEPT ![r] = None]
         /\ charged' = [charged EXCEPT ![i] = w]
  BY <1>2 DEF CheckinSend
<1> HIDE DEF w, i
<1>4. TypeOK'
  BY <1>1, <1>2, <1>3 DEF TypeOK, Phases
<1>5. Registered' = Registered
  BY <1>1 DEF Registered
<1>6. \A q \in Requests : SenderAlive(q)' <=> SenderAlive(q) /\ q # w
  <2>1. \A q \in Requests : target'[q] = IF q = r THEN None ELSE target[q]
    BY <1>1 DEF TypeOK
  <2>2. \A q \in Requests : target[q] = w <=> q = r
    BY <1>1, <1>2 DEF IInv, SendersInv, w
  <2>3. QED
    BY <1>2, <1>5, <2>1, <2>2 DEF SenderAlive
<1>7. i \notin items /\ (\A q \in Requests : got[q] = i <=> q = r) /\ charged[i] = None
  BY <1>2 DEF IInv, UniqueOwner, Present, i
<1>8. SendersInv'
  <2>1. \A q \in Requests : target'[q] # None <=> pc'[q] = "sending"
    BY <1>1 DEF IInv, TypeOK, SendersInv
  <2>2. \A p, q \in Requests : target'[p] = target'[q] /\ target'[p] # None => p = q
    BY <1>1 DEF IInv, TypeOK, SendersInv
  <2>3. \A q \in Requests : target'[q] \notin Registered'
    <3>1. None \notin Registered
      BY <1>1 DEF TypeOK, Registered
    <3>2. QED
      BY <1>1, <1>5, <3>1 DEF IInv, TypeOK, SendersInv
  <2>4. \A q \in Requests : SenderAlive(q)' =>
          pc'[q] \in {"parked", "cancelled"} /\ got'[q] = None /\ \A j \in Items : charged'[j] # q
    BY <1>1, <1>2, <1>3, <1>6 DEF IInv, TypeOK, SendersInv
  <2>5. \A q \in Requests : /\ pc'[q] \in Owning => got'[q] # None
                            /\ got'[q] # None => pc'[q] \in Owning \cup {"parked"}
    BY <1>1, <1>2, <1>3 DEF IInv, TypeOK, SendersInv
  <2>6. \A q \in Requests : pc'[q] = "parked" =>
          SenderAlive(q)' \/ got'[q] # None \/ closer' = "cleared"
    <3>1. ASSUME NEW q \in Requests, q # w, pc'[q] = "parked"
          PROVE  SenderAlive(q)' \/ got'[q] # None \/ closer' = "cleared"
      BY <1>1, <1>2, <1>3, <1>6, <3>1 DEF IInv, TypeOK, SendersInv
    <3>2. pc'[w] = "parked" => got'[w] # None
      BY <1>1, <1>2, <1>3 DEF TypeOK
    <3>3. QED
      BY <3>1, <3>2
  <2>7. QED
    BY <1>1, <2>1, <2>2, <2>3, <2>4, <2>5, <2>6 DEF IInv, SendersInv
<1>9. CASE pc[w] = "parked"
  <2>1. got' = [got EXCEPT ![r] = None, ![w] = i] /\ charged' = charged
    BY <1>3, <1>9
  <2>2. \A j \in Items : Present(j)' <=> Present(j)
    BY <1>1, <1>2, <1>7, <2>1 DEF TypeOK, Present
  <2>3. UniqueOwner'
    BY <1>1, <1>2, <1>7, <2>1, <2>2 DEF IInv, TypeOK, UniqueOwner
  <2>4. LossesCharged'
    BY <1>1, <2>1, <2>2 DEF IInv, TypeOK, LossesCharged
  <2>5. QED
    BY <1>1, <1>4, <1>8, <2>3, <2>4 DEF IInv, NoWaiterAfterClose
<1>10. CASE pc[w] = "cancelled"
  <2>1. got' = [got EXCEPT ![r] = None] /\ charged' = [charged EXCEPT ![i] = w]
    BY <1>3, <1>10
  <2>2. \A j \in Items : Present(j)' <=> Present(j) /\ j # i
    BY <1>1, <1>2, <1>7, <2>1 DEF TypeOK, Present
  <2>3. UniqueOwner'
    BY <1>1, <1>2, <2>1, <2>2 DEF IInv, TypeOK, UniqueOwner
  <2>4. LossesCharged'
    BY <1>1, <1>2, <1>10, <2>1, <2>2 DEF IInv, TypeOK, LossesCharged
  <2>5. QED
    BY <1>1, <1>4, <1>8, <2>3, <2>4 DEF IInv, NoWaiterAfterClose
<1>11. QED
  BY <1>2, <1>9, <1>10

\* The push moves an owned item to the deque.
LEMMA CheckinPushStep ==
  ASSUME IInv, NEW r \in Requests, CheckinPush(r)
  PROVE  IInv'
<1> USE PoolAssumption DEF Owning, Goto
<1>1. TypeOK /\ pc[r] = "pushing" /\ pc' = [pc EXCEPT ![r] = "served"]
      /\ items' = items \cup {got[r]} /\ got' = [got EXCEPT ![r] = None]
      /\ UNCHANGED <<waiters, closed, closer, target, charged>>
  BY DEF IInv, CheckinPush
<1>2. got[r] \in Items /\ ~SenderAlive(r)
  BY <1>1 DEF IInv, TypeOK, SendersInv
<1>3. TypeOK'
  BY <1>1, <1>2 DEF TypeOK, Phases
<1>4. Registered' = Registered /\ \A q \in Requests : SenderAlive(q)' = SenderAlive(q)
  BY <1>1 DEF Registered, SenderAlive
<1>5. \A j \in Items : Present(j)' <=> Present(j)
  BY <1>1, <1>2 DEF IInv, TypeOK, UniqueOwner, Present
<1>6. SendersInv'
  BY <1>1, <1>2, <1>4 DEF IInv, TypeOK, SendersInv
<1>7. UniqueOwner'
  BY <1>1, <1>2, <1>5 DEF IInv, TypeOK, UniqueOwner
<1>8. LossesCharged'
  BY <1>1, <1>5 DEF IInv, TypeOK, LossesCharged
<1>9. NoWaiterAfterClose'
  BY <1>1 DEF IInv, NoWaiterAfterClose
<1>10. QED
  BY <1>3, <1>6, <1>7, <1>8, <1>9 DEF IInv

\* The store of the flag, and the clear that drops every queued Sender.
LEMMA CloseStep ==
  ASSUME IInv, CloseStore \/ CloseClear
  PROVE  IInv'
<1> USE PoolAssumption DEF Owning
<1>1. \A i \in Items : Present(i)' = Present(i)
  BY DEF CloseStore, CloseClear, Present
<1>2. CASE CloseStore
  <2> USE <1>2 DEF CloseStore
  <2>1. Registered' = Registered /\ \A q \in Requests : SenderAlive(q)' = SenderAlive(q)
    BY DEF Registered, SenderAlive
  <2>2. TypeOK'
    BY DEF IInv, TypeOK
  <2>3. SendersInv'
    BY <2>1 DEF IInv, SendersInv
  <2>4. UniqueOwner' /\ LossesCharged' /\ NoWaiterAfterClose'
    BY <1>1 DEF IInv, UniqueOwner, LossesCharged, NoWaiterAfterClose
  <2>5. QED
    BY <2>2, <2>3, <2>4 DEF IInv
<1>3. CASE CloseClear
  <2> USE <1>3 DEF CloseClear
  <2>1. Registered' = {} /\ \A q \in Requests : SenderAlive(q)' => SenderAlive(q)
    BY DEF Registered, SenderAlive
  <2>2. TypeOK'
    <3>1. waiters' \in Seq(Requests)
      OBVIOUS
    <3>2. QED
      BY <3>1 DEF IInv, TypeOK
  <2>3. SendersInv'
    BY <2>1 DEF IInv, SendersInv
  <2>4. UniqueOwner' /\ LossesCharged' /\ NoWaiterAfterClose'
    BY <1>1 DEF IInv, UniqueOwner, LossesCharged, NoWaiterAfterClose
  <2>5. QED
    BY <2>2, <2>3, <2>4 DEF IInv
<1>4. QED
  BY <1>2, <1>3

-----------------------------------------------------------------------------
(* The theorems *)

\* The strengthened invariant holds in every reachable state of the pool.
THEOREM Invariance == Spec => []IInv
<1>1. IInv /\ [Next]_poolVars => IInv'
  <2> SUFFICES ASSUME IInv, [Next]_poolVars PROVE IInv'
    OBVIOUS
  <2>1. ASSUME NEW r \in Requests, Checkout(r) PROVE IInv'
    BY <2>1, QuietActions, FastPathItemStep DEF Checkout
  <2>2. ASSUME NEW r \in Requests, CallStep(r) PROVE IInv'
    BY <2>2, QuietActions, RegisterStep, CheckinPopStep, CheckinSendStep, CheckinPushStep DEF CallStep
  <2>3. ASSUME NEW r \in Requests, Checkin(r) PROVE IInv'
    BY <2>3, QuietActions, CheckinClosedStep DEF Checkin
  <2>4. ASSUME NEW r \in Requests, Cancel(r) \/ Abandon(r) PROVE IInv'
    BY <2>4, CancelStep, AbandonStep
  <2>5. CASE CloseStore \/ CloseClear
    BY <2>5, CloseStep
  <2>6. CASE UNCHANGED poolVars
    BY <2>6 DEF poolVars, IInv, TypeOK, SendersInv, UniqueOwner, LossesCharged,
                NoWaiterAfterClose, SenderAlive, Registered, Present
  <2>7. QED
    BY <2>1, <2>2, <2>3, <2>4, <2>5, <2>6 DEF Next
<1>2. QED
  BY <1>1, InitIInv, PTL DEF Spec

\* Every variable keeps its type.
THEOREM TypeCorrect == Spec => []TypeOK
BY Invariance, PTL DEF IInv

\* Two callers never own the same triplet, and an owned or dropped one is not
\* idle: for any number of callers, items and cancelled waits.
THEOREM Exclusive == Spec => []UniqueOwner
BY Invariance, PTL DEF IInv

\* While the pool is open every missing triplet is charged to a cancelled or
\* abandoned call of its own: no sequence of such calls costs more.
THEOREM LossesBounded == Spec => []LossesCharged
BY Invariance, PTL DEF IInv

\* Once close() has returned no waiter is registered, ever.
THEOREM CloseDrainsWaiters == Spec => []NoWaiterAfterClose
BY Invariance, PTL DEF IInv

\* Every parked caller of an open pool can still be reached: its Sender is queued
\* once, or in one checkin's hand, and leads to an empty channel.
THEOREM SendersLive == Spec => []SendersInv
BY Invariance, PTL DEF IInv

\* No waiter leaves the queue before one that registered earlier.
THEOREM QueueOrder == Spec => ServedInOrder
<1> DEFINE Kept == \A m, n \in 1..Len(waiters) :
                      m < n /\ waiters[n] \notin Registered' => waiters[m] \notin Registered'
<1>1. IInv /\ [Next]_poolVars => [Kept]_poolVars
  <2> SUFFICES ASSUME IInv, [Next]_poolVars,
                      NEW m \in 1..Len(waiters), NEW n \in 1..Len(waiters),
                      m < n, waiters[n] \notin Registered'
               PROVE  waiters[m] \notin Registered'
    OBVIOUS
  <2>1. waiters \in Seq(Requests) /\ \A k, l \in 1..Len(waiters) : waiters[k] = waiters[l] => k = l
    BY DEF IInv, TypeOK, SendersInv
  <2>2. waiters[n] \in Registered
    BY DEF Registered
  <2>3. CASE waiters' = waiters
    BY <2>2, <2>3 DEF Registered
  <2>4. CASE \E r \in Requests : Register(r)
    <3>1. PICK r \in Requests : waiters' = Append(waiters, r)
      BY <2>4 DEF Register
    <3>2. n \in 1..Len(waiters') /\ waiters'[n] = waiters[n]
      BY <2>1, <3>1
    <3>3. QED
      BY <3>2 DEF Registered
  <2>5. CASE \E r \in Requests : CheckinPop(r)
    <3>1. waiters # <<>> /\ waiters' = Tail(waiters)
      BY <2>5 DEF CheckinPop
    <3>2. Registered' = Registered \ {Head(waiters)}
      <4>1. {Tail(waiters)[k] : k \in 1..Len(Tail(waiters))} = Registered \ {Head(waiters)}
        BY <2>1, <3>1, PopWaiter DEF Registered
      <4>2. Registered' = {Tail(waiters)[k] : k \in 1..Len(Tail(waiters))}
        BY <3>1 DEF Registered
      <4>3. QED
        BY <4>1, <4>2
    <3>3. n = 1
      BY <2>1, <2>2, <3>1, <3>2
    <3>4. QED
      BY <2>1, <3>3
  <2>6. CASE CloseClear
    <3>1. Registered' = {}
      BY <2>6 DEF CloseClear, Registered
    <3>2. QED
      BY <3>1
  <2>7. QED
    BY <2>3, <2>4, <2>5, <2>6
       DEF Next, Checkout, CallStep, Checkin, FastPathClosed, FastPathItem, FastPathMiss,
           RegisterClosed, Receive, ReceiveClosed, Cancel, Abandon, CheckinClosed, CheckinOpen,
           CheckinNoWaiter, CheckinSend, CheckinPush, CloseStore, poolVars
<1>2. QED
  BY <1>1, Invariance, PTL DEF Spec, ServedInOrder

-----------------------------------------------------------------------------
(* Pool implements SessionPool: every critical section of checkout, checkin *)
(* and close is one step of the promise, or none.                           *)

\* What the mapping makes of each phase.
LEMMA StatusTable ==
  /\ Status("new") = "new" /\ Status("refused") = "refused"
  /\ Status("cancelled") = "quit" /\ Status("abandoned") = "quit"
  /\ Status("missed") = "waiting" /\ Status("parked") = "waiting"
  /\ Status("holding") = "using"
  /\ Status("returning") = "served" /\ Status("sending") = "served"
  /\ Status("pushing") = "served" /\ Status("served") = "served"
BY DEF Status

\* An item that a caller may be given is not in use, in the promise's terms.
LEMMA MappedUsable ==
  ASSUME IInv, NEW i \in Items, Present(i),
         \A q \in Requests : pc[q] = "holding" => got[q] # i
  PROVE  i \notin goneBar /\ \A q \in Requests : usingBar[q] # i
BY PoolAssumption DEF goneBar, usingBar

\* The full pool is a promise that nobody has called on yet.
LEMMA InitMapped == Init => Promise!Init
<1> SUFFICES ASSUME Init PROVE Promise!Init
  OBVIOUS
<1>1. statusBar = [r \in Requests |-> "new"]
  BY StatusTable DEF Init, statusBar
<1>2. usingBar = [r \in Requests |-> None]
  BY DEF Init, usingBar
<1>3. goneBar = {}
  BY DEF Init, goneBar, Present
<1>4. QED
  BY <1>1, <1>2, <1>3 DEF Init, Promise!Init

\* Steps of one caller that the promise does not see: its phase, its item in
\* use and what is present stay the same in the promise's terms.
LEMMA HiddenStep ==
  ASSUME IInv, NEW r \in Requests,
         Register(r) \/ CheckinPop(r) \/ CheckinNoWaiter(r) \/ CheckinPush(r)
  PROVE  UNCHANGED Promise!promiseVars
<1> USE DEF Goto
<1>1. TypeOK
  BY DEF IInv
<1>2. statusBar' = statusBar
  BY <1>1, StatusTable DEF statusBar, TypeOK, Register, CheckinPop, CheckinNoWaiter, CheckinPush
<1>3. usingBar' = usingBar
  BY <1>1 DEF usingBar, TypeOK, Register, CheckinPop, CheckinNoWaiter, CheckinPush
<1>4. goneBar' = goneBar
  <2>1. CASE Register(r) \/ CheckinPop(r) \/ CheckinNoWaiter(r)
    BY <2>1 DEF goneBar, Present, Register, CheckinPop, CheckinNoWaiter
  <2>2. CASE CheckinPush(r)
    <3>1. got[r] # None /\ items' = items \cup {got[r]} /\ got' = [got EXCEPT ![r] = None]
      BY <2>2 DEF IInv, SendersInv, Owning, CheckinPush
    <3>2. \A i \in Items : Present(i)' <=> Present(i)
      BY <1>1, <3>1, PoolAssumption DEF Present, TypeOK
    <3>3. QED
      BY <3>2 DEF goneBar
  <2>3. QED
    BY <2>1, <2>2
<1>5. UNCHANGED <<closed, charged>>
  BY DEF Register, CheckinPop, CheckinNoWaiter, CheckinPush
<1>6. QED
  BY <1>2, <1>3, <1>4, <1>5 DEF Promise!promiseVars

\* The three ways checkout returns PoolError::Closed are the promise's Refuse.
LEMMA RefuseMapped ==
  ASSUME IInv, NEW r \in Requests,
         FastPathClosed(r) \/ RegisterClosed(r) \/ ReceiveClosed(r)
  PROVE  Promise!Refuse(r)
<1> USE DEF Goto
<1>1. TypeOK /\ pc' = [pc EXCEPT ![r] = "refused"] /\ pc[r] \in {"new", "missed", "parked"}
      /\ UNCHANGED <<items, got, closed, charged>>
  BY DEF IInv, FastPathClosed, RegisterClosed, ReceiveClosed
<1>2. closed
  BY DEF IInv, SendersInv, FastPathClosed, RegisterClosed, ReceiveClosed
<1>3. statusBar[r] \in {"new", "waiting"} /\ statusBar' = [statusBar EXCEPT ![r] = "refused"]
  BY <1>1, StatusTable DEF TypeOK, statusBar
<1>4. usingBar' = usingBar
  BY <1>1 DEF TypeOK, usingBar
<1>5. goneBar' = goneBar
  BY <1>1 DEF goneBar, Present
<1>6. QED
  BY <1>1, <1>2, <1>3, <1>4, <1>5 DEF Promise!Refuse, Promise!Become

\* A caller that finds the deque empty waits, also before it has registered.
LEMMA WaitMapped ==
  ASSUME IInv, NEW r \in Requests, FastPathMiss(r)
  PROVE  Promise!Wait(r)
<1> USE DEF Goto, FastPathMiss
<1>1. statusBar[r] = "new" /\ statusBar' = [statusBar EXCEPT ![r] = "waiting"]
  BY StatusTable DEF IInv, TypeOK, statusBar
<1>2. usingBar' = usingBar
  BY DEF IInv, TypeOK, usingBar
<1>3. goneBar' = goneBar
  BY DEF goneBar, Present
<1>4. QED
  BY <1>1, <1>2, <1>3 DEF Promise!Wait, Promise!Become

\* The fast path, and the end of a wait, hand out an item nobody else uses.
LEMMA GrantMapped ==
  ASSUME IInv, NEW r \in Requests, FastPathItem(r) \/ Receive(r)
  PROVE  \E i \in Items : Promise!Grant(r, i)
<1> USE PoolAssumption DEF Goto
<1>1. TypeOK /\ pc' = [pc EXCEPT ![r] = "holding"] /\ UNCHANGED <<closed, charged>>
      /\ \/ pc[r] = "new" /\ ~closed
         \/ pc[r] = "parked"
  BY DEF IInv, FastPathItem, Receive
<1>2. PICK i \in Items :
        /\ Present(i)
        /\ \A q \in Requests : pc[q] = "holding" => got[q] # i
        /\ got'[r] = i
        /\ \A q \in Requests \ {r} : got'[q] = got[q]
        /\ \A j \in Items : Present(j)' <=> Present(j)
  <2>1. CASE FastPathItem(r)
    <3>1. PICK i \in items : items' = items \ {i} /\ got' = [got EXCEPT ![r] = i]
      BY <2>1 DEF FastPathItem
    <3>2. got[r] = None
      BY <2>1 DEF FastPathItem, IInv, SendersInv, Owning
    <3>3. i \in Items /\ Present(i) /\ \A q \in Requests : got[q] # i
      BY <3>1 DEF IInv, TypeOK, UniqueOwner, Present
    <3>4. \A j \in Items : Present(j)' <=> Present(j)
      BY <1>1, <3>1, <3>2 DEF TypeOK, Present
    <3>5. QED
      BY <1>1, <3>1, <3>3, <3>4 DEF TypeOK
  <2>2. CASE Receive(r)
    <3>1. got[r] \in Items /\ Present(got[r]) /\ UNCHANGED <<items, got>>
      BY <1>1, <2>2 DEF TypeOK, Present, Receive
    <3>2. \A q \in Requests : pc[q] = "holding" => got[q] # got[r]
      BY <2>2, <3>1 DEF IInv, UniqueOwner, Receive
    <3>3. QED
      BY <3>1, <3>2 DEF Present
  <2>3. QED
    BY <2>1, <2>2
<1>3. statusBar[r] = Status(pc[r]) /\ statusBar' = [statusBar EXCEPT ![r] = "using"]
  BY <1>1, StatusTable DEF TypeOK, statusBar
<1>4. usingBar' = [usingBar EXCEPT ![r] = i]
  BY <1>1, <1>2 DEF TypeOK, usingBar
<1>5. goneBar' = goneBar
  BY <1>2 DEF goneBar
<1>6. Promise!Usable(i)
  BY <1>2, MappedUsable DEF Promise!Usable
<1>7. QED
  BY <1>1, <1>3, <1>4, <1>5, <1>6, StatusTable DEF Promise!Grant, Promise!Become

\* A caller quits without an item, or with the one in its channel or guard.
LEMMA QuitMapped ==
  ASSUME IInv, NEW r \in Requests, Cancel(r) \/ Abandon(r)
  PROVE  Promise!GiveUp(r) \/ Promise!Abandon(r) \/ \E i \in Items : Promise!Forfeit(r, i)
<1> USE PoolAssumption DEF Goto
<1>1. /\ TypeOK /\ got' = [got EXCEPT ![r] = None] /\ UNCHANGED <<items, closed>>
      /\ \/ pc[r] = "parked" /\ pc' = [pc EXCEPT ![r] = "cancelled"]
         \/ pc[r] = "holding" /\ pc' = [pc EXCEPT ![r] = "abandoned"] /\ got[r] # None
  BY DEF IInv, SendersInv, Owning, Cancel, Abandon
<1>2. charged' = [i \in Items |-> IF i = got[r] THEN r ELSE charged[i]]
  <2>1. CASE Cancel(r)
    BY <2>1 DEF Cancel
  <2>2. CASE Abandon(r)
    BY <1>1, <2>2 DEF Abandon, TypeOK
  <2>3. QED
    BY <2>1, <2>2
<1>3. statusBar[r] = Status(pc[r]) /\ statusBar' = [statusBar EXCEPT ![r] = "quit"]
  BY <1>1, StatusTable DEF TypeOK, statusBar
<1>4. \A i \in Items : Present(i)' <=> Present(i) /\ i # got[r]
  BY <1>1 DEF IInv, TypeOK, UniqueOwner, Present
<1>5. CASE got[r] = None
  <2>1. usingBar' = usingBar /\ goneBar' = goneBar /\ charged' = charged
    BY <1>1, <1>2, <1>4, <1>5 DEF TypeOK, usingBar, goneBar
  <2>2. Promise!GiveUp(r)
    BY <1>1, <1>3, <1>5, <2>1, StatusTable DEF Promise!GiveUp, Promise!Become
  <2>3. QED
    BY <2>2
<1>6. CASE got[r] # None
  <2> DEFINE i == got[r]
  <2>1. i \in Items /\ Present(i) /\ goneBar' = goneBar \cup {i} /\ charged' = [charged EXCEPT ![i] = r]
    <3>1. i \in Items /\ Present(i)
      BY <1>1, <1>6 DEF TypeOK, Present
    <3>2. goneBar' = goneBar \cup {i}
      BY <1>4, <3>1 DEF goneBar
    <3>3. charged' = [charged EXCEPT ![i] = r]
      BY <1>1, <1>2 DEF TypeOK
    <3>4. QED
      BY <3>1, <3>2, <3>3
  <2>2. CASE pc[r] = "parked"
    <3>1. \A q \in Requests : pc[q] = "holding" => got[q] # i
      BY <1>6, <2>2 DEF IInv, UniqueOwner
    <3>2. Promise!Usable(i)
      BY <2>1, <3>1, MappedUsable DEF Promise!Usable
    <3>3. Promise!Uncharged(r)
      BY <2>2 DEF IInv, LossesCharged, Promise!Uncharged
    <3>4. usingBar' = usingBar
      BY <1>1, <2>2 DEF TypeOK, usingBar
    <3>5. Promise!Forfeit(r, i)
      BY <1>1, <1>3, <2>1, <2>2, <3>2, <3>3, <3>4, StatusTable DEF Promise!Forfeit, Promise!Become
    <3>6. QED
      BY <2>1, <3>5
  <2>3. CASE pc[r] = "holding"
    <3>1. usingBar[r] = i /\ usingBar' = [usingBar EXCEPT ![r] = None]
      BY <1>1, <2>3 DEF TypeOK, usingBar
    <3>2. Promise!Abandon(r)
      BY <1>1, <1>3, <2>1, <2>3, <3>1, StatusTable DEF Promise!Abandon, Promise!Become
    <3>3. QED
      BY <3>2
  <2>4. QED
    BY <1>1, <2>2, <2>3
<1>7. QED
  BY <1>5, <1>6

\* For its caller the item is back as soon as checkin has read the flag.
LEMMA ReturnMapped ==
  ASSUME IInv, NEW r \in Requests, Checkin(r)
  PROVE  Promise!Return(r)
<1> USE PoolAssumption DEF Goto
<1>1. TypeOK /\ pc[r] = "holding" /\ got[r] \in Items /\ UNCHANGED <<items, closed, charged>>
      /\ \/ pc' = [pc EXCEPT ![r] = "served"] /\ closed /\ got' = [got EXCEPT ![r] = None]
         \/ pc' = [pc EXCEPT ![r] = "returning"] /\ got' = got
  BY DEF IInv, TypeOK, SendersInv, Owning, Checkin, CheckinClosed, CheckinOpen
<1>2. statusBar[r] = "using" /\ statusBar' = [statusBar EXCEPT ![r] = "served"]
  BY <1>1, StatusTable DEF TypeOK, statusBar
<1>3. usingBar[r] = got[r] /\ usingBar' = [usingBar EXCEPT ![r] = None]
  BY <1>1 DEF TypeOK, usingBar
<1>4. goneBar' = goneBar \/ (closed /\ goneBar' = goneBar \cup {got[r]})
  <2>1. CASE got' = got
    BY <1>1, <2>1 DEF goneBar, Present
  <2>2. CASE closed /\ got' = [got EXCEPT ![r] = None]
    <3>1. \A i \in Items : Present(i)' <=> Present(i) /\ i # got[r]
      BY <1>1, <2>2 DEF IInv, TypeOK, UniqueOwner, Present
    <3>2. QED
      BY <1>1, <2>2, <3>1 DEF goneBar
  <2>3. QED
    BY <1>1, <2>1, <2>2
<1>5. QED
  BY <1>1, <1>2, <1>3, <1>4 DEF Promise!Return, Promise!Become

\* A send to a caller that is there is not visible yet; to one that quit it is
\* the forfeit of that caller.
LEMMA SendMapped ==
  ASSUME IInv, NEW r \in Requests, CheckinSend(r)
  PROVE  UNCHANGED Promise!promiseVars \/ \E q \in Requests, i \in Items : Promise!Forfeit(q, i)
<1> USE PoolAssumption DEF Goto
<1> DEFINE w == target[r]
           i == got[r]
<1>1. TypeOK /\ pc[r] = "sending" /\ pc' = [pc EXCEPT ![r] = "served"]
      /\ UNCHANGED <<items, closed>>
  BY DEF IInv, CheckinSend
<1>2. /\ w \in Requests /\ i \in Items /\ w # r
      /\ pc[w] \in {"parked", "cancelled"} /\ got[w] = None /\ \A j \in Items : charged[j] # w
  <2>1. w \in Requests /\ i \in Items
    BY <1>1 DEF IInv, TypeOK, SendersInv, Owning
  <2>2. SenderAlive(w)
    BY <2>1 DEF SenderAlive
  <2>3. QED
    BY <1>1, <2>1, <2>2 DEF IInv, SendersInv
<1>3. \/ /\ pc[w] = "parked"
         /\ got' = [got EXCEPT ![r] = None, ![w] = i]
         /\ charged' = charged
      \/ /\ pc[w] = "cancelled"
         /\ got' = [got EXCEPT ![r] = None]
         /\ charged' = [charged EXCEPT ![i] = w]
  BY <1>2 DEF CheckinSend
<1>4. i \notin items /\ (\A q \in Requests : got[q] = i <=> q = r)
  BY <1>2 DEF IInv, UniqueOwner
<1> HIDE DEF w, i
<1>5. statusBar' = statusBar
  BY <1>1, StatusTable DEF TypeOK, statusBar
<1>6. usingBar' = usingBar
  BY <1>1, <1>2, <1>3 DEF TypeOK, usingBar
<1>7. CASE pc[w] = "parked"
  <2>1. \A j \in Items : Present(j)' <=> Present(j)
    BY <1>1, <1>2, <1>3, <1>4, <1>7 DEF TypeOK, Present
  <2>2. goneBar' = goneBar
    BY <2>1 DEF goneBar
  <2>3. QED
    BY <1>1, <1>3, <1>5, <1>6, <1>7, <2>2 DEF Promise!promiseVars
<1>8. CASE pc[w] = "cancelled"
  <2>1. \A j \in Items : Present(j)' <=> Present(j) /\ j # i
    BY <1>1, <1>2, <1>3, <1>4, <1>8 DEF TypeOK, Present
  <2>2. Present(i) /\ goneBar' = goneBar \cup {i}
    BY <1>2, <1>4, <2>1 DEF goneBar, Present
  <2>3. Promise!Usable(i)
    <3>1. \A q \in Requests : pc[q] = "holding" => got[q] # i
      BY <1>1, <1>4
    <3>2. QED
      BY <1>2, <2>2, <3>1, MappedUsable DEF Promise!Usable
  <2>4. Promise!Uncharged(w)
    BY <1>2 DEF Promise!Uncharged
  <2>5. statusBar[w] = "quit" /\ statusBar' = [statusBar EXCEPT ![w] = "quit"]
    BY <1>2, <1>5, <1>8, StatusTable DEF statusBar
  <2>6. Promise!Forfeit(w, i)
    BY <1>1, <1>3, <1>6, <1>8, <2>2, <2>3, <2>4, <2>5 DEF Promise!Forfeit, Promise!Become
  <2>7. QED
    BY <1>2, <2>6
<1>9. QED
  BY <1>2, <1>7, <1>8

\* close() takes effect with its store; draining the queue is not visible.
LEMMA CloseMapped ==
  ASSUME IInv, CloseStore \/ CloseClear
  PROVE  Promise!Close \/ UNCHANGED Promise!promiseVars
<1>1. statusBar' = statusBar /\ usingBar' = usingBar /\ goneBar' = goneBar /\ charged' = charged
  BY DEF CloseStore, CloseClear, statusBar, usingBar, goneBar, Present
<1>2. closed' = closed \/ (~closed /\ closed' = TRUE)
  BY DEF IInv, SendersInv, CloseStore, CloseClear
<1>3. QED
  BY <1>1, <1>2 DEF Promise!Close, Promise!promiseVars

-----------------------------------------------------------------------------
\* The pool refines its promise: with the phases of a call read as what its
\* caller knows, every behaviour of the pool is one of SessionPool, whatever the
\* interleaving of checkout, checkin, cancellation and close().
THEOREM Implementation == Spec => PromiseSpec
<1>1. IInv /\ [Next]_poolVars => [Promise!Next]_(Promise!promiseVars)
  <2> SUFFICES ASSUME IInv, [Next]_poolVars PROVE Promise!Next \/ UNCHANGED Promise!promiseVars
    OBVIOUS
  <2>1. ASSUME NEW r \in Requests, Checkout(r) \/ CallStep(r) \/ Checkin(r)
        PROVE  Promise!Next \/ UNCHANGED Promise!promiseVars
    BY <2>1, RefuseMapped, WaitMapped, GrantMapped, HiddenStep, SendMapped, ReturnMapped
       DEF Checkout, CallStep, Promise!Next
  <2>2. ASSUME NEW r \in Requests, Cancel(r) \/ Abandon(r) PROVE Promise!Next
    BY <2>2, QuitMapped DEF Promise!Next
  <2>3. CASE CloseStore \/ CloseClear
    BY <2>3, CloseMapped DEF Promise!Next
  <2>4. CASE UNCHANGED poolVars
    BY <2>4 DEF poolVars, Promise!promiseVars, statusBar, usingBar, goneBar, Present
  <2>5. QED
    BY <2>1, <2>2, <2>3, <2>4 DEF Next
<1>2. QED
  BY <1>1, InitMapped, Invariance, PTL DEF Spec, PromiseSpec, Promise!Spec
=============================================================================
