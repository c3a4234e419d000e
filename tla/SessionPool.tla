---------------------------- MODULE SessionPool ----------------------------
(***************************************************************************)
(* What the session pool promises its callers, without locks or queues: an *)
(* item is used by one caller at a time, a caller that found the pool      *)
(* closed gets nothing, items only vanish when the pool is closed or, one  *)
(* for one, when a caller quits: gives up waiting or abandons its item.    *)
(* The order in which waiting callers are served is left open.             *)
(***************************************************************************)
CONSTANTS Items, Requests, None

VARIABLES closed,     \* the pool was closed
          status,     \* what each caller knows
          using,      \* the item each caller uses
          gone,       \* items that no caller can get any more
          charged     \* the caller that quit, for an item that vanished for it

promiseVars == <<closed, status, using, gone, charged>>

Statuses == {"new", "waiting", "using", "served", "refused", "quit"}

Init ==
  /\ closed = FALSE
  /\ status = [r \in Requests |-> "new"]
  /\ using = [r \in Requests |-> None]
  /\ gone = {}
  /\ charged = [i \in Items |-> None]

Become(r, s) == status' = [status EXCEPT ![r] = s]

Usable(i) == i \notin gone /\ \A r \in Requests : using[r] # i

Uncharged(r) == \A i \in Items : charged[i] # r

-----------------------------------------------------------------------------
\* A caller starts to wait: only while the pool is open.
Wait(r) ==
  /\ status[r] = "new"
  /\ ~closed
  /\ Become(r, "waiting")
  /\ UNCHANGED <<closed, using, gone, charged>>

\* A caller gets an item: at once, while the pool is open, or after waiting.
Grant(r, i) ==
  /\ status[r] = "waiting" \/ (status[r] = "new" /\ ~closed)
  /\ Usable(i)
  /\ Become(r, "using")
  /\ using' = [using EXCEPT ![r] = i]
  /\ UNCHANGED <<closed, gone, charged>>

Refuse(r) ==
  /\ status[r] \in {"new", "waiting"}
  /\ closed
  /\ Become(r, "refused")
  /\ UNCHANGED <<closed, using, gone, charged>>

\* A waiting caller gives up.  It may take down one item, now or later.
GiveUp(r) ==
  /\ status[r] = "waiting"
  /\ Become(r, "quit")
  /\ UNCHANGED <<closed, using, gone, charged>>

Forfeit(r, i) ==
  /\ status[r] \in {"waiting", "quit"}
  /\ Usable(i)
  /\ Uncharged(r)
  /\ Become(r, "quit")
  /\ gone' = gone \cup {i}
  /\ charged' = [charged EXCEPT ![i] = r]
  /\ UNCHANGED <<closed, using>>

\* A caller loses the item it uses.
Abandon(r) ==
  /\ status[r] = "using"
  /\ Become(r, "quit")
  /\ using' = [using EXCEPT ![r] = None]
  /\ gone' = gone \cup {using[r]}
  /\ charged' = [charged EXCEPT ![using[r]] = r]
  /\ UNCHANGED closed

\* A caller is done with its item: the item is available again, or it is
\* dropped because the pool is closed.
Return(r) ==
  /\ status[r] = "using"
  /\ Become(r, "served")
  /\ using' = [using EXCEPT ![r] = None]
  /\ \/ UNCHANGED gone
     \/ closed /\ gone' = gone \cup {using[r]}
  /\ UNCHANGED <<closed, charged>>

Close ==
  /\ ~closed
  /\ closed' = TRUE
  /\ UNCHANGED <<status, using, gone, charged>>

Next ==
  \/ \E r \in Requests :
       \/ Wait(r) \/ Refuse(r) \/ GiveUp(r) \/ Return(r) \/ Abandon(r)
       \/ \E i \in Items : Grant(r, i) \/ Forfeit(r, i)
  \/ Close

Spec == Init /\ [][Next]_promiseVars
=============================================================================
