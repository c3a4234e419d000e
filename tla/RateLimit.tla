---------------------------- MODULE RateLimit ----------------------------
(***************************************************************************)
(* The limiter of src/server/rate_limit.rs and the task that evicts from   *)
(* it, server/mod.rs 388-425.  A request reads both clocks and then locks  *)
(* its bucket, so requests of one address can reach the bucket in another  *)
(* order than they read the time.  Instant is monotonic; the wall clock,   *)
(* which decides on eviction, can be set.                                  *)
(*                                                                         *)
(* Tokens are counted in parts of 1 / MsPerMinute: the refill of one       *)
(* millisecond is then the rate per minute, and nothing is rounded.        *)
(***************************************************************************)
EXTENDS Integers, Sequences

CONSTANTS MsPerMinute,            \* 60 000
          MAX_RPM,
          rate_limit_per_minute, rate_limit_burst,
          trust_proxy,
          EvictAfter, EvictEvery, \* milliseconds: the age of a stale bucket, the ticker
          Handlers,               \* requests under way at a time
          Shapes,                 \* what the middleware sees of a request
          Addresses, Private,     \* IP addresses; those of loopback and RFC 1918
          None,
          MaxPause,               \* milliseconds from the clock to the lock, at most
          MaxTime, MaxChecks      \* bounds: of both clocks, of the requests checked

ASSUME RateAssumption ==
  /\ {MsPerMinute, MAX_RPM} \subseteq Nat \ {0}
  /\ {rate_limit_per_minute, rate_limit_burst, EvictAfter, EvictEvery,
      MaxPause, MaxTime, MaxChecks} \subseteq Nat
  /\ trust_proxy \in BOOLEAN
  /\ Private \subseteq Addresses /\ None \notin Addresses
  /\ Shapes \subseteq [direct : Addresses \cup {None}, forwarded : Addresses \cup {None},
                       real : Addresses \cup {None}]

VARIABLES now, unix_ms,   \* the clocks
          reading,        \* handler -> what it has read and for whom, None before
          buckets,        \* address -> bucket, None if there is none
          evict           \* the task: its next tick, or the cutoff of a pass under way

\* History: the times on a bucket's own clock of what it admitted; whether the wall
\* clock was set; the requests checked.
VARIABLES admitted, stepped, checks

vars == <<now, unix_ms, reading, buckets, evict, admitted, stepped, checks>>

-----------------------------------------------------------------------------
(* RateLimiter::new *)

AtLeast(a, b) == IF a < b THEN b ELSE a
AtMost(a, b) == IF a > b THEN b ELSE a

Token == MsPerMinute
refill_per_ms == AtMost(AtLeast(rate_limit_per_minute, 1), MAX_RPM)
capacity == AtLeast(rate_limit_burst, 1) * Token

Init ==
  /\ now = 0 /\ unix_ms = 0
  /\ reading = [r \in Handlers |-> None]
  /\ buckets = [ip \in Addresses |-> None]
  /\ evict = [tick |-> EvictEvery, cutoff |-> 0, left |-> {}, stopped |-> FALSE]
  /\ admitted = [ip \in Addresses |-> <<>>]
  /\ stepped = FALSE
  /\ checks = 0

-----------------------------------------------------------------------------
(* The middleware *)

\* An address that does not parse is as good as none.
extract_client_ip(req) ==
  CASE ~trust_proxy -> req.direct
    [] req.direct # None /\ req.direct \notin Private -> req.direct
    [] req.forwarded # None -> req.forwarded
    [] req.real # None -> req.real
    [] OTHER -> req.direct

\* Without an address, or without a limiter, the request passes: no step.
Limited(req) == rate_limit_per_minute > 0 /\ extract_client_ip(req) # None

ReadClocks(r) ==
  /\ reading[r] = None
  /\ checks < MaxChecks /\ checks' = checks + 1
  /\ \E req \in Shapes :
       /\ Limited(req)
       /\ reading' = [reading EXCEPT ![r] =
            [ip |-> extract_client_ip(req), now |-> now, now_ms |-> unix_ms]]
  /\ UNCHANGED <<now, unix_ms, buckets, evict, admitted, stepped>>

\* Mutant of Refilled: an older reading turns the bucket's clock back.
RefilledBack(bucket, at) ==
  [bucket EXCEPT
     !.tokens = AtMost(@ + AtLeast(at - bucket.last_refill, 0) * refill_per_ms, capacity),
     !.last_refill = at]

\* saturating_duration_since: a reading older than the last refill adds nothing.
Refilled(bucket, at) ==
  IF at > bucket.last_refill
  THEN [bucket EXCEPT
          !.tokens = AtMost(@ + (at - bucket.last_refill) * refill_per_ms, capacity),
          !.last_refill = at]
  ELSE bucket

NewBucket(at, at_ms) == [tokens |-> capacity, last_refill |-> at, last_seen_ms |-> at_ms]

\* Mutant of Enough: a part of a token is taken for one.
EnoughPart(bucket) == bucket.tokens > 0

Enough(bucket) == bucket.tokens >= Token

\* Mutant of Seen: a bucket keeps the stamp of its first request.
SeenAtFirst(bucket, at_ms) == bucket

Seen(bucket, at_ms) == [bucket EXCEPT !.last_seen_ms = at_ms]

\* Under the lock of the entry: insert if there is none, then try_consume.
Check(r) ==
  /\ reading[r] # None
  /\ LET c == reading[r]
         found == IF buckets[c.ip] = None THEN NewBucket(c.now, c.now_ms) ELSE buckets[c.ip]
         bucket == Seen(Refilled(found, c.now), c.now_ms)
         log == IF buckets[c.ip] = None THEN <<>> ELSE admitted[c.ip]
     IN IF Enough(bucket)
        THEN /\ buckets' = [buckets EXCEPT ![c.ip] = [bucket EXCEPT !.tokens = @ - Token]]
             /\ admitted' = [admitted EXCEPT ![c.ip] = Append(log, bucket.last_refill)]
        ELSE /\ buckets' = [buckets EXCEPT ![c.ip] = bucket]
             /\ admitted' = [admitted EXCEPT ![c.ip] = log]
  /\ reading' = [reading EXCEPT ![r] = None]
  /\ UNCHANGED <<now, unix_ms, evict, stepped, checks>>

-----------------------------------------------------------------------------
(* Eviction *)

\* A tick: the cutoff is computed, then every bucket is looked at in turn.
EvictBegins ==
  /\ ~evict.stopped /\ evict.left = {} /\ now >= evict.tick
  /\ evict' = [evict EXCEPT !.tick = now + EvictEvery,
                            !.cutoff = AtLeast(unix_ms - EvictAfter, 0),
                            !.left = Addresses]
  /\ UNCHANGED <<now, unix_ms, reading, buckets, admitted, stepped, checks>>

EvictLooks(ip) ==
  /\ ip \in evict.left
  /\ evict' = [evict EXCEPT !.left = @ \ {ip}]
  /\ buckets' = IF buckets[ip] # None /\ buckets[ip].last_seen_ms < evict.cutoff
                THEN [buckets EXCEPT ![ip] = None]
                ELSE buckets
  /\ UNCHANGED <<now, unix_ms, reading, admitted, stepped, checks>>

\* The shutdown token ends the task between two passes.
EvictStops ==
  /\ ~evict.stopped /\ evict.left = {}
  /\ evict' = [evict EXCEPT !.stopped = TRUE]
  /\ UNCHANGED <<now, unix_ms, reading, buckets, admitted, stepped, checks>>

-----------------------------------------------------------------------------
(* Time *)

Tick ==
  /\ now < MaxTime /\ unix_ms < MaxTime
  /\ \A r \in Handlers : reading[r] # None => now < reading[r].now + MaxPause
  /\ now' = now + 1 /\ unix_ms' = unix_ms + 1
  /\ UNCHANGED <<reading, buckets, evict, admitted, stepped, checks>>

\* The wall clock is set, once.
StepClock ==
  /\ ~stepped /\ stepped' = TRUE
  /\ unix_ms' \in 0..MaxTime
  /\ UNCHANGED <<now, reading, buckets, evict, admitted, checks>>

Next ==
  \/ \E r \in Handlers : ReadClocks(r) \/ Check(r)
  \/ EvictBegins \/ EvictStops \/ \E ip \in Addresses : EvictLooks(ip)
  \/ Tick \/ StepClock

Spec == Init /\ [][Next]_vars

-----------------------------------------------------------------------------
Bucket == [tokens : 0..capacity, last_refill : Nat, last_seen_ms : Nat]
Reading == [ip : Addresses, now : Nat, now_ms : Nat]

ASSUME NoneAssumption == None \notin Bucket

RateTypeOK ==
  /\ now \in Nat /\ unix_ms \in Nat
  /\ reading \in [Handlers -> Reading \cup {None}]
  /\ buckets \in [Addresses -> Bucket \cup {None}]
  /\ evict \in [tick : Nat, cutoff : Nat, left : SUBSET Addresses, stopped : BOOLEAN]
  /\ admitted \in [Addresses -> Seq(Nat)]
  /\ stepped \in BOOLEAN
  /\ checks \in Nat

\* What n requests admitted by a bucket from its time s on leave of a burst and
\* the refill since.
Left(n, s, e) == capacity + refill_per_ms * (e - s) - n * Token

\* Requests of one address that read the time in one order and reach the bucket in
\* another neither gain nor lose by it: a bucket holds what the busiest stretch
\* of what it admitted leaves of a burst and the refill, and is full when no
\* stretch lies on it.  So it turns a request away only if some stretch has used
\* up its due (try_consume's saturating elapsed, its min and its last_refill).
TokensExact ==
  \A ip \in Addresses : buckets[ip] # None =>
    LET bucket == buckets[ip]
        n == Len(admitted[ip])
        After(i) == Left(n - i + 1, admitted[ip][i], bucket.last_refill)
    IN /\ \A i \in 1..n : bucket.tokens <= After(i)
       /\ bucket.tokens = capacity \/ \E i \in 1..n : bucket.tokens = After(i)

\* Whatever rate and burst were configured, a bucket admits in no stretch of its
\* time more than a burst and the refill of the stretch (RateLimiter::check).
AdmittedBound ==
  \A ip \in Addresses :
    \A j \in DOMAIN admitted[ip] : \A i \in 1..j :
      Left(j - i + 1, admitted[ip][i], admitted[ip][j]) >= 0

\* A bucket is evicted only when it would be full, so that the new one the address
\* gets is no gift: as long as the wall clock runs with the other one and a bucket
\* can fill up before it is stale, whatever order its readings came in
\* (evict_stale goes by the last reading that came, try_consume by the latest).
FillsInTime == refill_per_ms * (EvictAfter - MaxPause) >= capacity
EvictedWhenFull ==
  [][\A ip \in Addresses :
       buckets[ip] # None /\ buckets'[ip] = None /\ ~stepped /\ FillsInTime =>
         buckets[ip].tokens + refill_per_ms * (now - buckets[ip].last_refill) >= capacity]_vars
=============================================================================
