---------------------------- MODULE RateProofs ----------------------------
(***************************************************************************)
(* The limiter keeps its promise for every rate, burst and number of       *)
(* requests, in whatever order they reach their buckets.  The induction is *)
(* over what a bucket holds: never more than any stretch of its own        *)
(* admissions leaves, and as much as the tightest of them.                 *)
(***************************************************************************)
EXTENDS RateLimit, TLAPS

-----------------------------------------------------------------------------
(* Rates *)

LEMMA Times ==
  ASSUME NEW a \in Nat, NEW b \in Nat
  PROVE  a * b \in Nat /\ (a + 1) * b = a * b + b
  OBVIOUS

LEMMA Differences ==
  ASSUME NEW a \in Int, NEW b \in Int, NEW c \in Int
  PROVE  /\ a - c \in Int
         /\ a <= b => a - c <= b - c
         /\ a >= c /\ a - c <= b => b >= 0
  OBVIOUS

LEMMA Faster ==
  ASSUME NEW r \in Nat, NEW a \in Int, NEW b \in Int, a <= b
  PROVE  r * a <= r * b
  <1>1. r * b = r * a + r * (b - a) /\ r * a \in Int
    OBVIOUS
  <1>2. r * (b - a) \in Nat
    OBVIOUS
  <1> QED
    BY <1>1, <1>2

LEMMA Rates ==
  /\ refill_per_ms \in Nat \ {0}
  /\ Token \in Nat \ {0}
  /\ capacity \in Nat /\ capacity >= Token
  <1> DEFINE k == AtLeast(rate_limit_burst, 1) - 1
  <1>1. refill_per_ms \in Nat \ {0} /\ Token \in Nat \ {0}
    BY RateAssumption DEF refill_per_ms, AtMost, AtLeast, Token
  <1>2. k \in Nat /\ AtLeast(rate_limit_burst, 1) = k + 1
    BY RateAssumption DEF AtLeast
  <1> HIDE DEF k
  <1>3. capacity = k * Token + Token /\ k * Token \in Nat
    BY <1>1, <1>2, Times DEF capacity
  <1> QED
    BY <1>1, <1>3

\* One admission more takes a token, a later end adds the refill.
LEMMA LeftMoves ==
  ASSUME NEW n \in Nat, NEW s \in Nat, NEW e \in Nat, NEW later \in Nat
  PROVE  /\ Left(n, s, e) \in Int
         /\ Left(n + 1, s, e) = Left(n, s, e) - Token
         /\ Left(n, s, later) = Left(n, s, e) + (later - e) * refill_per_ms
         /\ (later - e) * refill_per_ms \in Int
         /\ later >= e => (later - e) * refill_per_ms >= 0
  <1> DEFINE r == refill_per_ms
             k == Token
             c == capacity
  <1>1. r \in Nat /\ k \in Nat /\ c \in Nat
    BY Rates
  <1>2. /\ Left(n, s, e) = c + r * (e - s) - n * k
        /\ Left(n + 1, s, e) = c + r * (e - s) - (n + 1) * k
        /\ Left(n, s, later) = c + r * (later - s) - n * k
    BY DEF Left
  <1> HIDE DEF r, k, c
  <1>3. (n + 1) * k = n * k + k /\ n * k \in Int /\ r * (e - s) \in Int
    BY <1>1
  <1>4. r * (later - s) = r * (e - s) + (later - e) * r /\ (later - e) * r \in Int
    BY <1>1
  <1>5. later >= e => (later - e) * r >= 0
    BY <1>1
  <1>6. /\ Left(n, s, e) \in Int
        /\ Left(n + 1, s, e) = Left(n, s, e) - k
        /\ Left(n, s, later) = Left(n, s, e) + (later - e) * r
    BY <1>1, <1>2, <1>3, <1>4
  <1> QED
    BY <1>4, <1>5, <1>6 DEF r, k

-----------------------------------------------------------------------------
(* What a bucket holds *)

\* The tokens of a bucket that admitted at the times of log, on its own time at.
Fits(tokens, log, at) ==
  /\ \A i \in 1..Len(log) : tokens <= Left(Len(log) - i + 1, log[i], at)
  /\ \/ tokens = capacity
     \/ \E i \in 1..Len(log) : tokens = Left(Len(log) - i + 1, log[i], at)

Bounded(log) ==
  \A j \in 1..Len(log) : \A i \in 1..j : Left(j - i + 1, log[i], log[j]) >= 0

LEMMA LogsNat ==
  ASSUME NEW log \in Seq(Nat)
  PROVE  /\ Len(log) \in Nat /\ DOMAIN log = 1..Len(log)
         /\ \A i \in 1..Len(log) : log[i] \in Nat /\ Len(log) - i + 1 \in Nat
  OBVIOUS

\* The refill up to a later time, cut off at the capacity.
LEMMA RefillFits ==
  ASSUME NEW log \in Seq(Nat), NEW at \in Nat, NEW later \in Nat, at <= later,
         NEW tokens \in 0..capacity, Fits(tokens, log, at),
         NEW full, full = AtMost(tokens + (later - at) * refill_per_ms, capacity)
  PROVE  full \in 0..capacity /\ Fits(full, log, later)
  <1> DEFINE d == (later - at) * refill_per_ms
  <1>1. d \in Nat /\ capacity \in Nat /\ tokens \in Nat /\ tokens <= capacity
    BY Rates, LeftMoves
  <1>2. ASSUME NEW i \in 1..Len(log)
        PROVE  /\ Left(Len(log) - i + 1, log[i], at) \in Int
               /\ Left(Len(log) - i + 1, log[i], later)
                    = Left(Len(log) - i + 1, log[i], at) + d
    <2>1. log[i] \in Nat /\ Len(log) - i + 1 \in Nat
      BY LogsNat
    <2> HIDE DEF d
    <2>2. ASSUME NEW m \in Nat, NEW x \in Nat
          PROVE  Left(m, x, at) \in Int /\ Left(m, x, later) = Left(m, x, at) + d
      <3>1. /\ Left(m, x, at) \in Int
            /\ Left(m, x, later) = Left(m, x, at) + (later - at) * refill_per_ms
        BY LeftMoves, ZenonT(30)
      <3> QED
        BY <3>1, Zenon DEF d
    <2> QED
      BY <2>1, <2>2, Zenon
  <1> HIDE DEF d
  <1>3. /\ full \in 0..capacity /\ full <= tokens + d
        /\ full = capacity \/ full = tokens + d
        /\ tokens = capacity => full = capacity
    BY <1>1 DEF AtMost, d
  <1>4. ASSUME NEW i \in 1..Len(log)
        PROVE  full <= Left(Len(log) - i + 1, log[i], later)
    <2> DEFINE l == Left(Len(log) - i + 1, log[i], at)
    <2>1. l \in Int /\ Left(Len(log) - i + 1, log[i], later) = l + d
      BY <1>2
    <2>2. tokens <= l
      BY DEF Fits
    <2> HIDE DEF l
    <2> QED
      BY <1>1, <1>3, <2>1, <2>2
  <1>5. full = capacity \/ \E i \in 1..Len(log) : full = Left(Len(log) - i + 1, log[i], later)
    BY <1>1, <1>2, <1>3 DEF Fits
  <1> QED
    BY <1>3, <1>4, <1>5 DEF Fits

\* A request that is admitted.
LEMMA AdmitFits ==
  ASSUME NEW log \in Seq(Nat), NEW at \in Nat, NEW tokens \in 0..capacity,
         Fits(tokens, log, at), Bounded(log), tokens >= Token,
         NEW more, more = Append(log, at)
  PROVE  /\ more \in Seq(Nat)
         /\ tokens - Token \in 0..capacity
         /\ Fits(tokens - Token, more, at)
         /\ Bounded(more)
  <1> DEFINE n == Len(log)
  <1>1. /\ n \in Nat /\ more \in Seq(Nat) /\ Len(more) = n + 1
        /\ \A i \in 1..n : more[i] = log[i] /\ log[i] \in Nat
        /\ more[n + 1] = at
    OBVIOUS
  <1>2. /\ Token \in Nat \ {0} /\ capacity \in Nat /\ capacity >= Token
        /\ tokens \in Nat /\ tokens <= capacity
    BY Rates
  <1>3. /\ \A i \in 1..n : tokens <= Left(n - i + 1, log[i], at)
        /\ \/ tokens = capacity
           \/ \E i \in 1..n : tokens = Left(n - i + 1, log[i], at)
    BY DEF Fits
  <1> HIDE DEF n
  <1>4. ASSUME NEW i \in 1..n
        PROVE  /\ Left(n - i + 1, log[i], at) \in Int
               /\ Left((n + 1) - i + 1, more[i], at) = Left(n - i + 1, log[i], at) - Token
    <2>1. n - i + 1 \in Nat /\ (n + 1) - i + 1 = (n - i + 1) + 1
      BY <1>1
    <2>2. log[i] \in Nat /\ more[i] = log[i]
      BY <1>1
    <2>3. /\ Left(n - i + 1, log[i], at) \in Int
          /\ Left((n - i + 1) + 1, log[i], at) = Left(n - i + 1, log[i], at) - Token
      BY <2>1, <2>2, LeftMoves, Zenon
    <2> QED
      BY <2>1, <2>2, <2>3, Zenon
  <1>5. Left((n + 1) - (n + 1) + 1, more[n + 1], at) = capacity - Token
    <2>1. (n + 1) - (n + 1) + 1 = 1 /\ more[n + 1] = at
      BY <1>1
    <2>2. Left(1, at, at) = capacity - Token
      BY Rates DEF Left
    <2> QED
      BY <2>1, <2>2
  <1>6. Fits(tokens - Token, more, at)
    <2>1. \A i \in 1..(n + 1) : tokens - Token <= Left((n + 1) - i + 1, more[i], at)
      <3> SUFFICES ASSUME NEW i \in 1..(n + 1)
                   PROVE  tokens - Token <= Left((n + 1) - i + 1, more[i], at)
        OBVIOUS
      <3>1. CASE i \in 1..n
        <4> DEFINE l == Left(n - i + 1, log[i], at)
        <4>1. l \in Int /\ tokens <= l /\ Left((n + 1) - i + 1, more[i], at) = l - Token
          BY <1>3, <1>4, <3>1, Zenon
        <4>2. tokens - Token <= l - Token
          BY <1>2, <4>1, Differences
        <4> QED
          BY <4>1, <4>2, Zenon
      <3>2. CASE i = n + 1
        <4>1. Left((n + 1) - i + 1, more[i], at) = capacity - Token
          BY <1>5, <3>2, Zenon
        <4>2. tokens - Token <= capacity - Token
          BY <1>2, Differences
        <4> QED
          BY <4>1, <4>2, Zenon
      <3>3. i \in 1..n \/ i = n + 1
        BY <1>1
      <3> QED
        BY <3>1, <3>2, <3>3
    <2>2. \E i \in 1..(n + 1) : tokens - Token = Left((n + 1) - i + 1, more[i], at)
      <3>1. CASE tokens = capacity
        <4>1. n + 1 \in 1..(n + 1)
          BY <1>1
        <4> QED
          BY <1>5, <3>1, <4>1, Zenon
      <3>2. CASE \E i \in 1..n : tokens = Left(n - i + 1, log[i], at)
        <4>1. PICK i \in 1..n : tokens = Left(n - i + 1, log[i], at)
          BY <3>2
        <4>2. tokens - Token = Left((n + 1) - i + 1, more[i], at)
          BY <1>4, <4>1, Zenon
        <4>3. i \in 1..(n + 1)
          BY <1>1
        <4> QED
          BY <4>2, <4>3, Zenon
      <3> QED
        BY <1>3, <3>1, <3>2
    <2> QED
      BY <1>1, <2>1, <2>2 DEF Fits
  <1>7. Bounded(more)
    <2> SUFFICES ASSUME NEW j \in 1..(n + 1), NEW i \in 1..j
                 PROVE  Left(j - i + 1, more[i], more[j]) >= 0
      BY <1>1 DEF Bounded
    <2>1. CASE j \in 1..n
      <3>1. i \in 1..n
        BY <1>1, <2>1
      <3>2. Left(j - i + 1, log[i], log[j]) >= 0
        BY <2>1 DEF Bounded, n
      <3>3. more[i] = log[i] /\ more[j] = log[j]
        BY <1>1, <2>1, <3>1
      <3> QED
        BY <3>2, <3>3, Zenon
    <2>2. CASE j = n + 1
      <3> DEFINE l == Left((n + 1) - i + 1, more[i], at)
      <3>1. i \in 1..(n + 1)
        BY <2>2
      <3>2. l \in Int
        <4>1. CASE i \in 1..n
          <5>1. Left(n - i + 1, log[i], at) - Token \in Int
            BY <1>2, <1>4, <4>1
          <5> QED
            BY <1>4, <4>1, <5>1, Zenon
        <4>2. CASE i = n + 1
          <5>1. capacity - Token \in Int
            BY <1>2
          <5> QED
            BY <1>5, <4>2, <5>1, Zenon
        <4> QED
          BY <1>1, <3>1, <4>1, <4>2
      <3>3. tokens - Token <= l
        BY <1>1, <1>6, <3>1 DEF Fits
      <3>4. Left(j - i + 1, more[i], more[j]) = l
        BY <1>1, <2>2, Zenon
      <3> HIDE DEF l
      <3>5. l >= 0
        BY <1>2, <3>2, <3>3, Differences
      <3> QED
        BY <3>4, <3>5, Zenon
    <2>3. j \in 1..n \/ j = n + 1
      BY <1>1
    <2> QED
      BY <2>1, <2>2, <2>3
  <1> QED
    BY <1>1, <1>2, <1>6, <1>7

-----------------------------------------------------------------------------
(* The invariant *)

\* Bucket by bucket, what TokensExact and AdmittedBound say.
BucketsFit ==
  \A ip \in Addresses : buckets[ip] # None =>
    Fits(buckets[ip].tokens, admitted[ip], buckets[ip].last_refill)
LogsBounded == \A ip \in Addresses : Bounded(admitted[ip])

\* A reading is MaxPause old at most; while nobody set the wall clock the two clocks
\* agree, a bucket was seen no longer than a pause before its latest refill, and
\* the cutoff lies EvictAfter back.
ClockInv ==
  /\ \A r \in Handlers : reading[r] # None =>
       /\ reading[r].now <= now /\ now <= reading[r].now + MaxPause
       /\ ~stepped => reading[r].now_ms = reading[r].now
  /\ \A ip \in Addresses : buckets[ip] # None =>
       /\ buckets[ip].last_refill <= now
       /\ ~stepped => buckets[ip].last_refill <= buckets[ip].last_seen_ms + MaxPause
  /\ ~stepped => unix_ms = now /\ evict.cutoff <= AtLeast(now - EvictAfter, 0)

RInv == RateTypeOK /\ BucketsFit /\ LogsBounded /\ ClockInv

\* What Check makes of the bucket of its address and of its log.
LEMMA CheckedBucket ==
  ASSUME NEW found \in Bucket, NEW log \in Seq(Nat), NEW at \in Nat, NEW at_ms \in Nat,
         Fits(found.tokens, log, found.last_refill), Bounded(log),
         NEW b, b = Seen(Refilled(found, at), at_ms)
  PROVE  /\ b \in Bucket
         /\ Fits(b.tokens, log, b.last_refill)
         /\ b.last_seen_ms = at_ms
         /\ b.last_refill \in {found.last_refill, at}
         /\ Enough(b) =>
              LET c == [b EXCEPT !.tokens = @ - Token]
                  more == Append(log, b.last_refill)
              IN /\ c \in Bucket /\ more \in Seq(Nat)
                 /\ Fits(c.tokens, more, c.last_refill)
                 /\ Bounded(more)
                 /\ c.last_seen_ms = b.last_seen_ms /\ c.last_refill = b.last_refill
  <1>1. /\ found.tokens \in 0..capacity /\ found.last_refill \in Nat
        /\ found = [tokens |-> found.tokens, last_refill |-> found.last_refill,
                    last_seen_ms |-> found.last_seen_ms]
    BY DEF Bucket
  <1>2. PICK x \in 0..capacity, y \in {found.last_refill, at} :
          /\ b = [tokens |-> x, last_refill |-> y, last_seen_ms |-> at_ms]
          /\ Fits(x, log, y)
    <2>1. CASE at > found.last_refill
      <3> DEFINE full == AtMost(found.tokens + (at - found.last_refill) * refill_per_ms,
                                capacity)
      <3>1. b = [tokens |-> full, last_refill |-> at, last_seen_ms |-> at_ms]
        BY <1>1, <2>1 DEF Seen, Refilled
      <3>2. found.last_refill <= at
        BY <1>1, <2>1
      <3>3. full \in 0..capacity /\ Fits(full, log, at)
        BY <1>1, <3>2, RefillFits
      <3> QED
        BY <3>1, <3>3, Zenon
    <2>2. CASE ~(at > found.last_refill)
      <3>1. b = [tokens |-> found.tokens, last_refill |-> found.last_refill,
                 last_seen_ms |-> at_ms]
        BY <1>1, <2>2 DEF Seen, Refilled
      <3> QED
        BY <1>1, <3>1, Zenon
    <2> QED
      BY <2>1, <2>2
  <1>3. y \in Nat
    BY <1>1
  <1>4. b \in Bucket /\ b.tokens = x /\ b.last_refill = y /\ b.last_seen_ms = at_ms
    BY <1>2, <1>3 DEF Bucket
  <1>5. ASSUME Enough(b)
        PROVE  LET c == [b EXCEPT !.tokens = @ - Token]
                   more == Append(log, b.last_refill)
               IN /\ c \in Bucket /\ more \in Seq(Nat)
                  /\ Fits(c.tokens, more, c.last_refill)
                  /\ Bounded(more)
                  /\ c.last_seen_ms = b.last_seen_ms /\ c.last_refill = b.last_refill
    <2> DEFINE c == [b EXCEPT !.tokens = @ - Token]
               more == Append(log, y)
    <2>1. x >= Token
      BY <1>4, <1>5 DEF Enough
    <2>2. /\ more \in Seq(Nat) /\ x - Token \in 0..capacity
          /\ Fits(x - Token, more, y) /\ Bounded(more)
      BY <1>2, <1>3, <2>1, AdmitFits
    <2>3. c = [tokens |-> x - Token, last_refill |-> y, last_seen_ms |-> at_ms]
      BY <1>2
    <2>4. c \in Bucket /\ c.tokens = x - Token /\ c.last_refill = y /\ c.last_seen_ms = at_ms
      BY <1>3, <2>2, <2>3 DEF Bucket
    <2> QED
      BY <1>4, <2>2, <2>4, Zenon
  <1> QED
    BY <1>2, <1>4, <1>5, Zenon

\* A new bucket is full and has admitted nothing.
LEMMA NewBucketFits ==
  ASSUME NEW at \in Nat, NEW at_ms \in Nat
  PROVE  /\ NewBucket(at, at_ms) \in Bucket
         /\ NewBucket(at, at_ms).last_refill = at
         /\ Fits(NewBucket(at, at_ms).tokens, <<>>, at)
         /\ Bounded(<<>>)
  BY Rates DEF NewBucket, Bucket, Fits, Bounded

LEMMA InitInv == Init => RInv
  <1> SUFFICES ASSUME Init PROVE RInv
    OBVIOUS
  <1>1. RateTypeOK
    <2>1. now \in Nat /\ unix_ms \in Nat /\ checks \in Nat /\ EvictEvery \in Nat /\ 0 \in Nat
      BY RateAssumption DEF Init
    <2>2. evict \in [tick : Nat, cutoff : Nat, left : SUBSET Addresses, stopped : BOOLEAN]
      BY <2>1, Zenon DEF Init
    <2>3. /\ reading \in [Handlers -> Reading \cup {None}]
          /\ buckets \in [Addresses -> Bucket \cup {None}]
      BY Zenon DEF Init
    <2>4. admitted \in [Addresses -> Seq(Nat)]
      <3>1. <<>> \in Seq(Nat)
        OBVIOUS
      <3> QED
        BY <3>1, Zenon DEF Init
    <2>5. stepped \in BOOLEAN
      BY Zenon DEF Init
    <2> QED
      BY <2>1, <2>2, <2>3, <2>4, <2>5, Zenon DEF RateTypeOK
  <1>2. BucketsFit /\ LogsBounded
    BY DEF Init, BucketsFit, LogsBounded, Bounded
  <1>3. ClockInv
    BY RateAssumption DEF Init, ClockInv, AtLeast
  <1> QED
    BY <1>1, <1>2, <1>3 DEF RInv

\* A step that leaves buckets and logs alone.
LEMMA SameBuckets ==
  ASSUME RInv, UNCHANGED <<buckets, admitted>>
  PROVE  BucketsFit' /\ LogsBounded'
  BY DEF RInv, BucketsFit, LogsBounded

LEMMA ReadClocksInv ==
  ASSUME RInv, NEW r \in Handlers, ReadClocks(r)
  PROVE  RInv'
  <1>1. PICK req \in Shapes :
          /\ Limited(req)
          /\ reading' = [reading EXCEPT ![r] =
               [ip |-> extract_client_ip(req), now |-> now, now_ms |-> unix_ms]]
    BY DEF ReadClocks
  <1> DEFINE c == [ip |-> extract_client_ip(req), now |-> now, now_ms |-> unix_ms]
  <1>2. extract_client_ip(req) \in Addresses
    BY <1>1, RateAssumption DEF Limited, extract_client_ip
  <1>3. RateTypeOK /\ c \in Reading /\ c.now = now /\ c.now_ms = unix_ms
    BY <1>2 DEF RInv, RateTypeOK, Reading
  <1>4. UNCHANGED <<now, unix_ms, buckets, evict, admitted, stepped>> /\ checks' = checks + 1
    BY DEF ReadClocks
  <1>5. reading' = [reading EXCEPT ![r] = c]
    BY <1>1
  <1> HIDE DEF c
  <1>6. RateTypeOK'
    BY <1>3, <1>4, <1>5 DEF RateTypeOK
  <1>7. ClockInv'
    <2>1. ClockInv
      BY DEF RInv
    <2>2. ASSUME NEW q \in Handlers, reading'[q] # None
          PROVE  /\ reading'[q].now <= now' /\ now' <= reading'[q].now + MaxPause
                 /\ ~stepped' => reading'[q].now_ms = reading'[q].now
      <3>1. CASE q = r
        BY <1>3, <1>4, <1>5, <2>1, <3>1, RateAssumption DEF RateTypeOK, ClockInv
      <3>2. CASE q # r
        BY <1>3, <1>4, <1>5, <2>1, <2>2, <3>2 DEF RateTypeOK, ClockInv
      <3> QED
        BY <3>1, <3>2
    <2> QED
      BY <1>4, <2>1, <2>2 DEF ClockInv
  <1> QED
    BY <1>4, <1>6, <1>7, SameBuckets DEF RInv

LEMMA CheckInv ==
  ASSUME RInv, NEW r \in Handlers, Check(r)
  PROVE  /\ RInv'
         /\ \A ip \in Addresses : buckets[ip] # None => buckets'[ip] # None
  <1> DEFINE c == reading[r]
             new == buckets[c.ip] = None
             found == IF new THEN NewBucket(c.now, c.now_ms) ELSE buckets[c.ip]
             log == IF new THEN <<>> ELSE admitted[c.ip]
             b == Seen(Refilled(found, c.now), c.now_ms)
  <1>0. RateTypeOK /\ BucketsFit /\ LogsBounded /\ ClockInv
    BY DEF RInv
  <1>1. c # None /\ c.ip \in Addresses /\ c.now \in Nat /\ c.now_ms \in Nat
    BY <1>0 DEF Check, RateTypeOK, Reading
  <1>2. /\ c.now <= now /\ now <= c.now + MaxPause
        /\ ~stepped => c.now_ms = c.now
    BY <1>0, <1>1 DEF ClockInv
  <1>3. /\ found \in Bucket /\ log \in Seq(Nat) /\ Bounded(log)
        /\ Fits(found.tokens, log, found.last_refill)
        /\ found.last_refill <= now
    <2>1. CASE new
      BY <1>1, <1>2, <2>1, NewBucketFits
    <2>2. CASE ~new
      BY <1>0, <1>1, <2>2 DEF RateTypeOK, BucketsFit, LogsBounded, ClockInv
    <2> QED
      BY <2>1, <2>2
  <1>4. \E nb \in Bucket, nl \in Seq(Nat) :
          /\ buckets' = [buckets EXCEPT ![c.ip] = nb]
          /\ admitted' = [admitted EXCEPT ![c.ip] = nl]
          /\ Fits(nb.tokens, nl, nb.last_refill) /\ Bounded(nl)
          /\ nb.last_seen_ms = c.now_ms /\ nb.last_refill \in {found.last_refill, c.now}
    <2> HIDE DEF found, log, new, c
    <2>1. /\ b \in Bucket /\ Fits(b.tokens, log, b.last_refill)
          /\ b.last_seen_ms = c.now_ms
          /\ b.last_refill \in {found.last_refill, c.now}
          /\ Enough(b) =>
               LET d == [b EXCEPT !.tokens = @ - Token]
                   more == Append(log, b.last_refill)
               IN /\ d \in Bucket /\ more \in Seq(Nat)
                  /\ Fits(d.tokens, more, d.last_refill)
                  /\ Bounded(more)
                  /\ d.last_seen_ms = b.last_seen_ms /\ d.last_refill = b.last_refill
      BY <1>1, <1>3, CheckedBucket
    <2>2. IF Enough(b)
          THEN /\ buckets' = [buckets EXCEPT ![c.ip] = [b EXCEPT !.tokens = @ - Token]]
               /\ admitted' = [admitted EXCEPT ![c.ip] = Append(log, b.last_refill)]
          ELSE /\ buckets' = [buckets EXCEPT ![c.ip] = b]
               /\ admitted' = [admitted EXCEPT ![c.ip] = log]
      BY Zenon DEF Check, found, log, new, c
    <2> HIDE DEF b
    <2>3. CASE Enough(b)
      BY <2>1, <2>2, <2>3, Zenon
    <2>4. CASE ~Enough(b)
      BY <1>3, <2>1, <2>2, <2>4, Zenon
    <2> QED
      BY <2>3, <2>4
  <1>5. PICK nb \in Bucket, nl \in Seq(Nat) :
          /\ buckets' = [buckets EXCEPT ![c.ip] = nb]
          /\ admitted' = [admitted EXCEPT ![c.ip] = nl]
          /\ Fits(nb.tokens, nl, nb.last_refill) /\ Bounded(nl)
          /\ nb.last_seen_ms = c.now_ms /\ nb.last_refill \in {found.last_refill, c.now}
    BY <1>4
  <1>6. /\ nb.last_refill \in Nat /\ nb.last_refill <= now
        /\ ~stepped => nb.last_refill <= nb.last_seen_ms + MaxPause
    <2>1. nb.last_refill <= now /\ nb.last_refill \in Nat
      BY <1>2, <1>3, <1>5 DEF Bucket
    <2> HIDE DEF found, c
    <2>2. now \in Nat /\ MaxPause \in Nat
      BY <1>0, RateAssumption DEF RateTypeOK
    <2>3. ~stepped => now <= nb.last_seen_ms + MaxPause /\ nb.last_seen_ms \in Nat
      BY <1>1, <1>2, <1>5
    <2> QED
      BY <2>1, <2>2, <2>3
  <1>7. /\ UNCHANGED <<now, unix_ms, evict, stepped, checks>>
        /\ reading' = [reading EXCEPT ![r] = None]
    BY DEF Check
  <1> HIDE DEF c, found, log, new, b
  <1>8. RateTypeOK'
    BY <1>0, <1>1, <1>5, <1>7 DEF RateTypeOK
  <1>9. BucketsFit' /\ LogsBounded'
    <2>1. ASSUME NEW ip \in Addresses
          PROVE  /\ Bounded(admitted'[ip])
                 /\ buckets'[ip] # None =>
                      Fits(buckets'[ip].tokens, admitted'[ip], buckets'[ip].last_refill)
      <3>1. CASE ip = c.ip
        BY <1>0, <1>5, <3>1 DEF RateTypeOK
      <3>2. CASE ip # c.ip
        BY <1>0, <1>5, <3>2 DEF RateTypeOK, BucketsFit, LogsBounded
      <3> QED
        BY <3>1, <3>2
    <2> QED
      BY <2>1 DEF BucketsFit, LogsBounded
  <1>10. ClockInv'
    <2>1. ASSUME NEW ip \in Addresses, buckets'[ip] # None
          PROVE  /\ buckets'[ip].last_refill <= now
                 /\ ~stepped =>
                      buckets'[ip].last_refill <= buckets'[ip].last_seen_ms + MaxPause
      <3>1. CASE ip = c.ip
        BY <1>0, <1>5, <1>6, <3>1 DEF RateTypeOK
      <3>2. CASE ip # c.ip
        BY <1>0, <1>5, <2>1, <3>2 DEF RateTypeOK, ClockInv
      <3> QED
        BY <3>1, <3>2
    <2>2. ASSUME NEW q \in Handlers, reading'[q] # None
          PROVE  reading'[q] = reading[q] /\ reading[q] # None
      BY <1>0, <1>7, <2>2 DEF RateTypeOK
    <2> QED
      BY <1>0, <1>7, <2>1, <2>2 DEF ClockInv
  <1>11. \A ip \in Addresses : buckets[ip] # None => buckets'[ip] # None
    BY <1>0, <1>5, NoneAssumption DEF RateTypeOK
  <1> QED
    BY <1>8, <1>9, <1>10, <1>11 DEF RInv

LEMMA EvictBeginsInv ==
  ASSUME RInv, EvictBegins
  PROVE  RInv'
  <1> DEFINE cut == AtLeast(unix_ms - EvictAfter, 0)
  <1>1. RateTypeOK /\ ClockInv
    BY DEF RInv
  <1>2. /\ evict' = [evict EXCEPT !.tick = now + EvictEvery, !.cutoff = cut, !.left = Addresses]
        /\ UNCHANGED <<now, unix_ms, reading, buckets, admitted, stepped, checks>>
    BY DEF EvictBegins
  <1>3. now + EvictEvery \in Nat /\ cut \in Nat
    BY <1>1, RateAssumption DEF RateTypeOK, AtLeast
  <1> HIDE DEF cut
  <1>4. evict' = [tick |-> now + EvictEvery, cutoff |-> cut, left |-> Addresses,
                  stopped |-> evict.stopped]
    BY <1>1, <1>2 DEF RateTypeOK
  <1>5. /\ evict' \in [tick : Nat, cutoff : Nat, left : SUBSET Addresses, stopped : BOOLEAN]
        /\ evict'.cutoff = cut
    BY <1>1, <1>3, <1>4, Zenon DEF RateTypeOK
  <1>6. RateTypeOK'
    BY <1>1, <1>2, <1>5 DEF RateTypeOK
  <1>7. ClockInv'
    <2>1. ~stepped => cut <= AtLeast(now - EvictAfter, 0)
      BY <1>1, RateAssumption DEF RateTypeOK, ClockInv, AtLeast, cut
    <2> QED
      BY <1>1, <1>2, <1>5, <2>1 DEF ClockInv
  <1> QED
    BY <1>2, <1>6, <1>7, SameBuckets DEF RInv

LEMMA EvictStopsInv ==
  ASSUME RInv, EvictStops
  PROVE  RInv'
  <1>1. RateTypeOK /\ ClockInv
    BY DEF RInv
  <1>2. /\ evict' = [evict EXCEPT !.stopped = TRUE]
        /\ UNCHANGED <<now, unix_ms, reading, buckets, admitted, stepped, checks>>
    BY DEF EvictStops
  <1>3. /\ evict' \in [tick : Nat, cutoff : Nat, left : SUBSET Addresses, stopped : BOOLEAN]
        /\ evict'.cutoff = evict.cutoff
    BY <1>1, <1>2, Zenon DEF RateTypeOK
  <1>4. RateTypeOK'
    BY <1>1, <1>2, <1>3 DEF RateTypeOK
  <1>5. ClockInv'
    BY <1>1, <1>2, <1>3 DEF ClockInv
  <1> QED
    BY <1>2, <1>4, <1>5, SameBuckets DEF RInv

\* Eviction leaves a bucket as it is or takes it away.
LEMMA EvictLooksInv ==
  ASSUME RInv, NEW ip \in Addresses, EvictLooks(ip)
  PROVE  RInv'
  <1>1. RateTypeOK /\ BucketsFit /\ LogsBounded /\ ClockInv
    BY DEF RInv
  <1>2. /\ evict' = [evict EXCEPT !.left = @ \ {ip}]
        /\ UNCHANGED <<now, unix_ms, reading, admitted, stepped, checks>>
    BY DEF EvictLooks
  <1>3. /\ evict' \in [tick : Nat, cutoff : Nat, left : SUBSET Addresses, stopped : BOOLEAN]
        /\ evict'.cutoff = evict.cutoff
    BY <1>1, <1>2, Zenon DEF RateTypeOK
  <1>4. /\ buckets' \in [Addresses -> Bucket \cup {None}]
        /\ \A a \in Addresses : buckets'[a] # None => buckets'[a] = buckets[a]
    BY <1>1 DEF EvictLooks, RateTypeOK
  <1>5. RateTypeOK'
    BY <1>1, <1>2, <1>3, <1>4 DEF RateTypeOK
  <1>6. BucketsFit' /\ LogsBounded'
    BY <1>1, <1>2, <1>4 DEF BucketsFit, LogsBounded
  <1>7. ClockInv'
    <2>1. ASSUME NEW a \in Addresses, buckets'[a] # None
          PROVE  /\ buckets'[a].last_refill <= now
                 /\ ~stepped =>
                      buckets'[a].last_refill <= buckets'[a].last_seen_ms + MaxPause
      BY <1>1, <1>4, <2>1 DEF ClockInv
    <2> QED
      BY <1>1, <1>2, <1>3, <2>1 DEF ClockInv
  <1> QED
    BY <1>5, <1>6, <1>7 DEF RInv

LEMMA TickInv ==
  ASSUME RInv, Tick
  PROVE  RInv'
  <1>1. RateTypeOK /\ ClockInv
    BY DEF RInv
  <1>2. /\ now' = now + 1 /\ unix_ms' = unix_ms + 1
        /\ \A r \in Handlers : reading[r] # None => now < reading[r].now + MaxPause
        /\ UNCHANGED <<reading, buckets, evict, admitted, stepped, checks>>
    BY DEF Tick
  <1>3. RateTypeOK'
    BY <1>1, <1>2 DEF RateTypeOK
  <1>4. ASSUME NEW r \in Handlers, reading[r] # None
        PROVE  /\ reading[r].now <= now + 1 /\ now + 1 <= reading[r].now + MaxPause
               /\ ~stepped => reading[r].now_ms = reading[r].now
    <2>1. reading[r].now \in Nat /\ now \in Nat /\ MaxPause \in Nat
      BY <1>1, <1>4, RateAssumption DEF RateTypeOK, Reading
    <2>2. /\ reading[r].now <= now /\ now < reading[r].now + MaxPause
          /\ ~stepped => reading[r].now_ms = reading[r].now
      BY <1>1, <1>2, <1>4 DEF ClockInv
    <2> QED
      BY <2>1, <2>2
  <1>5. ASSUME NEW ip \in Addresses, buckets[ip] # None
        PROVE  /\ buckets[ip].last_refill <= now + 1
               /\ ~stepped => buckets[ip].last_refill <= buckets[ip].last_seen_ms + MaxPause
    <2>1. buckets[ip].last_refill \in Nat /\ now \in Nat
      BY <1>1, <1>5 DEF RateTypeOK, Bucket
    <2>2. /\ buckets[ip].last_refill <= now
          /\ ~stepped => buckets[ip].last_refill <= buckets[ip].last_seen_ms + MaxPause
      BY <1>1, <1>5 DEF ClockInv
    <2> QED
      BY <2>1, <2>2
  <1>6. ~stepped => /\ unix_ms + 1 = now + 1
                    /\ evict.cutoff <= AtLeast((now + 1) - EvictAfter, 0)
    BY <1>1, RateAssumption DEF RateTypeOK, ClockInv, AtLeast
  <1>7. ClockInv'
    BY <1>2, <1>4, <1>5, <1>6 DEF ClockInv
  <1> QED
    BY <1>2, <1>3, <1>7, SameBuckets DEF RInv

LEMMA StepClockInv ==
  ASSUME RInv, StepClock
  PROVE  RInv'
  <1>1. RateTypeOK /\ ClockInv
    BY DEF RInv
  <1>2. stepped' = TRUE /\ unix_ms' \in Nat
    BY RateAssumption DEF StepClock
  <1>3. UNCHANGED <<now, reading, buckets, evict, admitted, checks>>
    BY DEF StepClock
  <1>4. RateTypeOK'
    BY <1>1, <1>2, <1>3 DEF RateTypeOK
  <1>5. ClockInv'
    BY <1>1, <1>2, <1>3 DEF ClockInv
  <1> QED
    BY <1>3, <1>4, <1>5, SameBuckets DEF RInv

LEMMA NextInv == RInv /\ [Next]_vars => RInv'
  <1> SUFFICES ASSUME RInv, [Next]_vars PROVE RInv'
    OBVIOUS
  <1>1. CASE \E r \in Handlers : ReadClocks(r)
    BY <1>1, ReadClocksInv
  <1>2. CASE \E r \in Handlers : Check(r)
    BY <1>2, CheckInv
  <1>3. CASE EvictBegins
    BY <1>3, EvictBeginsInv
  <1>4. CASE EvictStops
    BY <1>4, EvictStopsInv
  <1>5. CASE \E ip \in Addresses : EvictLooks(ip)
    BY <1>5, EvictLooksInv
  <1>6. CASE Tick
    BY <1>6, TickInv
  <1>7. CASE StepClock
    BY <1>7, StepClockInv
  <1>8. CASE UNCHANGED vars
    <2>1. UNCHANGED <<buckets, admitted>> /\ RateTypeOK /\ ClockInv
      BY <1>8 DEF vars, RInv
    <2>2. RateTypeOK'
      BY <1>8, <2>1 DEF vars, RateTypeOK
    <2>3. ClockInv'
      BY <1>8, <2>1 DEF vars, ClockInv
    <2> QED
      BY <2>1, <2>2, <2>3, SameBuckets DEF RInv
  <1> QED
    BY <1>1, <1>2, <1>3, <1>4, <1>5, <1>6, <1>7, <1>8, Zenon DEF Next

LEMMA RateInvariant == Spec => []RInv
  BY InitInv, NextInv, PTL DEF Spec

-----------------------------------------------------------------------------
(* The theorems *)

\* The limiter's state has its type: a bucket never holds less than nothing nor
\* more than a burst (TokenBucket).
THEOREM RateTypes == Spec => []RateTypeOK
  <1>1. RInv => RateTypeOK
    BY DEF RInv
  <1> QED
    BY <1>1, RateInvariant, PTL

\* Whatever order requests reach their bucket in, it holds what its tightest
\* stretch of admissions leaves (try_consume).
THEOREM BucketsExact == Spec => []TokensExact
  <1>1. ASSUME RInv PROVE TokensExact
    <2>1. BucketsFit
      BY <1>1 DEF RInv
    <2> QED
      BY <2>1, Zenon DEF BucketsFit, Fits, TokensExact
  <1> QED
    BY <1>1, RateInvariant, PTL

\* No stretch of a bucket's time sees more requests admitted than a burst and the
\* refill of the stretch, for every rate and burst (RateLimiter::new, check).
THEOREM AdmissionBound == Spec => []AdmittedBound
  <1>1. ASSUME RInv PROVE AdmittedBound
    <2>1. LogsBounded /\ RateTypeOK
      BY <1>1 DEF RInv
    <2>2. ASSUME NEW ip \in Addresses
          PROVE  DOMAIN admitted[ip] = 1..Len(admitted[ip])
      BY <2>1, LogsNat DEF RateTypeOK
    <2> QED
      BY <2>1, <2>2, Zenon DEF LogsBounded, Bounded, AdmittedBound
  <1> QED
    BY <1>1, RateInvariant, PTL

\* An evicted bucket was full, as far as the wall clock ran with the other one and
\* buckets fill in time (evict_stale).
THEOREM EvictionIsFair == Spec => EvictedWhenFull
  <1> DEFINE Full(ip) ==
        buckets[ip].tokens + refill_per_ms * (now - buckets[ip].last_refill) >= capacity
  <1>1. ASSUME RInv, [Next]_vars, NEW ip \in Addresses, buckets[ip] # None,
               buckets'[ip] = None, ~stepped, FillsInTime
        PROVE  Full(ip)
    <2>1. RateTypeOK /\ ClockInv
      BY <1>1 DEF RInv
    <2> DEFINE bucket == buckets[ip]
    <2>2. EvictLooks(ip)
      <3>1. CASE \E r \in Handlers : ReadClocks(r)
        BY <1>1, <3>1 DEF ReadClocks
      <3>2. CASE \E r \in Handlers : Check(r)
        BY <1>1, <3>2, CheckInv
      <3>3. CASE EvictBegins \/ EvictStops \/ Tick \/ StepClock \/ UNCHANGED vars
        BY <1>1, <3>3 DEF EvictBegins, EvictStops, Tick, StepClock, vars
      <3>4. CASE \E a \in Addresses : EvictLooks(a)
        <4>1. PICK a \in Addresses : EvictLooks(a)
          BY <3>4
        <4>2. a = ip
          BY <1>1, <2>1, <4>1 DEF EvictLooks, RateTypeOK
        <4> QED
          BY <4>1, <4>2
      <3> QED
        BY <1>1, <3>1, <3>2, <3>3, <3>4, Zenon DEF Next
    <2>3. bucket.last_seen_ms < evict.cutoff
      BY <1>1, <2>2 DEF EvictLooks
    <2>4. bucket.last_refill <= bucket.last_seen_ms + MaxPause
      BY <1>1, <2>1 DEF ClockInv
    <2>5. evict.cutoff <= AtLeast(now - EvictAfter, 0)
      BY <1>1, <2>1 DEF ClockInv
    <2>6. /\ bucket.tokens \in Nat /\ bucket.last_refill \in Nat
          /\ bucket.last_seen_ms \in Nat
      BY <1>1, <2>1, Rates DEF RateTypeOK, Bucket
    <2>7. now \in Nat /\ EvictAfter \in Nat /\ MaxPause \in Nat /\ evict.cutoff \in Nat
      BY <2>1, RateAssumption DEF RateTypeOK
    <2> HIDE DEF bucket
    <2>8. EvictAfter - MaxPause <= now - bucket.last_refill
      BY <2>3, <2>4, <2>5, <2>6, <2>7 DEF AtLeast
    <2>9. refill_per_ms * (EvictAfter - MaxPause)
            <= refill_per_ms * (now - bucket.last_refill)
      BY <2>6, <2>7, <2>8, Rates, Faster
    <2>10. /\ refill_per_ms * (now - bucket.last_refill) \in Int
           /\ refill_per_ms * (EvictAfter - MaxPause) \in Int
           /\ capacity \in Nat
      BY <2>6, <2>7, Rates
    <2>11. refill_per_ms * (EvictAfter - MaxPause) >= capacity
      BY <1>1 DEF FillsInTime
    <2>12. bucket.tokens + refill_per_ms * (now - bucket.last_refill) >= capacity
      BY <2>6, <2>9, <2>10, <2>11
    <2> QED
      BY <2>12 DEF bucket
  <1>2. RInv /\ [Next]_vars =>
          [\A ip \in Addresses :
             buckets[ip] # None /\ buckets'[ip] = None /\ ~stepped /\ FillsInTime =>
               Full(ip)]_vars
    BY <1>1
  <1> QED
    BY <1>2, RateInvariant, PTL DEF Spec, EvictedWhenFull
=============================================================================
