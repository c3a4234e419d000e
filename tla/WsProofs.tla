------------------------------ MODULE WsProofs ------------------------------
(***************************************************************************)
(* What a WebSocket session keeps, for any cap, frame size, audio and      *)
(* words.  The inductive invariant has a part for each of the things the   *)
(* handlers share: the triplet, the words, the odd byte, the cached        *)
(* resampler, the messages on their way out.                               *)
(***************************************************************************)
EXTENDS WsSession, SequenceTheorems, TLAPS

Messages == [kind : Kinds, words : Nat]
Streams == [words : Nat, dia : BOOLEAN, resampler : SUPPORTED_RATES \cup {"none"}]
Exits == {"none", "stop", "shutdown", "cap", "version", "idle", "closed", "error"}
LastExits == {"stop", "shutdown", "cap"}

Types ==
  /\ phase \in Phases
  /\ outbox \in Seq(Messages) /\ Len(outbox) <= 3
  /\ exit \in Exits
  /\ triplet \in {"session", "closure", "lost"}
  /\ stream \in Streams
  /\ audio_received \in BOOLEAN
  /\ client_sample_rate \in SUPPORTED_RATES
  /\ cancelled \in BOOLEAN /\ capped \in BOOLEAN /\ gone \in BOOLEAN
  /\ recognised \in 0..MaxWords /\ finalised \in Nat /\ lost \in Nat
  /\ last \in Kinds \cup {"none"}

\* The frame is cut from what was received.
AudioInv ==
  /\ received \in 0..MaxBytes
  /\ SamplesAligned
  /\ frame \in Seq(Nat \X Nat) /\ Len(frame) <= MaxFrame /\ Len(frame) <= decoded

\* Before any audio there is nothing a configure message could drop.
FreshInv ==
  /\ ~audio_received => phase # "infer" /\ stream.words = 0 /\ stream.resampler = "none"
  /\ ResamplerMatchesRate

TripletInv ==
  /\ phase = "infer" => triplet = "closure"
  /\ phase \notin {"infer", "panicked"} => triplet = "session"
  /\ phase = "panicked" => triplet = "lost"

\* What is sent in which order: Close is the last message, after a Final.
Shape(msgs, why, before) ==
  \A i \in 1..Len(msgs) :
    /\ msgs[i].kind # "final" => msgs[i].words = 0
    /\ msgs[i].kind = "close" =>
         /\ i = Len(msgs) /\ why \in {"shutdown", "cap"}
         /\ IF i = 1 THEN before = "final" ELSE msgs[i - 1].kind = "final"

OutboxInv ==
  /\ phase \in {"greeting", "loop", "infer"} => outbox = <<>> /\ exit = "none"
  /\ phase = "sending" => outbox # <<>>
  /\ exit \in LastExits => stream.words = 0
  /\ Shape(outbox, exit, last)

WordsInv == recognised = finalised + Unsent + stream.words + lost

Inv == Types /\ AudioInv /\ FreshInv /\ TripletInv /\ OutboxInv /\ WordsInv

-----------------------------------------------------------------------------
(* Messages *)

\* What a handler may send: messages with n words.
Sends(msgs, why, n) ==
  /\ msgs \in Seq(Messages) /\ Len(msgs) <= 3
  /\ WordsIn(msgs) = n
  /\ \A before \in Kinds \cup {"none"} : Shape(msgs, why, before)

LEMMA SendsNothing == \A why : Sends(<<>>, why, 0)
  BY DEF Sends, WordsIn, Shape

LEMMA SendsOne ==
  ASSUME NEW why
  PROVE  /\ \A kind \in {"partial", "error", "inference_panic"} : Sends(<<Message(kind)>>, why, 0)
         /\ \A n \in Nat : Sends(<<Final(n)>>, why, n)
  <1>1. ASSUME NEW m \in Messages, m.kind # "close", m.kind # "final" => m.words = 0
        PROVE  Sends(<<m>>, why, m.words)
    <2>1. <<m>> \in Seq(Messages) /\ Len(<<m>>) = 1 /\ DOMAIN <<m>> = 1..1 /\ <<m>>[1] = m
      OBVIOUS
    <2>2. WordsIn(<<m>>) = m.words
      BY <2>1 DEF WordsIn, Messages
    <2> QED
      BY <1>1, <2>1, <2>2 DEF Sends, Shape
  <1>2. \A kind \in {"partial", "error", "inference_panic"} :
          /\ Message(kind) \in Messages /\ Message(kind).kind = kind /\ Message(kind).words = 0
    BY DEF Message, Messages, Kinds
  <1>3. \A n \in Nat : Final(n) \in Messages /\ Final(n).kind = "final" /\ Final(n).words = n
    BY DEF Final, Messages, Kinds
  <1> QED
    BY <1>1, <1>2, <1>3

LEMMA SendsClose ==
  ASSUME NEW n \in Nat
  PROVE  /\ Sends(<<Final(n), Message("close")>>, "shutdown", n)
         /\ Sends(<<Message("error"), Final(n), Message("close")>>, "cap", n)
  <1> DEFINE e == Message("error")
             f == Final(n)
             c == Message("close")
             two == <<f, c>>
             three == <<e, f, c>>
  <1>1. /\ e \in Messages /\ e.kind = "error" /\ e.words = 0
        /\ f \in Messages /\ f.kind = "final" /\ f.words = n
        /\ c \in Messages /\ c.kind = "close" /\ c.words = 0
    BY DEF Message, Final, Messages, Kinds
  <1> HIDE DEF e, f, c
  <1>2. /\ two \in Seq(Messages) /\ Len(two) = 2 /\ DOMAIN two = 1..2
        /\ two[1] = f /\ two[2] = c
    BY <1>1
  <1>3. /\ three \in Seq(Messages) /\ Len(three) = 3 /\ DOMAIN three = 1..3
        /\ three[1] = e /\ three[2] = f /\ three[3] = c
    BY <1>1
  <1> HIDE DEF two, three
  <1>4. Sends(two, "shutdown", n)
    <2>1. WordsIn(two) = n
      BY <1>1, <1>2 DEF WordsIn
    <2>2. \A i \in 1..2 : i = 1 \/ i = 2
      OBVIOUS
    <2> QED
      BY <1>1, <1>2, <2>1, <2>2 DEF Sends, Shape
  <1>5. Sends(three, "cap", n)
    <2>1. WordsIn(three) = n
      BY <1>1, <1>3 DEF WordsIn
    <2>2. \A i \in 1..3 : i = 1 \/ i = 2 \/ i = 3
      OBVIOUS
    <2> QED
      BY <1>1, <1>3, <2>1, <2>2 DEF Sends, Shape
  <1> QED
    BY <1>4, <1>5 DEF two, three, e, f, c

\* The next message is sent.
LEMMA SendsRest ==
  ASSUME NEW msgs \in Seq(Messages), Len(msgs) <= 3, msgs # <<>>,
         NEW why, NEW before, Shape(msgs, why, before)
  PROVE  /\ Head(msgs) \in Messages
         /\ Tail(msgs) \in Seq(Messages) /\ Len(Tail(msgs)) = Len(msgs) - 1
         /\ WordsIn(msgs) = Head(msgs).words + WordsIn(Tail(msgs))
         /\ Shape(Tail(msgs), why, Head(msgs).kind)
         /\ Len(msgs) = 1 <=> Tail(msgs) = <<>>
  <1> DEFINE n == Len(msgs)
             rest == Tail(msgs)
  <1>1. /\ n \in {1, 2, 3} /\ rest \in Seq(Messages) /\ Len(rest) = n - 1
        /\ \A i \in 1..(n - 1) : rest[i] = msgs[i + 1]
        /\ Head(msgs) = msgs[1] /\ \A i \in 1..n : msgs[i] \in Messages
        /\ DOMAIN msgs = 1..n /\ DOMAIN rest = 1..(n - 1)
        /\ n = 1 <=> rest = <<>>
    <2>1. n \in Nat /\ n # 0
      OBVIOUS
    <2>2. \A k \in Nat : k # 0 /\ k <= 3 => k \in {1, 2, 3}
      OBVIOUS
    <2>3. n \in {1, 2, 3}
      BY <2>1, <2>2
    <2>4. /\ rest \in Seq(Messages) /\ Len(rest) = n - 1
          /\ \A i \in 1..(n - 1) : rest[i] = msgs[i + 1]
      OBVIOUS
    <2> QED
      BY <2>3, <2>4
  <1> HIDE DEF n, rest
  <1>2. WordsIn(msgs) = msgs[1].words + WordsIn(rest)
    <2>1. \A m \in Messages : m.words \in Nat
      BY DEF Messages
    <2>2. CASE n = 1
      BY <1>1, <2>1, <2>2 DEF WordsIn
    <2>3. CASE n = 2
      BY <1>1, <2>1, <2>3 DEF WordsIn
    <2>4. CASE n = 3
      BY <1>1, <2>1, <2>4 DEF WordsIn
    <2> QED
      BY <1>1, <2>2, <2>3, <2>4
  <1>3. Shape(rest, why, msgs[1].kind)
    <2> SUFFICES ASSUME NEW i \in 1..(n - 1)
                 PROVE  /\ rest[i].kind # "final" => rest[i].words = 0
                        /\ rest[i].kind = "close" =>
                             /\ i = n - 1 /\ why \in {"shutdown", "cap"}
                             /\ IF i = 1 THEN msgs[1].kind = "final"
                                ELSE rest[i - 1].kind = "final"
      BY <1>1 DEF Shape
    <2>1. i + 1 \in 1..n /\ rest[i] = msgs[i + 1] /\ i + 1 # 1 /\ (i + 1) - 1 = i
      BY <1>1
    <2>2. i # 1 => rest[i - 1] = msgs[i]
      BY <1>1
    <2>3. Len(msgs) = n
      BY DEF n
    <2> QED
      BY <1>1, <2>1, <2>2, <2>3 DEF Shape
  <1> QED
    BY <1>1, <1>2, <1>3 DEF n, rest

-----------------------------------------------------------------------------
(* Samples *)

LEMMA Halves ==
  /\ \A x \in Nat : x = 2 * (x \div 2) + (x % 2) /\ x % 2 \in {0, 1} /\ x \div 2 \in Nat
  /\ \A d, m \in Nat : (2 * d + m) \div 2 = d + m \div 2 /\ (2 * d + m) % 2 = m % 2
  OBVIOUS

\* The bytes at hand, when a frame of n has come: they follow the last sample's.
Data(n) == [i \in 1..n |-> received + i]
Combined(n) == IF pending_byte = 0 THEN Data(n) ELSE <<pending_byte>> \o Data(n)

LEMMA CombinedBytes ==
  ASSUME Inv, NEW n \in Nat \ {0}
  PROVE  /\ Len(Combined(n)) = n + (received % 2)
         /\ Combined(n) \in Seq(Nat)
         /\ \A j \in 1..Len(Combined(n)) : Combined(n)[j] = 2 * decoded + j
  <1> DEFINE data == Data(n)
             combined == Combined(n)
  <1>0. /\ combined = IF pending_byte = 0 THEN data ELSE <<pending_byte>> \o data
        /\ data = [i \in 1..n |-> received + i]
    BY DEF Combined, Data
  <1> HIDE DEF data, combined
  <1>1. /\ received \in Nat /\ decoded = received \div 2 /\ decoded \in Nat
        /\ received = 2 * decoded + (received % 2) /\ received % 2 \in {0, 1}
        /\ pending_byte = IF received % 2 = 1 THEN received ELSE 0
    BY Halves, WsAssumption DEF Inv, AudioInv, SamplesAligned
  <1> DEFINE e == received % 2
  <1>2. data \in Seq(Nat) /\ Len(data) = n /\ \A j \in 1..n : data[j] = received + j
    BY <1>0, <1>1
  <1> HIDE DEF e
  <1>3. CASE e = 0
    <2>1. combined = data
      BY <1>0, <1>1, <1>3 DEF e
    <2>2. received = 2 * decoded
      BY <1>1, <1>3 DEF e
    <2>3. /\ Len(combined) = n /\ combined \in Seq(Nat)
          /\ \A j \in 1..Len(combined) : combined[j] = 2 * decoded + j
      BY <1>2, <2>1, <2>2
    <2>4. Len(combined) = n + e
      BY <1>3, <2>3
    <2> QED
      BY <2>3, <2>4 DEF combined, e
  <1>4. CASE e = 1
    <2>1. combined = <<received>> \o data
      BY <1>0, <1>1, <1>4 DEF e
    <2>2. <<received>> \in Seq(Nat) /\ Len(<<received>>) = 1 /\ <<received>>[1] = received
      BY <1>1
    <2>3. /\ Len(combined) = n + 1 /\ combined \in Seq(Nat)
          /\ combined[1] = received /\ \A j \in 2..(n + 1) : combined[j] = data[j - 1]
      BY <1>2, <2>1, <2>2
    <2>4. ASSUME NEW j \in 1..(n + 1)
          PROVE  combined[j] = 2 * decoded + j
      <3>1. received = 2 * decoded + 1
        BY <1>1, <1>4 DEF e
      <3>2. CASE j = 1
        BY <2>3, <3>1, <3>2
      <3>3. CASE j # 1
        <4>1. j - 1 \in 1..n /\ j \in 2..(n + 1)
          BY <3>3
        <4>2. combined[j] = received + (j - 1)
          BY <1>2, <2>3, <4>1
        <4>3. decoded \in Nat /\ j \in Nat
          BY <1>1
        <4> QED
          BY <3>1, <4>2, <4>3
      <3> QED
        BY <3>2, <3>3
    <2> QED
      BY <1>4, <2>3, <2>4 DEF combined, e
  <1> QED
    BY <1>1, <1>3, <1>4 DEF e

LEMMA DecodeFits ==
  ASSUME Inv, NEW n \in 1..MaxFrame, Decode(n)
  PROVE  AudioInv' /\ audio_received'
  <1> DEFINE combined == Combined(n)
             len == n + (received % 2)
  <1>1. /\ received + n <= MaxBytes /\ received' = received + n /\ audio_received'
        /\ pending_byte' = IF Len(combined) % 2 = 1 THEN Last(combined) ELSE 0
        /\ frame' = Samples(combined)
        /\ decoded' = decoded + Len(frame')
    BY DEF Decode, Combined, Data
  <1>2. n \in Nat \ {0} /\ n <= MaxFrame /\ MaxFrame \in Nat /\ MaxBytes \in Nat
    BY WsAssumption
  <1>3. /\ Len(combined) = len /\ combined \in Seq(Nat)
        /\ \A j \in 1..len : combined[j] = 2 * decoded + j
    BY <1>2, CombinedBytes
  <1>4. /\ received \in Nat /\ decoded = received \div 2 /\ decoded \in Nat
        /\ received = 2 * decoded + (received % 2) /\ received % 2 \in {0, 1}
    BY Halves, WsAssumption DEF Inv, AudioInv, SamplesAligned
  <1>5. len \in Nat /\ len # 0 /\ received' = 2 * decoded + len
    BY <1>1, <1>2, <1>4
  <1> HIDE DEF combined
  <1>6. Last(combined) = received'
    <2>1. Last(combined) = combined[len]
      BY <1>3 DEF Last
    <2> QED
      BY <1>3, <1>5, <2>1
  <1> DEFINE m == len \div 2
  <1>7. /\ len = 2 * m + (len % 2) /\ len % 2 \in {0, 1} /\ m \in Nat /\ m <= n
        /\ received' \div 2 = decoded + m /\ received' % 2 = len % 2
    <2>1. len = 2 * m + (len % 2) /\ len % 2 \in {0, 1} /\ m \in Nat
      BY <1>5, Halves
    <2>2. received' \div 2 = decoded + m /\ received' % 2 = len % 2
      BY <1>4, <1>5, Halves
    <2>3. len <= 2 * n
      BY <1>2, <1>4
    <2> HIDE DEF m, len
    <2> QED
      BY <1>2, <1>5, <2>1, <2>2, <2>3
  <1>8. frame' = [i \in 1..m |-> <<combined[2 * i - 1], combined[2 * i]>>]
    BY <1>1, <1>3 DEF Samples
  <1> HIDE DEF m, len
  <1>9. ASSUME NEW i \in 1..m
        PROVE  <<combined[2 * i - 1], combined[2 * i]>>
                 = <<2 * (decoded + i) - 1, 2 * (decoded + i)>>
    <2>1. 2 * i - 1 \in 1..len /\ 2 * i \in 1..len
      BY <1>5, <1>7
    <2>2. combined[2 * i - 1] = 2 * decoded + (2 * i - 1) /\ combined[2 * i] = 2 * decoded + 2 * i
      BY <1>3, <2>1
    <2> QED
      BY <1>4, <1>7, <2>2
  <1>10. frame' = [i \in 1..m |-> <<2 * (decoded + i) - 1, 2 * (decoded + i)>>]
    BY <1>8, <1>9
  <1>11. frame' \in Seq(Nat \X Nat) /\ Len(frame') = m /\ DOMAIN frame' = 1..m
    <2>1. \A i \in 1..m : <<2 * (decoded + i) - 1, 2 * (decoded + i)>> \in Nat \X Nat
      BY <1>4, <1>7
    <2> QED
      BY <1>7, <1>10, <2>1
  <1>12. SamplesAligned'
    <2>1. ASSUME NEW i \in 1..m
          PROVE  frame'[i] = <<2 * (decoded' - Len(frame') + i) - 1,
                               2 * (decoded' - Len(frame') + i)>>
      <3>1. decoded' - Len(frame') + i = decoded + i
        BY <1>1, <1>4, <1>7, <1>11
      <3> QED
        BY <1>10, <3>1
    <2>2. pending_byte' = IF received' % 2 = 1 THEN received' ELSE 0
      BY <1>1, <1>3, <1>6, <1>7
    <2>3. decoded' = received' \div 2
      BY <1>1, <1>7, <1>11
    <2> QED
      BY <1>11, <2>1, <2>2, <2>3 DEF SamplesAligned
  <1> QED
    <2>1. received' \in 0..MaxBytes
      BY <1>1, <1>2, <1>4
    <2>2. Len(frame') <= MaxFrame /\ Len(frame') <= decoded'
      BY <1>1, <1>2, <1>4, <1>7, <1>11
    <2> QED
      BY <1>1, <1>11, <1>12, <2>1, <2>2 DEF AudioInv

LEMMA AudioStays ==
  ASSUME Inv, UNCHANGED <<received, decoded, pending_byte>>, frame' \in {frame, <<>>}
  PROVE  AudioInv'
  <1>1. AudioInv /\ received' = received /\ decoded' = decoded /\ pending_byte' = pending_byte
    BY DEF Inv
  <1>2. CASE frame' = frame
    BY <1>1, <1>2 DEF AudioInv, SamplesAligned
  <1>3. CASE frame' = <<>>
    <2>1. /\ <<>> \in Seq(Nat \X Nat) /\ Len(<<>>) = 0 /\ DOMAIN <<>> = {}
          /\ MaxFrame \in Nat /\ decoded \in Nat
      BY <1>1, Halves, WsAssumption DEF AudioInv, SamplesAligned
    <2> QED
      BY <1>1, <1>3, <2>1 DEF AudioInv, SamplesAligned
  <1> QED
    BY <1>2, <1>3

-----------------------------------------------------------------------------
(* A handler responds *)

\* What a handler owes when it is done, whatever it sends: the words it found are
\* in its messages or with the stream, or are counted as lost.
LEMMA RespondStep ==
  ASSUME Inv, phase \in {"greeting", "loop", "infer"},
         NEW msgs, NEW why \in Exits, NEW n \in Nat, Sends(msgs, why, n), Respond(msgs, why),
         AudioInv', FreshInv', stream' \in Streams, triplet' = "session",
         audio_received' \in BOOLEAN, client_sample_rate' \in SUPPORTED_RATES,
         UNCHANGED <<environment, said>>,
         recognised' \in 0..MaxWords, lost' \in Nat,
         recognised' = finalised + n + stream'.words + lost',
         why \in LastExits => stream'.words = 0
  PROVE  Inv'
  <1>1. /\ outbox' = msgs /\ exit' = why
        /\ phase' \in {"loop", "ended", "sending"}
        /\ phase' = "sending" <=> msgs # <<>>
        /\ phase' = "loop" => msgs = <<>> /\ why = "none"
    BY DEF Respond, Onward
  <1>2. /\ msgs \in Seq(Messages) /\ Len(msgs) <= 3 /\ WordsIn(msgs) = n
        /\ Shape(msgs, why, last)
    BY DEF Sends, Inv, Types
  <1>3. UNCHANGED <<cancelled, capped, gone, finalised, last>>
    BY DEF environment, said
  <1>4. Types'
    BY <1>1, <1>2, <1>3 DEF Inv, Types, Phases
  <1>5. TripletInv'
    BY <1>1 DEF TripletInv
  <1>6. OutboxInv'
    <2>1. Shape(outbox', exit', last')
      BY <1>1, <1>2, <1>3
    <2> QED
      BY <1>1, <2>1 DEF OutboxInv, Shape
  <1>7. WordsInv'
    <2>1. WordsIn(outbox') = n
      BY <1>1, <1>2
    <2> QED
      BY <1>3, <2>1 DEF WordsInv, Unsent, WordsIn
  <1> QED
    BY <1>4, <1>5, <1>6, <1>7 DEF Inv

\* Between two responses nothing is on its way out.
LEMMA AtHand ==
  ASSUME Inv, phase \in {"greeting", "loop", "infer"}
  PROVE  /\ recognised = finalised + stream.words + lost
         /\ phase # "infer" => triplet = "session"
         /\ recognised \in 0..MaxWords /\ lost \in Nat /\ finalised \in Nat
         /\ stream \in Streams /\ stream.words \in Nat
         /\ audio_received \in BOOLEAN /\ client_sample_rate \in SUPPORTED_RATES
         /\ FreshInv
  <1>1. outbox = <<>> /\ WordsIn(<<>>) = 0
    BY SendsNothing DEF Inv, OutboxInv, Sends
  <1>2. /\ recognised \in 0..MaxWords /\ lost \in Nat /\ finalised \in Nat
        /\ stream \in Streams /\ stream.words \in Nat
        /\ audio_received \in BOOLEAN /\ client_sample_rate \in SUPPORTED_RATES
    BY DEF Inv, Types, Streams
  <1>3. recognised = finalised + 0 + stream.words + lost
    BY <1>1 DEF Inv, WordsInv, Unsent
  <1> QED
    BY <1>2, <1>3 DEF Inv, TripletInv

\* Nothing but a message, if any, and the way out.
LEMMA OnlyResponds ==
  ASSUME Inv, phase \in {"greeting", "loop"},
         NEW msgs, NEW why \in Exits \ LastExits, Sends(msgs, why, 0), Respond(msgs, why),
         UNCHANGED <<triplet, stream, settings, audio, environment, said, recognised, lost>>
  PROVE  Inv'
  <1>1. /\ UNCHANGED <<received, decoded, pending_byte, frame, audio_received,
                       client_sample_rate, triplet, stream, recognised, lost>>
        /\ UNCHANGED <<environment, said>>
    BY DEF audio, settings
  <1>2. AudioInv'
    BY <1>1, AudioStays
  <1>3. phase' # "infer"
    BY DEF Respond, Onward
  <1>4. FreshInv'
    BY <1>1, <1>3, AtHand DEF FreshInv, ResamplerMatchesRate
  <1>5. recognised = finalised + 0 + stream.words + lost
    BY AtHand
  <1> QED
    BY <1>1, <1>2, <1>4, <1>5, AtHand, RespondStep

LEMMA RefuseInv ==
  ASSUME Inv, NEW why \in {"none", "version"}, Refuse(why)
  PROVE  Inv'
  BY OnlyResponds, SendsOne DEF Refuse, TakesFrame, Exits, LastExits

LEMMA LeaveInv ==
  ASSUME Inv, Leave \/ GreetingFails
  PROVE  Inv'
  <1>1. CASE Leave
    <2>1. PICK why \in {"closed", "error", "idle"} : Respond(<<>>, why)
      BY <1>1 DEF Leave
    <2> QED
      BY <1>1, <2>1, OnlyResponds, SendsNothing DEF Leave, TakesFrame, Exits, LastExits
  <1>2. CASE GreetingFails
    BY <1>2, OnlyResponds, SendsNothing DEF GreetingFails, Exits, LastExits
  <1> QED
    BY <1>1, <1>2

LEMMA ResampleFailsInv ==
  ASSUME Inv, NEW n \in 1..MaxFrame, ResampleFails(n)
  PROVE  Inv'
  <1>1. /\ phase = "loop" /\ Respond(<<>>, "error") /\ AudioInv' /\ audio_received'
        /\ UNCHANGED <<triplet, stream, client_sample_rate, recognised, lost>>
        /\ UNCHANGED <<environment, said>>
    BY DecodeFits DEF ResampleFails, TakesFrame
  <1>2. audio_received' = TRUE
    BY DEF ResampleFails, Decode
  <1>3. FreshInv'
    BY <1>1, <1>2, AtHand DEF FreshInv, ResamplerMatchesRate
  <1>4. recognised = finalised + 0 + stream.words + lost
    BY <1>1, AtHand
  <1> QED
    BY <1>1, <1>2, <1>3, <1>4, AtHand, SendsNothing, RespondStep DEF Exits, LastExits

\* Configure may replace a stream only while it is as good as new.
LEMMA ConfigureInv ==
  ASSUME Inv, NEW rate \in SUPPORTED_RATES \cup {"none", "bad"},
         NEW dia \in {"none", "on", "off"}, Configure(rate, dia)
  PROVE  Inv'
  <1>1. /\ phase = "loop" /\ ~audio_received
        /\ UNCHANGED <<triplet, audio_received, recognised, lost, received, decoded,
                       pending_byte, frame>>
        /\ UNCHANGED <<environment, said>>
    BY DEF Configure, TakesFrame, audio
  <1>2. PICK msgs \in {<<>>, <<Message("error")>>} : Respond(msgs, "none")
    BY DEF Configure, ConfigureRate
  <1>3. Sends(msgs, "none", 0)
    BY <1>2, SendsNothing, SendsOne
  <1>4. client_sample_rate' \in SUPPORTED_RATES
    BY <1>1, AtHand DEF Configure, ConfigureRate
  <1>5. /\ stream' \in Streams /\ stream'.words = 0 /\ stream'.resampler = "none"
        /\ stream.words = 0
    <2>1. stream.words = 0 /\ stream.resampler = "none" /\ stream \in Streams
      BY <1>1, AtHand DEF FreshInv
    <2>2. stream' = stream \/ \E d \in BOOLEAN : stream' = FreshState(d)
      BY DEF Configure, ConfigureDiarization
    <2> QED
      BY <2>1, <2>2 DEF FreshState, Streams
  <1>6. AudioInv'
    BY <1>1, AudioStays
  <1>7. FreshInv'
    <2>1. phase' # "infer"
      BY <1>2 DEF Respond, Onward
    <2> QED
      BY <1>1, <1>5, <2>1 DEF FreshInv, ResamplerMatchesRate
  <1>8. recognised' = finalised + 0 + stream'.words + lost'
    BY <1>1, <1>5, AtHand
  <1> QED
    BY <1>1, <1>2, <1>3, <1>4, <1>5, <1>6, <1>7, <1>8, AtHand, RespondStep DEF Exits, LastExits

\* The assembler's words go out, in a Final before any Close.
LEMMA FlushInv ==
  ASSUME Inv, phase = "loop", NEW before, NEW after, NEW why \in Exits,
         Sends(before \o <<Final(stream.words)>> \o after, why, stream.words),
         Flush(before, after, why)
  PROVE  Inv'
  <1> DEFINE msgs == before \o <<Final(stream.words)>> \o after
  <1>1. /\ Respond(msgs, why) /\ Sends(msgs, why, stream.words)
        /\ stream' = [stream EXCEPT !.words = 0]
        /\ UNCHANGED <<triplet, audio_received, client_sample_rate, recognised, lost,
                       received, decoded, pending_byte, frame>>
        /\ UNCHANGED <<environment, said>>
    BY DEF Flush, settings, audio
  <1> HIDE DEF msgs
  <1>2. /\ stream' \in Streams /\ stream'.words = 0 /\ stream'.resampler = stream.resampler
        /\ stream'.words \in Nat
    BY <1>1, AtHand DEF Streams
  <1>3. AudioInv'
    BY <1>1, AudioStays
  <1>4. FreshInv'
    <2>1. phase' # "infer"
      BY <1>1 DEF Respond, Onward
    <2> QED
      BY <1>1, <1>2, <2>1, AtHand DEF FreshInv, ResamplerMatchesRate
  <1>5. recognised' = finalised + stream.words + stream'.words + lost'
    BY <1>1, <1>2, AtHand
  <1> QED
    BY <1>1, <1>2, <1>3, <1>4, <1>5, AtHand, RespondStep

LEMMA Joins ==
  ASSUME NEW e \in Messages, NEW f \in Messages, NEW c \in Messages
  PROVE  /\ <<>> \o <<f>> \o <<c>> = <<f, c>>
         /\ <<e>> \o <<f>> \o <<c>> = <<e, f, c>>
  <1> DEFINE s2 == <<f>> \o <<c>>
             s3 == <<e>> \o <<f>> \o <<c>>
             two == <<f, c>>
             three == <<e, f, c>>
  <1>1. /\ s2 \in Seq(Messages) /\ Len(s2) = 2 /\ s2[1] = f /\ s2[2] = c
        /\ two \in Seq(Messages) /\ Len(two) = 2 /\ two[1] = f /\ two[2] = c
    OBVIOUS
  <1>2. /\ s3 \in Seq(Messages) /\ Len(s3) = 3 /\ s3[1] = e /\ s3[2] = f /\ s3[3] = c
        /\ three \in Seq(Messages) /\ Len(three) = 3
        /\ three[1] = e /\ three[2] = f /\ three[3] = c
    OBVIOUS
  <1>3. <<>> \o <<f>> = <<f>>
    OBVIOUS
  <1> HIDE DEF s2, s3, two, three
  <1>4. s2 = two
    <2>1. \A i \in 1..2 : s2[i] = two[i]
      <3>1. \A i \in 1..2 : i = 1 \/ i = 2
        OBVIOUS
      <3> QED
        BY <1>1, <3>1
    <2> QED
      BY <1>1, <2>1, SeqEqual
  <1>5. s3 = three
    <2>1. \A i \in 1..3 : s3[i] = three[i]
      <3>1. \A i \in 1..3 : i = 1 \/ i = 2 \/ i = 3
        OBVIOUS
      <3> QED
        BY <1>2, <3>1
    <2> QED
      BY <1>2, <2>1, SeqEqual
  <1> QED
    BY <1>3, <1>4, <1>5 DEF s2, s3, two, three

LEMMA FlushesInv ==
  ASSUME Inv, Stop \/ Shutdown \/ Cap
  PROVE  Inv'
  <1> DEFINE f == Final(stream.words)
             e == Message("error")
             c == Message("close")
  <1>1. /\ phase = "loop" /\ stream.words \in Nat
        /\ e \in Messages /\ f \in Messages /\ c \in Messages
    <2>1. phase = "loop"
      BY DEF Stop, Shutdown, Cap, TakesFrame
    <2>2. stream.words \in Nat
      BY <2>1, AtHand
    <2> QED
      BY <2>1, <2>2 DEF Message, Final, Messages, Kinds
  <1>2. CASE Stop
    <2>1. Sends(<<f>>, "stop", stream.words)
      BY <1>1, SendsOne
    <2>2. <<>> \o <<f>> \o <<>> = <<f>>
      OBVIOUS
    <2> QED
      BY <1>1, <1>2, <2>1, <2>2, FlushInv DEF Stop, Exits
  <1>3. CASE Shutdown
    <2>1. Sends(<<f, c>>, "shutdown", stream.words)
      BY <1>1, SendsClose
    <2>2. <<>> \o <<f>> \o <<c>> = <<f, c>>
      BY <1>1, Joins
    <2> QED
      BY <1>1, <1>3, <2>1, <2>2, FlushInv DEF Shutdown, Exits
  <1>4. CASE Cap
    <2>1. Sends(<<e, f, c>>, "cap", stream.words)
      BY <1>1, SendsClose
    <2>2. <<e>> \o <<f>> \o <<c>> = <<e, f, c>>
      BY <1>1, Joins
    <2> QED
      BY <1>1, <1>4, <2>1, <2>2, FlushInv DEF Cap, Exits
  <1> QED
    BY <1>2, <1>3, <1>4

-----------------------------------------------------------------------------
(* Inference *)

LEMMA InferredInv ==
  ASSUME Inv, NEW msgs, NEW n \in Nat, Inferred(msgs), Sends(msgs, "none", n),
         stream' \in Streams, stream'.resampler \in {stream.resampler, "none"},
         recognised' \in 0..MaxWords, lost' \in Nat,
         recognised' = finalised + n + stream'.words + lost'
  PROVE  Inv'
  <1>1. /\ phase = "infer" /\ Respond(msgs, "none") /\ triplet' = "session" /\ frame' = <<>>
        /\ UNCHANGED <<audio_received, client_sample_rate, received, decoded, pending_byte>>
        /\ UNCHANGED <<environment, said>>
    BY DEF Inferred, settings
  <1>2. AudioInv'
    BY <1>1, AudioStays
  <1>3. FreshInv'
    <2>1. audio_received
      BY <1>1, AtHand DEF FreshInv
    <2> QED
      BY <1>1, <2>1, AtHand DEF FreshInv, ResamplerMatchesRate
  <1> QED
    BY <1>1, <1>2, <1>3, AtHand, RespondStep DEF Exits, LastExits

LEMMA InferInv ==
  ASSUME Inv, Infer
  PROVE  Inv'
  <1>0. phase = "infer"
    BY DEF Infer, Quiet, InferenceFails, InferencePanics, Partial, Endpoint, Inferred
  <1>1. /\ stream \in Streams /\ stream.words \in Nat
        /\ recognised \in 0..MaxWords /\ recognised \in Nat /\ finalised \in Nat /\ lost \in Nat
        /\ recognised = finalised + stream.words + lost
        /\ MaxWords \in Nat
    <2>1. MaxWords \in Nat
      BY WsAssumption
    <2>2. recognised \in 0..MaxWords => recognised \in Nat
      BY <2>1
    <2> QED
      BY <1>0, <2>1, <2>2, AtHand
  <1>2. CASE Quiet \/ InferenceFails
    <2>1. UNCHANGED <<stream, recognised, lost>>
      BY <1>2 DEF Quiet, InferenceFails
    <2>2. PICK msgs \in {<<>>, <<Message("error")>>} : Inferred(msgs)
      BY <1>2 DEF Quiet, InferenceFails
    <2>3. Sends(msgs, "none", 0)
      BY <2>2, SendsNothing, SendsOne
    <2>4. recognised' = finalised + 0 + stream'.words + lost'
      BY <1>1, <2>1
    <2> QED
      BY <1>1, <2>1, <2>2, <2>3, <2>4, InferredInv
  <1>3. CASE InferencePanics
    <2>1. /\ Inferred(<<Message("inference_panic")>>)
          /\ lost' = lost + stream.words
          /\ recognised' = recognised
      BY <1>3 DEF InferencePanics
    <2>2. Sends(<<Message("inference_panic")>>, "none", 0)
      BY SendsOne
    <2>3. stream' \in Streams /\ stream'.words = 0 /\ stream'.resampler = "none"
      BY <1>3 DEF InferencePanics, FreshState, Streams
    <2>4. recognised' = finalised + 0 + stream'.words + lost' /\ lost' \in Nat
      BY <1>1, <2>1, <2>3
    <2> QED
      BY <1>1, <2>1, <2>2, <2>3, <2>4, InferredInv
  <1>4. ASSUME NEW n \in 0..MaxWords, Partial(n)
        PROVE  Inv'
    <2>1. /\ Inferred(<<Message("partial")>>) /\ stream' = [stream EXCEPT !.words = @ + n]
          /\ recognised + n <= MaxWords /\ recognised' = recognised + n /\ lost' = lost
      BY <1>4 DEF Partial, Recognises
    <2>2. Sends(<<Message("partial")>>, "none", 0)
      BY SendsOne
    <2>3. /\ stream' \in Streams /\ stream'.words = stream.words + n
          /\ stream'.resampler = stream.resampler
      BY <1>1, <2>1 DEF Streams
    <2>4. recognised' = finalised + 0 + stream'.words + lost' /\ recognised' \in 0..MaxWords
      BY <1>1, <2>1, <2>3
    <2> QED
      BY <1>1, <2>1, <2>2, <2>3, <2>4, InferredInv
  <1>5. ASSUME NEW n \in 0..MaxWords, Endpoint(n)
        PROVE  Inv'
    <2> DEFINE k == stream.words + n
    <2>1. /\ Inferred(<<Final(k)>>) /\ stream' = [stream EXCEPT !.words = 0]
          /\ recognised + n <= MaxWords /\ recognised' = recognised + n /\ lost' = lost
      BY <1>5 DEF Endpoint, Recognises
    <2>2. k \in Nat
      BY <1>1
    <2>3. Sends(<<Final(k)>>, "none", k)
      BY <2>2, SendsOne
    <2>4. /\ stream' \in Streams /\ stream'.words = 0
          /\ stream'.resampler = stream.resampler
      BY <1>1, <2>1 DEF Streams
    <2>5. recognised' = finalised + k + stream'.words + lost' /\ recognised' \in 0..MaxWords
      BY <1>1, <2>1, <2>4
    <2> HIDE DEF k
    <2> QED
      BY <1>1, <2>1, <2>2, <2>3, <2>4, <2>5, InferredInv
  <1> QED
    BY <1>2, <1>3, <1>4, <1>5 DEF Infer

\* A frame goes to the closure, and the triplet with it.
LEMMA AudioFrameInv ==
  ASSUME Inv, NEW n \in 1..MaxFrame, Audio(n)
  PROVE  Inv'
  <1>1. /\ phase = "loop" /\ AudioInv' /\ audio_received' = TRUE
        /\ phase' = "infer" /\ triplet' = "closure"
        /\ UNCHANGED <<outbox, exit, client_sample_rate, recognised, lost, cancelled, capped,
                       gone, finalised, last>>
    BY DecodeFits DEF Audio, TakesFrame, Decode, environment, said
  <1>2. /\ stream' \in Streams /\ stream'.words = stream.words
        /\ stream'.resampler \in {"none", client_sample_rate}
    <2>1. /\ stream \in Streams /\ client_sample_rate \in SUPPORTED_RATES
          /\ stream.resampler \in {"none", client_sample_rate}
      BY <1>1, AtHand DEF FreshInv, ResamplerMatchesRate
    <2>2. CASE stream' = stream
      BY <2>1, <2>2
    <2>3. CASE stream' # stream
      <3>1. PICK rate \in {client_sample_rate, stream.resampler} \ {"none"} :
              stream' = [stream EXCEPT !.resampler = rate]
        BY <2>3 DEF Audio, Resampled
      <3>2. rate = client_sample_rate
        BY <2>1, <3>1
      <3> QED
        BY <2>1, <3>1, <3>2 DEF Streams
    <2> QED
      BY <2>2, <2>3
  <1>3. Types'
    BY <1>1, <1>2 DEF Inv, Types, Phases
  <1>4. FreshInv' /\ TripletInv'
    BY <1>1, <1>2 DEF FreshInv, ResamplerMatchesRate, TripletInv
  <1>5. OutboxInv'
    <2>1. outbox = <<>> /\ exit = "none" /\ Shape(outbox, exit, last)
      BY <1>1 DEF Inv, OutboxInv
    <2> QED
      BY <1>1, <2>1 DEF OutboxInv, Shape, LastExits
  <1>6. WordsInv'
    BY <1>1, <1>2 DEF Inv, WordsInv, Unsent, WordsIn
  <1> QED
    BY <1>1, <1>3, <1>4, <1>5, <1>6 DEF Inv

-----------------------------------------------------------------------------
(* The client, the environment, a panic *)

LEMMA SentInv ==
  ASSUME Inv, Sent
  PROVE  Inv'
  <1>1. /\ phase = "sending" /\ finalised' = finalised + Head(outbox).words
        /\ last' = Head(outbox).kind /\ outbox' = Tail(outbox)
        /\ phase' = IF Len(outbox) = 1 THEN Onward(exit) ELSE "sending"
        /\ UNCHANGED <<exit, triplet, stream, audio_received, client_sample_rate, received,
                       decoded, pending_byte, frame, cancelled, capped, gone, recognised, lost>>
    BY DEF Sent, settings, audio, environment
  <1>2. /\ outbox \in Seq(Messages) /\ Len(outbox) <= 3 /\ outbox # <<>>
        /\ Shape(outbox, exit, last)
    BY <1>1 DEF Inv, Types, OutboxInv
  <1>3. /\ Head(outbox) \in Messages
        /\ Tail(outbox) \in Seq(Messages) /\ Len(Tail(outbox)) = Len(outbox) - 1
        /\ WordsIn(outbox) = Head(outbox).words + WordsIn(Tail(outbox))
        /\ Shape(Tail(outbox), exit, Head(outbox).kind)
        /\ Len(outbox) = 1 <=> Tail(outbox) = <<>>
    BY <1>2, SendsRest
  <1>4. Len(Tail(outbox)) <= 3
    BY <1>2, <1>3
  <1>5. /\ phase' \in {"loop", "ended", "sending"}
        /\ phase' = "loop" => Tail(outbox) = <<>> /\ exit = "none"
        /\ phase' = "sending" => Tail(outbox) # <<>>
    BY <1>1, <1>3 DEF Onward
  <1>6. Types'
    <2>1. finalised' \in Nat
      BY <1>1, <1>3 DEF Inv, Types, Messages
    <2>2. last' \in Kinds
      BY <1>1, <1>3 DEF Messages
    <2> QED
      BY <1>1, <1>3, <1>4, <1>5, <2>1, <2>2 DEF Inv, Types, Phases
  <1>7. AudioInv'
    BY <1>1, AudioStays
  <1>8. FreshInv' /\ TripletInv'
    BY <1>1, <1>5 DEF Inv, FreshInv, ResamplerMatchesRate, TripletInv
  <1>9. OutboxInv'
    <2>1. Shape(outbox', exit', last')
      BY <1>1, <1>3
    <2>2. exit \in LastExits => stream.words = 0
      BY DEF Inv, OutboxInv
    <2> QED
      BY <1>1, <1>5, <2>1, <2>2 DEF OutboxInv, Shape
  <1>10. WordsInv'
    <2>1. /\ Head(outbox).words \in Nat /\ finalised \in Nat
          /\ stream.words \in Nat /\ lost \in Nat
      BY <1>3 DEF Inv, Types, Messages, Streams
    <2>2. WordsIn(Tail(outbox)) \in Nat
      <3>1. ASSUME NEW i \in {1, 2, 3}
            PROVE  (IF i \in DOMAIN Tail(outbox) THEN Tail(outbox)[i].words ELSE 0) \in Nat
        <4>1. \A j \in DOMAIN Tail(outbox) : Tail(outbox)[j] \in Messages
          BY <1>3
        <4> QED
          BY <4>1 DEF Messages
      <3> QED
        BY <3>1 DEF WordsIn
    <2>3. recognised = finalised + WordsIn(outbox) + stream.words + lost
      BY DEF Inv, WordsInv, Unsent
    <2>4. recognised = finalised' + WordsIn(Tail(outbox)) + stream.words + lost
      BY <1>1, <1>3, <2>1, <2>2, <2>3
    <2> QED
      BY <1>1, <2>4 DEF WordsInv, Unsent, WordsIn
  <1> QED
    BY <1>6, <1>7, <1>8, <1>9, <1>10 DEF Inv

LEMMA SendFailsInv ==
  ASSUME Inv, SendFails
  PROVE  Inv'
  <1>1. /\ phase = "sending" /\ phase' = "ended"
        /\ exit' = IF exit = "none" THEN "error" ELSE exit
        /\ UNCHANGED <<outbox, triplet, stream, audio_received, client_sample_rate, received,
                       decoded, pending_byte, frame, cancelled, capped, gone, recognised,
                       finalised, last, lost>>
    BY DEF SendFails, settings, audio, environment, said
  <1>2. Types' /\ AudioInv' /\ FreshInv' /\ TripletInv'
    BY <1>1, AudioStays DEF Inv, Types, FreshInv, ResamplerMatchesRate, TripletInv, Phases, Exits
  <1>3. OutboxInv'
    <2>1. Shape(outbox, exit, last) /\ (exit \in LastExits => stream.words = 0)
      BY DEF Inv, OutboxInv
    <2>2. Shape(outbox, exit', last)
      BY <1>1, <2>1 DEF Shape
    <2> QED
      BY <1>1, <2>1, <2>2 DEF OutboxInv, Shape, LastExits
  <1>4. WordsInv'
    BY <1>1 DEF Inv, WordsInv, Unsent, WordsIn
  <1> QED
    BY <1>2, <1>3, <1>4 DEF Inv

\* The loop begins, or the task panics: nothing else changes.
LEMMA PhaseInv ==
  ASSUME Inv, phase \in {"greeting", "loop"},
         \/ phase' = "loop" /\ triplet' = triplet
         \/ phase' = "panicked" /\ triplet' = "lost",
         UNCHANGED <<outbox, exit, stream, settings, audio, environment, said, recognised, lost>>
  PROVE  Inv'
  <1>1. UNCHANGED <<outbox, exit, stream, audio_received, client_sample_rate, received, decoded,
                    pending_byte, frame, cancelled, capped, gone, recognised, finalised, last,
                    lost>>
    BY DEF settings, audio, environment, said
  <1>2. Types'
    BY <1>1 DEF Inv, Types, Phases
  <1>3. AudioInv' /\ FreshInv' /\ TripletInv'
    BY <1>1, AudioStays DEF Inv, FreshInv, ResamplerMatchesRate, TripletInv
  <1>4. OutboxInv' /\ WordsInv'
    BY <1>1 DEF Inv, OutboxInv, Shape, WordsInv, Unsent, WordsIn
  <1> QED
    BY <1>2, <1>3, <1>4 DEF Inv

LEMMA PanicsInv ==
  ASSUME Inv, Greeted \/ UnknownText
  PROVE  Inv'
  BY PhaseInv DEF Greeted, UnknownText, TaskPanics, TakesFrame

LEMMA EnvironmentInv ==
  ASSUME Inv, EnvironmentOnly, cancelled' \in BOOLEAN, capped' \in BOOLEAN, gone' \in BOOLEAN
  PROVE  Inv'
  <1>1. UNCHANGED <<phase, triplet, outbox, exit, stream, audio_received, client_sample_rate,
                    received, decoded, pending_byte, frame, recognised, finalised, last, lost>>
    BY DEF EnvironmentOnly, settings, audio, said
  <1>2. Types'
    BY <1>1 DEF Inv, Types
  <1>3. AudioInv' /\ FreshInv' /\ TripletInv'
    BY <1>1, AudioStays DEF Inv, FreshInv, ResamplerMatchesRate, TripletInv
  <1>4. OutboxInv' /\ WordsInv'
    BY <1>1 DEF Inv, OutboxInv, Shape, WordsInv, Unsent, WordsIn
  <1> QED
    BY <1>2, <1>3, <1>4 DEF Inv

-----------------------------------------------------------------------------
(* The invariant *)

LEMMA InitInv == Init => Inv
  <1> SUFFICES ASSUME Init PROVE Inv
    OBVIOUS
  <1>1. MaxWords \in Nat /\ MaxBytes \in Nat /\ MaxFrame \in Nat
    BY WsAssumption
  <1>2. /\ phase = "greeting" /\ outbox = <<>> /\ exit = "none" /\ triplet = "session"
        /\ ~audio_received /\ pending_byte = 0 /\ frame = <<>> /\ received = 0 /\ decoded = 0
        /\ recognised = 0 /\ finalised = 0 /\ lost = 0 /\ last = "none"
    BY DEF Init
  <1>3. /\ <<>> \in Seq(Messages) /\ Len(<<>>) = 0 /\ WordsIn(<<>>) = 0
        /\ <<>> \in Seq(Nat \X Nat) /\ DOMAIN <<>> = {}
    BY SendsNothing DEF Sends
  <1>4. stream \in Streams /\ stream.words = 0 /\ stream.resampler = "none"
    BY DEF Init, FreshState, Streams
  <1>5. Types
    <2>1. client_sample_rate \in SUPPORTED_RATES
      BY DEF Init, SUPPORTED_RATES, DEFAULT_SAMPLE_RATE
    <2>2. /\ audio_received \in BOOLEAN /\ cancelled \in BOOLEAN /\ capped \in BOOLEAN
          /\ gone \in BOOLEAN
      BY DEF Init
    <2> QED
      BY <1>1, <1>2, <1>3, <1>4, <2>1, <2>2 DEF Types, Phases, Exits
  <1>6. AudioInv
    <2>1. 0 \div 2 = 0 /\ 0 % 2 = 0
      OBVIOUS
    <2> QED
      BY <1>1, <1>2, <1>3, <2>1 DEF AudioInv, SamplesAligned
  <1>7. FreshInv /\ TripletInv
    BY <1>2, <1>4 DEF FreshInv, ResamplerMatchesRate, TripletInv
  <1>8. OutboxInv
    BY <1>2, <1>3 DEF OutboxInv, LastExits, Shape
  <1>9. WordsInv
    BY <1>2, <1>3, <1>4 DEF WordsInv, Unsent
  <1> QED
    BY <1>5, <1>6, <1>7, <1>8, <1>9 DEF Inv

LEMMA NextInv == Inv /\ [Next]_vars => Inv'
  <1> SUFFICES ASSUME Inv, [Next]_vars PROVE Inv'
    OBVIOUS
  <1>1. CASE Greeted \/ GreetingFails \/ Infer \/ Leave \/ Shutdown \/ Cap \/ Sent \/ SendFails
    BY <1>1, PanicsInv, LeaveInv, InferInv, FlushesInv, SentInv, SendFailsInv
  <1>2. CASE ClientFrame
    <2>1. ASSUME NEW n \in 1..MaxFrame, Audio(n) \/ ResampleFails(n)
          PROVE  Inv'
      BY <2>1, AudioFrameInv, ResampleFailsInv
    <2>2. CASE ConfigureTooLate \/ ConfigureBadVersion
      BY <2>2, RefuseInv DEF ConfigureTooLate, ConfigureBadVersion
    <2>3. ASSUME NEW rate \in SUPPORTED_RATES \cup {"none", "bad"},
                 NEW dia \in {"none", "on", "off"}, Configure(rate, dia)
          PROVE  Inv'
      BY <2>3, ConfigureInv
    <2>4. CASE Stop \/ UnknownText
      BY <2>4, FlushesInv, PanicsInv
    <2> QED
      BY <1>2, <2>1, <2>2, <2>3, <2>4 DEF ClientFrame
  <1>3. CASE Cancel \/ Expire \/ Hangup
    <2>1. cancelled \in BOOLEAN /\ capped \in BOOLEAN /\ gone \in BOOLEAN
      BY DEF Inv, Types
    <2> QED
      BY <1>3, <2>1, EnvironmentInv DEF Cancel, Expire, Hangup
  <1>4. CASE UNCHANGED vars
    <2>1. EnvironmentOnly /\ UNCHANGED <<cancelled, capped, gone>>
      BY <1>4 DEF vars, environment, EnvironmentOnly
    <2> QED
      BY <2>1, EnvironmentInv DEF Inv, Types
  <1> QED
    BY <1>1, <1>2, <1>3, <1>4 DEF Next

LEMMA SessionInvariant == Spec => []Inv
  <1> QED
    BY InitInv, NextInv, PTL DEF Spec

-----------------------------------------------------------------------------
(* The theorems *)

\* Whatever caps, frames and audio there are, every variable keeps its type: what is
\* recognised bounds what is sent, what is received bounds what is decoded.
THEOREM SessionTypes == Spec => []WsTypeOK
  <1>1. Inv => WsTypeOK
    <2> SUFFICES ASSUME Inv PROVE WsTypeOK
      OBVIOUS
    <2>1. MaxWords \in Nat /\ MaxBytes \in Nat /\ MaxFrame \in Nat
      BY WsAssumption
    <2>2. Types /\ AudioInv /\ WordsInv
      BY DEF Inv
    <2>3. \A i \in DOMAIN outbox : outbox[i] \in Messages /\ i \in {1, 2, 3}
      <3>1. DOMAIN outbox = 1..Len(outbox) /\ Len(outbox) \in Nat /\ Len(outbox) <= 3
        BY <2>2 DEF Types
      <3>2. \A i \in 1..Len(outbox) : i \in {1, 2, 3}
        BY <3>1
      <3> QED
        BY <2>2, <3>1, <3>2 DEF Types
    <2> DEFINE w(i) == IF i \in DOMAIN outbox THEN outbox[i].words ELSE 0
    <2>4. w(1) \in Nat /\ w(2) \in Nat /\ w(3) \in Nat
      BY <2>3 DEF Messages
    <2>5. recognised = finalised + (w(1) + w(2) + w(3)) + stream.words + lost
      BY <2>2 DEF WordsInv, Unsent, WordsIn
    <2> HIDE DEF w
    <2>6. /\ {w(1), w(2), w(3)} \subseteq 0..MaxWords
          /\ stream.words \in 0..MaxWords /\ {recognised, finalised, lost} \subseteq 0..MaxWords
      BY <2>1, <2>2, <2>4, <2>5 DEF Types, Streams
    <2>7. outbox \in BoundedSeq([kind : Kinds, words : 0..MaxWords], 3)
      <3>1. \A i \in DOMAIN outbox : outbox[i].words \in 0..MaxWords
        BY <2>3, <2>6 DEF w
      <3>2. \A i \in DOMAIN outbox : outbox[i] \in [kind : Kinds, words : 0..MaxWords]
        BY <2>3, <3>1 DEF Messages
      <3>3. /\ outbox = [i \in 1..Len(outbox) |-> outbox[i]] /\ DOMAIN outbox = 1..Len(outbox)
            /\ Len(outbox) \in 0..3
        <4>1. outbox \in Seq(Messages) /\ Len(outbox) <= 3
          BY <2>2 DEF Types
        <4>2. Len(outbox) \in Nat
          BY <4>1
        <4>3. \A n \in Nat : n <= 3 => n \in 0..3
          OBVIOUS
        <4>4. Len(outbox) \in 0..3
          BY <4>1, <4>2, <4>3, Zenon
        <4> QED
          BY <4>1, <4>4
      <3>4. outbox \in [1..Len(outbox) -> [kind : Kinds, words : 0..MaxWords]]
        BY <3>2, <3>3
      <3> QED
        BY <3>3, <3>4 DEF BoundedSeq, SeqOf
    <2>8. frame \in BoundedSeq((1..MaxBytes) \X (1..MaxBytes), MaxFrame)
      <3>1. /\ frame = [i \in 1..Len(frame) |-> frame[i]] /\ DOMAIN frame = 1..Len(frame)
            /\ Len(frame) \in 0..MaxFrame
        BY <2>1, <2>2 DEF AudioInv
      <3>2. ASSUME NEW i \in 1..Len(frame)
            PROVE  frame[i] \in (1..MaxBytes) \X (1..MaxBytes)
        <4> DEFINE k == decoded - Len(frame) + i
        <4>1. frame[i] = <<2 * k - 1, 2 * k>>
          BY <2>2, <3>1 DEF AudioInv, SamplesAligned
        <4>2. /\ Len(frame) \in Nat /\ decoded \in Nat /\ Len(frame) <= decoded
              /\ received \in 0..MaxBytes /\ 2 * decoded <= received
          BY <2>1, <2>2, Halves DEF AudioInv, SamplesAligned
        <4>3. k \in 1..decoded
          BY <4>2
        <4> HIDE DEF k
        <4>4. 2 * k - 1 \in 1..MaxBytes /\ 2 * k \in 1..MaxBytes
          BY <2>1, <4>2, <4>3
        <4> QED
          BY <4>1, <4>4
      <3>3. frame \in [1..Len(frame) -> (1..MaxBytes) \X (1..MaxBytes)]
        BY <3>1, <3>2
      <3> QED
        BY <3>1, <3>3 DEF BoundedSeq, SeqOf
    <2>9. pending_byte \in 0..MaxBytes /\ received \in 0..MaxBytes /\ decoded \in 0..MaxBytes
      BY <2>1, <2>2, Halves DEF AudioInv, SamplesAligned
    <2> QED
      BY <2>2, <2>6, <2>7, <2>8, <2>9 DEF WsTypeOK, Types, Streams, Exits
  <1> QED
    BY <1>1, SessionInvariant, PTL

\* Whatever frames come in whatever order: a recognised word is in one Final, or is
\* still held, or went with a panic; stop, the cap and a shutdown leave none behind.
THEOREM WordsGoOnce == Spec => []EachWordFinalOnce
  <1>1. Inv => EachWordFinalOnce
    BY DEF Inv, WordsInv, OutboxInv, LastExits, EachWordFinalOnce
  <1> QED
    BY <1>1, SessionInvariant, PTL

\* A Close goes out only after a Final and after every word.
THEOREM CloseAfterFinal == Spec => []CloseIsComplete
  <1>1. Inv => CloseIsComplete
    <2> SUFFICES ASSUME Inv, phase = "sending", Head(outbox).kind = "close"
                 PROVE  last = "final" /\ finalised + lost = recognised
      BY DEF CloseIsComplete
    <2>1. /\ outbox \in Seq(Messages) /\ outbox # <<>> /\ Len(outbox) <= 3
          /\ Shape(outbox, exit, last)
          /\ exit \in LastExits => stream.words = 0
      BY DEF Inv, Types, OutboxInv
    <2>2. 1 \in 1..Len(outbox) /\ outbox[1] = Head(outbox)
      BY <2>1
    <2>3. outbox[1].words = 0 /\ Len(outbox) = 1 /\ last = "final" /\ exit \in {"shutdown", "cap"}
      BY <2>1, <2>2 DEF Shape
    <2>4. stream.words = 0
      BY <2>1, <2>3 DEF LastExits
    <2>5. WordsIn(outbox) = 0
      <3>1. DOMAIN outbox = 1..1
        BY <2>1, <2>3
      <3>2. 2 \notin DOMAIN outbox /\ 3 \notin DOMAIN outbox
        BY <3>1
      <3> QED
        BY <2>3, <3>2 DEF WordsIn
    <2>6. recognised = finalised + 0 + 0 + lost /\ finalised \in Nat /\ lost \in Nat
      BY <2>4, <2>5 DEF Inv, WordsInv, Unsent, Types
    <2> QED
      BY <2>3, <2>6
  <1> QED
    BY <1>1, SessionInvariant, PTL

\* However the client cuts its bytes into frames, sample k is bytes 2k - 1 and 2k.
THEOREM BytesPairUp == Spec => []SamplesAligned
  <1>1. Inv => SamplesAligned
    BY DEF Inv, AudioInv
  <1> QED
    BY <1>1, SessionInvariant, PTL

\* The cached resampler is one for the client's rate, though the cache does not look.
THEOREM CacheFits == Spec => []ResamplerMatchesRate
  <1>1. Inv => ResamplerMatchesRate
    BY DEF Inv, FreshInv
  <1> QED
    BY <1>1, SessionInvariant, PTL

\* The triplet is with the session or its closure, and back at every end but a panic.
THEOREM TripletComesBack == Spec => []TripletReturned
  <1>1. Inv => TripletReturned
    BY DEF Inv, Types, Phases, TripletInv, TripletReturned
  <1> QED
    BY <1>1, SessionInvariant, PTL

\* Words or a diarizer are dropped before any audio, or with an error sent.
THEOREM LossIsTold == Spec => EveryLossAnnounced
  <1>1. Inv /\ [Next]_vars =>
          [lost' > lost \/ (stream.dia /\ ~stream'.dia) =>
             ~audio_received \/ outbox' = <<Message("inference_panic")>>]_vars
    <2> SUFFICES ASSUME Inv, Next, lost' > lost \/ (stream.dia /\ ~stream'.dia)
                 PROVE  ~audio_received \/ outbox' = <<Message("inference_panic")>>
      OBVIOUS
    <2>1. lost \in Nat /\ stream \in Streams
      BY DEF Inv, Types
    <2>2. ~(lost' = lost /\ stream'.dia = stream.dia)
      BY <2>1
    <2>3. CASE \/ Greeted \/ GreetingFails \/ Leave \/ Sent \/ SendFails
               \/ Cancel \/ Expire \/ Hangup \/ ConfigureTooLate \/ ConfigureBadVersion
               \/ UnknownText \/ \E n \in 1..MaxFrame : ResampleFails(n)
      <3>1. stream' = stream /\ lost' = lost
        BY <2>3 DEF Greeted, GreetingFails, Leave, Sent, SendFails, Cancel, Expire, Hangup,
           ConfigureTooLate, ConfigureBadVersion, UnknownText, ResampleFails, TaskPanics, Refuse,
           EnvironmentOnly
      <3> QED
        BY <2>2, <3>1
    <2>4. CASE Stop \/ Shutdown \/ Cap
      <3>1. stream' = [stream EXCEPT !.words = 0] /\ lost' = lost
        BY <2>4 DEF Stop, Shutdown, Cap, Flush
      <3> QED
        BY <2>1, <2>2, <3>1 DEF Streams
    <2>5. ASSUME NEW n \in 1..MaxFrame, Audio(n)
          PROVE  FALSE
      <3>1. lost' = lost /\ (stream' = stream \/ \E rate : stream' = [stream EXCEPT !.resampler = rate])
        BY <2>5 DEF Audio, Resampled
      <3> QED
        BY <2>1, <2>2, <3>1 DEF Streams
    <2>6. CASE Quiet \/ InferenceFails
      BY <2>2, <2>6 DEF Quiet, InferenceFails
    <2>7. CASE InferencePanics
      BY <2>7 DEF InferencePanics, Inferred, Respond
    <2>8. ASSUME NEW n \in 0..MaxWords, Partial(n) \/ Endpoint(n)
          PROVE  FALSE
      <3>1. lost' = lost /\ \E k : stream' = [stream EXCEPT !.words = k]
        BY <2>8 DEF Partial, Endpoint, Recognises
      <3> QED
        BY <2>1, <2>2, <3>1 DEF Streams
    <2>9. ASSUME NEW rate, NEW dia, Configure(rate, dia)
          PROVE  ~audio_received
      BY <2>9 DEF Configure
    <2> QED
      BY <2>3, <2>4, <2>5, <2>6, <2>7, <2>8, <2>9 DEF Next, ClientFrame, Infer
  <1> QED
    BY <1>1, SessionInvariant, PTL DEF Spec, EveryLossAnnounced

-----------------------------------------------------------------------------
(* The session is a loop *)

LoopSafety == Loop!LoopInit /\ [][Loop!LoopNext]_(Loop!loopVars)

LEMMA RespondJob ==
  ASSUME NEW msgs, NEW why, Respond(msgs, why)
  PROVE  LoopJob' = IF msgs = <<>> THEN IF why = "none" THEN "idle" ELSE "ending"
                    ELSE IF why = "none" THEN "sending" ELSE "closing"
  <1>1. CASE msgs = <<>>
    BY <1>1 DEF Respond, Onward, LoopJob
  <1>2. CASE msgs # <<>>
    BY <1>2 DEF Respond, LoopJob
  <1> QED
    BY <1>1, <1>2

LEMMA FlushJob ==
  ASSUME Inv, Stop \/ Shutdown \/ Cap
  PROVE  LoopJob' = "closing"
  <1>1. stream.words \in Nat
    BY AtHand DEF Stop, Shutdown, Cap, TakesFrame
  <1>2. /\ Final(stream.words) \in Messages /\ Message("error") \in Messages
        /\ Message("close") \in Messages
    BY <1>1 DEF Message, Final, Messages, Kinds
  <1>3. \E msgs : msgs # <<>> /\ \E why : why # "none" /\ Respond(msgs, why)
    <2> DEFINE f == <<Final(stream.words)>>
               e == <<Message("error")>>
               c == <<Message("close")>>
               stop == <<>> \o f \o <<>>
               shutdown == <<>> \o f \o c
               cap == e \o f \o c
    <2>1. stop # <<>> /\ shutdown # <<>> /\ cap # <<>>
      BY <1>2
    <2>2. Respond(stop, "stop") \/ Respond(shutdown, "shutdown") \/ Respond(cap, "cap")
      BY DEF Stop, Shutdown, Cap, Flush
    <2> HIDE DEF stop, shutdown, cap
    <2>3. "stop" # "none" /\ "shutdown" # "none" /\ "cap" # "none"
      OBVIOUS
    <2> QED
      BY <2>1, <2>2, <2>3, Zenon
  <1> QED
    BY <1>3, RespondJob

LEMMA LoopSteps ==
  ASSUME Inv, [Next]_vars
  PROVE  [Loop!LoopNext]_(Loop!loopVars)
  <1> USE DEF Loop!LoopNext, Loop!Goes, Loop!loopVars
  <1>1. phase \in Phases /\ exit \in Exits
    BY DEF Inv, Types
  <1>2. CASE UNCHANGED vars
    BY <1>2 DEF vars, environment, LoopJob
  <1>3. CASE Cancel \/ Expire \/ Hangup
    <2>1. phase' = phase /\ exit' = exit
      BY <1>3 DEF Cancel, Expire, Hangup, EnvironmentOnly
    <2>2. LoopJob' = LoopJob
      BY <2>1 DEF LoopJob
    <2> QED
      BY <1>3, <2>2 DEF Cancel, Expire, Hangup, Loop!Cancel, Loop!Hangup
  <1>4. ASSUME ~(UNCHANGED vars), Next, ~(Cancel \/ Expire \/ Hangup)
        PROVE  UNCHANGED <<gone, cancelled>>
    BY <1>4 DEF Next, ClientFrame, Infer, Greeted, GreetingFails, Leave, Shutdown, Cap, Sent,
       SendFails, Audio, ResampleFails, ConfigureTooLate, ConfigureBadVersion, Refuse, Configure,
       Stop, UnknownText, TaskPanics, Flush, Quiet, InferenceFails, InferencePanics, Partial,
       Endpoint, Inferred, environment
  <1> SUFFICES ASSUME Next, UNCHANGED <<gone, cancelled>>
               PROVE  Loop!LoopNext \/ UNCHANGED LoopJob
    BY <1>2, <1>3, <1>4
  <1>5. CASE Greeted
    BY <1>5 DEF Greeted, TaskPanics, LoopJob, Loop!Sent, Loop!Panic
  <1>6. CASE GreetingFails
    <2>1. phase = "greeting" /\ gone /\ LoopJob' = "ending"
      BY <1>6, RespondJob DEF GreetingFails
    <2>2. LoopJob = "sending"
      BY <2>1 DEF LoopJob
    <2> QED
      BY <2>1, <2>2 DEF Loop!SendFails
  <1>7. CASE ClientFrame
    <2>1. phase = "loop" /\ ~cancelled
      BY <1>7 DEF ClientFrame, Audio, ResampleFails, ConfigureTooLate, ConfigureBadVersion, Refuse,
                  Configure, Stop, UnknownText, TakesFrame
    <2>2. LoopJob' \in {"infer", "idle", "sending", "closing", "ending", "lost"}
      <3>1. ASSUME NEW n \in 1..MaxFrame, Audio(n)
            PROVE  LoopJob' = "infer"
        BY <3>1 DEF Audio, LoopJob
      <3>2. ASSUME NEW n \in 1..MaxFrame, ResampleFails(n)
            PROVE  LoopJob' = "ending"
        BY <3>2, RespondJob DEF ResampleFails
      <3>3. ASSUME ConfigureTooLate \/ ConfigureBadVersion
            PROVE  LoopJob' \in {"idle", "ending", "sending", "closing"}
        BY <3>3, RespondJob DEF ConfigureTooLate, ConfigureBadVersion, Refuse
      <3>4. ASSUME NEW rate, NEW dia, Configure(rate, dia)
            PROVE  LoopJob' \in {"idle", "ending", "sending", "closing"}
        BY <3>4, RespondJob DEF Configure, ConfigureRate
      <3>5. ASSUME Stop
            PROVE  LoopJob' = "closing"
        BY <3>5, FlushJob
      <3>6. ASSUME UnknownText
            PROVE  LoopJob' = "lost"
        BY <3>6 DEF UnknownText, TaskPanics, LoopJob
      <3> QED
        BY <1>7, <3>1, <3>2, <3>3, <3>4, <3>5, <3>6 DEF ClientFrame
    <2>3. LoopJob = "idle"
      BY <2>1 DEF LoopJob
    <2> QED
      BY <2>1, <2>2, <2>3 DEF Loop!Frame, Loop!Leave, Loop!Panic
  <1>8. CASE Infer
    <2>1. phase = "infer" /\ \E msgs : Respond(msgs, "none")
      BY <1>8 DEF Infer, Quiet, InferenceFails, InferencePanics, Partial, Endpoint, Inferred
    <2>2. LoopJob' \in {"idle", "sending"}
      BY <2>1, RespondJob
    <2>3. LoopJob = "infer"
      BY <2>1 DEF LoopJob
    <2> QED
      BY <2>2, <2>3 DEF Loop!Inferred
  <1>9. CASE Leave
    <2>1. phase = "loop" /\ ~cancelled /\ LoopJob' = "ending"
      BY <1>9, RespondJob DEF Leave, TakesFrame
    <2>2. LoopJob = "idle"
      BY <2>1 DEF LoopJob
    <2> QED
      BY <2>1, <2>2 DEF Loop!Leave
  <1>10. CASE Shutdown \/ Cap
    <2>1. phase = "loop" /\ LoopJob' = "closing"
      BY <1>10, FlushJob DEF Shutdown, Cap
    <2>2. LoopJob = "idle"
      BY <2>1 DEF LoopJob
    <2> QED
      BY <1>10, <2>1, <2>2 DEF Shutdown, Cap, Loop!Shutdown, Loop!Leave
  <1>11. CASE Sent
    <2>1. ~gone /\ phase = "sending" /\ exit' = exit
          /\ phase' = IF Len(outbox) = 1 THEN Onward(exit) ELSE "sending"
      BY <1>11 DEF Sent
    <2>2. CASE phase' = "sending"
      BY <2>1, <2>2 DEF LoopJob
    <2>3. CASE phase' = Onward(exit)
      BY <2>1, <2>3 DEF Onward, LoopJob, Loop!Sent
    <2> QED
      BY <2>1, <2>2, <2>3
  <1>12. CASE SendFails
    BY <1>12 DEF SendFails, LoopJob, Loop!SendFails
  <1>13. CASE Cancel \/ Expire \/ Hangup
    <2>1. LoopJob' = LoopJob
      BY <1>13 DEF Cancel, Expire, Hangup, EnvironmentOnly, LoopJob
    <2> QED
      BY <2>1
  <1> QED
    BY <1>5, <1>6, <1>7, <1>8, <1>9, <1>10, <1>11, <1>12, <1>13 DEF Next

\* The steps of a session are steps of the loop that Server has in its place, or leave
\* it alone, whatever the client and the clock do.
THEOREM SessionIsLoop == Spec => LoopSafety
  <1>1. Init => Loop!LoopInit
    BY DEF Init, LoopJob, Loop!LoopInit
  <1>2. Inv /\ [Next]_vars => [Loop!LoopNext]_(Loop!loopVars)
    BY LoopSteps
  <1> QED
    BY <1>1, <1>2, SessionInvariant, PTL DEF Spec, LoopSafety
=============================================================================
