---------------------------- MODULE StreamProofs ----------------------------
(***************************************************************************)
(* The inductive invariant of Stream: the FIFO between the pump and the TX *)
(* thread, the order of the samples sent, and the count of those lost.     *)
(***************************************************************************)
EXTENDS Stream, SequenceTheorems, TLAPS

(* The sample i places behind the tail.                                    *)
At(i) == sfifo[(sfifo_tail + i) % FifoN]

(* How many of those from the tail on are done with: lastid is theirs.     *)
Done == IF tpc \in {"count", "load", "store"} THEN n ELSE 0

(* No sample is newer than the next one, and a packet in hand is not       *)
(* empty, whether it has been stolen from or not.                          *)
PacketInv ==
    /\ tpc \in Packing => n > 0
    /\ tpc = "notify" => Len(pkt) = n
    /\ ppc = "drop" => left > 0
    /\ \A i \in 0 .. FifoN - 1 : sfifo[i] < next
    /\ \A i \in 1 .. Len(pkt) : pkt[i] < next
    /\ lastid < next

(* The FIFO holds at most FifoN samples, in the order they were picked,    *)
(* newer than all sent before; the TX thread's packet is its front.        *)
FifoInv ==
    ~stolen =>
        /\ Avail <= FifoN
        /\ tpc \in Packing => n <= Avail
        /\ tpc = "store" => tread = sfifo_tail
        /\ \A i, j \in 0 .. Avail - 1 : i < j => At(i) < At(j)
        /\ \A i \in Done .. Avail - 1 : lastid < At(i)
        /\ tpc = "notify" => \A i \in 1 .. n : pkt[i] = At(i - 1)

IInv == TypeOK /\ PacketInv /\ FifoInv /\ LossReported
-----------------------------------------------------------------------------
(* The arithmetic of counters that wrap.                                   *)

LEMMA DivMod ==
  ASSUME NEW m \in Nat \ {0}, NEW a \in Nat
  PROVE  a % m \in 0 .. m - 1 /\ a \div m \in Nat /\ a = m * (a \div m) + (a % m)
<1>1. a % m \in 0 .. m - 1
  OBVIOUS
<1>2. a \div m \in Nat
  OBVIOUS
<1>3. a = m * (a \div m) + (a % m)
  OBVIOUS
<1> QED
  BY <1>1, <1>2, <1>3

(* There is one remainder.                                                 *)
LEMMA ModIs ==
  ASSUME NEW m \in Nat \ {0}, NEW q \in Nat, NEW r \in 0 .. m - 1
  PROVE  (m * q + r) % m = r
<1> DEFINE a == m * q + r
           p == a \div m
           r0 == a % m
<1>1. a \in Nat /\ a = m * q + r
  OBVIOUS
<1> HIDE DEF a
<1>2. r0 \in 0 .. m - 1 /\ p \in Nat /\ a = m * p + r0
  BY <1>1, DivMod
<1> HIDE DEF p, r0
<1>3. m * (p - q) = r - r0 /\ m * (q - p) = r0 - r
  BY <1>1, <1>2
<1>4. m * (p - q) < m /\ m * (q - p) < m
  BY <1>2, <1>3
<1>5. p - q < 1 /\ q - p < 1
  BY <1>2, <1>4
<1>6. m * (p - q) = 0
  BY <1>2, <1>5
<1>7. r0 = r
  BY <1>2, <1>3, <1>6
<1> QED
  BY <1>7 DEF r0, a

LEMMA ModSmall ==
  ASSUME NEW m \in Nat \ {0}, NEW r \in 0 .. m - 1
  PROVE  r % m = r
<1>1. (m * 0 + r) % m = r
  BY ModIs
<1> QED
  BY <1>1

(* Whole turns do not matter.                                              *)
LEMMA ModTurns ==
  ASSUME NEW m \in Nat \ {0}, NEW q \in Nat, NEW x \in Nat
  PROVE  (m * q + x) % m = x % m
<1> DEFINE p == x \div m
           r == x % m
<1>1. r \in 0 .. m - 1 /\ p \in Nat /\ x = m * p + r
  BY DivMod
<1> HIDE DEF p, r
<1>2. m * q + x = m * (q + p) + r
  BY <1>1
<1>3. (m * (q + p) + r) % m = r
  BY <1>1, ModIs
<1> QED
  BY <1>2, <1>3 DEF r

(* Equal remainders stay equal, whatever is added on both sides, and were  *)
(* equal before it was.                                                    *)
Same(m, a, b) == a % m = b % m

LEMMA ModAdds ==
  ASSUME NEW m \in Nat \ {0}, NEW a \in Nat, NEW b \in Nat, NEW k \in Nat,
         Same(m, a, b)
  PROVE  Same(m, a + k, b + k)
<1> DEFINE r == b % m
           p == a \div m
           q == b \div m
<1>1. r \in 0 .. m - 1 /\ p \in Nat /\ q \in Nat /\ b = m * q + r
  BY DivMod
<1>2. a = m * p + r
  BY DivMod DEF Same
<1> HIDE DEF p, q, r
<1>3. (m * p + (r + k)) % m = (r + k) % m /\ (m * q + (r + k)) % m = (r + k) % m
  <2>1. r + k \in Nat
    BY <1>1
  <2> QED
    BY <1>1, <2>1, ModTurns
<1>4. a + k = m * p + (r + k) /\ b + k = m * q + (r + k)
  BY <1>1, <1>2
<1> QED
  BY <1>3, <1>4 DEF Same

LEMMA ModCancels ==
  ASSUME NEW m \in Nat \ {0}, NEW a \in Nat, NEW b \in Nat, NEW k \in Nat,
         Same(m, a + k, b + k)
  PROVE  Same(m, a, b)
(* Adding what k lacks to m * k undoes the addition of k.                  *)
<1> DEFINE c == m * k - k
           x == a + k
           y == b + k
<1>1. c \in Nat /\ k + c = m * k
  <2>1. m * k >= k
    OBVIOUS
  <2> QED
    BY <2>1
<1>2. x \in Nat /\ y \in Nat /\ Same(m, x, y)
  OBVIOUS
<1>3. x = a + k /\ y = b + k
  OBVIOUS
<1> HIDE DEF c, x, y
<1>4. Same(m, x + c, y + c)
  BY <1>1, <1>2, ModAdds
<1>5. x + c = m * k + a /\ y + c = m * k + b
  BY <1>1, <1>3
<1>6. (m * k + a) % m = a % m /\ (m * k + b) % m = b % m
  BY ModTurns
<1> QED
  BY <1>4, <1>5, <1>6 DEF Same

(* A remainder may be taken early.                                         *)
LEMMA ModOfSum ==
  ASSUME NEW m \in Nat \ {0}, NEW a \in Nat, NEW k \in Nat
  PROVE  ((a % m) + k) % m = (a + k) % m
<1>1. a % m \in 0 .. m - 1
  BY DivMod
<1>2. Same(m, a % m, a)
  BY <1>1, ModSmall DEF Same
<1>3. a % m \in Nat
  BY <1>1
<1>4. Same(m, (a % m) + k, a + k)
  BY <1>2, <1>3, ModAdds
<1> QED
  BY <1>4 DEF Same

-----------------------------------------------------------------------------
(* The FIFO's counters.                                                    *)

Counters == 0 .. CounterMod - 1

LEMMA Sizes ==
  /\ FifoN \in Nat \ {0} /\ CounterMod \in Nat \ {0} /\ PktMax \in Nat \ {0}
  /\ CallMax \in Nat /\ MsgN \in Nat /\ Credits \in Nat
  /\ CounterMod > FifoN
  BY StreamAssumption

LEMMA SumIsCounter ==
  ASSUME NEW a \in Nat, NEW b \in Nat
  PROVE  Plus(a, b) \in Counters
<1>1. a + b \in Nat /\ CounterMod \in Nat \ {0}
  BY Sizes
<1> QED
  BY <1>1, DivMod DEF Plus, Counters

(* The distance from y to x is what takes y to x.                          *)
LEMMA DistanceLeads ==
  ASSUME NEW x \in Counters, NEW y \in Counters
  PROVE  Minus(x, y) \in Counters /\ (y + Minus(x, y)) % CounterMod = x
<1> DEFINE c == x + CounterMod - y
<1>1. c \in Nat /\ CounterMod \in Nat \ {0} /\ x \in Nat /\ y \in Nat
      /\ c + y = CounterMod * 1 + x
  BY Sizes DEF Counters
<1> HIDE DEF c
<1>2. c % CounterMod \in Counters
  BY <1>1, DivMod DEF Counters
<1>3. ((c % CounterMod) + y) % CounterMod = (CounterMod * 1 + x) % CounterMod
  <2>1. ((c % CounterMod) + y) % CounterMod = (c + y) % CounterMod
    <3>1. c \in Nat /\ y \in Nat /\ CounterMod \in Nat \ {0}
      BY <1>1
    <3> QED
      BY <3>1, ModOfSum
  <2> QED
    BY <1>1, <2>1
<1>4. (CounterMod * 1 + x) % CounterMod = x % CounterMod
  BY <1>1, ModTurns
<1>5. x % CounterMod = x
  BY <1>1, ModSmall DEF Counters
<1>6. Minus(x, y) = c % CounterMod
  BY DEF Minus, c
<1> DEFINE r == c % CounterMod
<1>7. r \in Counters /\ Minus(x, y) = r /\ (r + y) % CounterMod = x
  BY <1>2, <1>3, <1>4, <1>5, <1>6
<1> HIDE DEF r
<1>8. r + y = y + r
  BY <1>1, <1>7 DEF Counters
<1> QED
  BY <1>7, <1>8

(* Nothing else does.                                                      *)
LEMMA DistanceIs ==
  ASSUME NEW x \in Counters, NEW y \in Counters, NEW d \in Counters,
         (y + d) % CounterMod = x
  PROVE  Minus(x, y) = d
<1> DEFINE e == Minus(x, y)
<1>1. e \in Counters /\ (y + e) % CounterMod = x
  BY DistanceLeads
<1> HIDE DEF e
<1>2. /\ CounterMod \in Nat \ {0} /\ y \in Nat /\ d \in Nat /\ e \in Nat
      /\ y + d = d + y /\ y + e = e + y
  BY <1>1, Sizes DEF Counters
<1>3. d % CounterMod = e % CounterMod
  <2>1. Same(CounterMod, d + y, e + y)
    BY <1>1, <1>2 DEF Same
  <2>2. Same(CounterMod, d, e)
    BY <1>2, <2>1, ModCancels
  <2> QED
    BY <2>2 DEF Same
<1>4. d % CounterMod = d /\ e % CounterMod = e
  BY <1>1, <1>2, ModSmall DEF Counters
<1> QED
  BY <1>3, <1>4 DEF e

LEMMA DistanceToSelf == ASSUME NEW x \in Counters PROVE Minus(x, x) = 0
<1>1. x + 0 = x /\ 0 \in Counters /\ x \in Nat /\ CounterMod \in Nat \ {0}
  BY Sizes DEF Counters
<1>2. x % CounterMod = x
  BY <1>1, ModSmall DEF Counters
<1> QED
  BY <1>1, <1>2, DistanceIs

(* A sample staged.                                                        *)
LEMMA DistanceGrows ==
  ASSUME NEW x \in Counters, NEW y \in Counters, Minus(x, y) < FifoN
  PROVE  Minus(Plus(x, 1), y) = Minus(x, y) + 1
<1> DEFINE d == Minus(x, y)
<1>1. d \in Counters /\ (y + d) % CounterMod = x
  BY DistanceLeads
<1>2. d < FifoN
  OBVIOUS
<1> HIDE DEF d
<1>3. /\ d + 1 \in Counters /\ y + d \in Nat /\ CounterMod \in Nat \ {0}
      /\ (y + d) + 1 = y + (d + 1) /\ x \in Nat
  BY <1>1, <1>2, Sizes DEF Counters
<1>4. (y + (d + 1)) % CounterMod = Plus(x, 1)
  <2>1. (((y + d) % CounterMod) + 1) % CounterMod = ((y + d) + 1) % CounterMod
    BY <1>3, ModOfSum
  <2> QED
    BY <1>1, <1>3, <2>1 DEF Plus
<1>5. Plus(x, 1) \in Counters
  BY <1>3, SumIsCounter
<1> QED
  BY <1>3, <1>4, <1>5, DistanceIs DEF d

(* A packet freed.                                                         *)
LEMMA DistanceShrinks ==
  ASSUME NEW x \in Counters, NEW y \in Counters, NEW k \in 0 .. Minus(x, y)
  PROVE  Minus(x, Plus(y, k)) = Minus(x, y) - k
<1> DEFINE d == Minus(x, y)
<1>1. d \in Counters /\ (y + d) % CounterMod = x /\ k \in 0 .. d
  BY DistanceLeads
<1> HIDE DEF d
<1>2. /\ d - k \in Counters /\ d - k \in Nat /\ y + k \in Nat /\ y \in Nat
      /\ k \in Nat /\ CounterMod \in Nat \ {0} /\ (y + k) + (d - k) = y + d
  BY <1>1, Sizes DEF Counters
<1>3. (Plus(y, k) + (d - k)) % CounterMod = x
  <2>1. (((y + k) % CounterMod) + (d - k)) % CounterMod
          = ((y + k) + (d - k)) % CounterMod
    BY <1>2, ModOfSum
  <2> QED
    BY <1>1, <1>2, <2>1 DEF Plus
<1>4. Plus(y, k) \in Counters
  BY <1>2, SumIsCounter
<1> QED
  BY <1>2, <1>3, <1>4, DistanceIs DEF d

(* FifoN divides 2^32: a counter that wraps stays at its slot.             *)
LEMMA SlotOfSum ==
  ASSUME NEW a \in Nat, NEW k \in Nat
  PROVE  (Plus(a, k)) % FifoN = (a + k) % FifoN
<1> DEFINE c == CounterMod \div FifoN
           t == a + k
           q == t \div CounterMod
<1>1. CounterMod \in Nat \ {0} /\ FifoN \in Nat \ {0} /\ t \in Nat
  BY Sizes
<1>2. c \in Nat /\ CounterMod = FifoN * c
  <2>1. CounterMod % FifoN = 0
    BY StreamAssumption
  <2> QED
    BY <1>1, <2>1, DivMod
<1> DEFINE r == t % CounterMod
<1>3. Plus(a, k) = r
  BY DEF Plus
<1> HIDE DEF t
<1>4. r \in 0 .. CounterMod - 1 /\ q \in Nat /\ t = CounterMod * q + r
  BY <1>1, DivMod
<1> HIDE DEF c, q, r
<1>5. t = FifoN * (c * q) + r /\ c * q \in Nat /\ r \in Nat
  BY <1>1, <1>2, <1>4
<1>6. t % FifoN = r % FifoN
  BY <1>1, <1>5, ModTurns
<1> QED
  BY <1>3, <1>6 DEF t

(* Less than a turn apart, two counters have slots of their own.           *)
LEMMA SlotsDiffer ==
  ASSUME NEW a \in Nat, NEW b \in Nat, a < b, b - a < FifoN
  PROVE  a % FifoN # b % FifoN
<1> DEFINE p == a \div FifoN
           q == b \div FifoN
           r == a % FifoN
           r2 == b % FifoN
<1>0. FifoN \in Nat \ {0}
  BY Sizes
<1>1. a = FifoN * p + r /\ p \in Nat /\ r \in 0 .. FifoN - 1
  BY <1>0, DivMod
<1>2. b = FifoN * q + r2 /\ q \in Nat /\ r2 \in 0 .. FifoN - 1
  BY <1>0, DivMod
<1> SUFFICES ASSUME r2 = r PROVE FALSE
  OBVIOUS
<1> HIDE DEF p, q, r, r2
<1>3. b - a = FifoN * (q - p)
  BY <1>1, <1>2, Sizes
<1>4. q - p > 0
  BY <1>1, <1>2, <1>3, Sizes
<1>5. FifoN * (q - p) >= FifoN
  BY <1>1, <1>2, <1>4, Sizes
<1> QED
  BY <1>3, <1>5, Sizes

-----------------------------------------------------------------------------
(* Types.                                                                  *)

FifoType ==
    /\ sfifo \in [0 .. FifoN - 1 -> Nat]
    /\ sfifo_head \in Counters /\ sfifo_tail \in Counters /\ aged \in BOOLEAN

RadioType ==
    msgs \in 0 .. MsgN /\ credits \in Nat /\ air \in Nat /\ credits + air = Credits

PumpType ==
    ppc \in {"idle", "sink", "drop"} /\ left \in 0 .. CallMax /\ pread \in Nat

TxType ==
    /\ tpc \in {"msgs", "stream"} \union Packing
    /\ n \in 0 .. PktMax /\ pkt \in Seq(Nat) /\ tread \in Nat

CountType ==
    /\ dropped \in Counters /\ picked \in Nat /\ delivered \in Nat
    /\ next \in Nat /\ lastid \in Nat
    /\ sink \in BOOLEAN /\ stolen \in BOOLEAN /\ raced \in BOOLEAN

Types == FifoType /\ RadioType /\ PumpType /\ TxType /\ CountType

LEMMA TypeParts == TypeOK <=> Types
  BY DEF TypeOK, Types, FifoType, RadioType, PumpType, TxType, CountType,
         Counters

LEMMA TypePartsNext == TypeOK' <=> Types'
  BY TypeParts, PTL

LEMMA AvailIsCounter == ASSUME FifoType PROVE Avail \in Counters /\ Avail \in Nat
<1>1. Avail \in Counters
  BY DistanceLeads DEF FifoType, Avail
<1> QED
  BY <1>1 DEF Counters

(* Who moves what.                                                         *)
LEMMA FifoMoves ==
  [Next]_vars => \/ Enables \/ PumpStages \/ TxFrees
                 \/ UNCHANGED <<sfifo, sfifo_head, sfifo_tail>>
  BY DEF Next, Handlers, Pump, Tx, Enables, Disables, Says, Sent, Ages,
         PumpCalls, PumpStages, PumpFindsFull, PumpCounts, PumpReturns,
         TxSendsMessage, TxTurnsToStream, TxRests, TxTakesPacket, TxCopies,
         TxSends, TxFails, TxCounts, TxLoadsTail, TxFrees,
         vars, fifo, radio, pump, tx, count, flags, bounds

LEMMA TxMoves ==
  [Next]_vars => \/ TxTurnsToStream \/ TxRests \/ TxTakesPacket \/ TxCopies
                 \/ TxSends \/ TxFails \/ TxCounts \/ TxLoadsTail \/ TxFrees
                 \/ UNCHANGED tx
  BY DEF Next, Handlers, Pump, Tx, Enables, Disables, Says, Sent, Ages,
         PumpCalls, PumpStages, PumpFindsFull, PumpCounts, PumpReturns,
         TxSendsMessage, TxTurnsToStream, TxRests, TxTakesPacket, TxCopies,
         TxSends, TxFails, TxCounts, TxLoadsTail, TxFrees,
         vars, fifo, radio, pump, tx, count, flags, bounds

LEMMA CountMoves ==
  [Next]_vars => \/ Enables \/ Disables \/ PumpStages \/ PumpCounts
                 \/ TxSends \/ TxFails \/ TxCounts
                 \/ UNCHANGED <<sink, dropped, count, flags>>
  BY DEF Next, Handlers, Pump, Tx, Enables, Disables, Says, Sent, Ages,
         PumpCalls, PumpStages, PumpFindsFull, PumpCounts, PumpReturns,
         TxSendsMessage, TxTurnsToStream, TxRests, TxTakesPacket, TxCopies,
         TxSends, TxFails, TxCounts, TxLoadsTail, TxFrees,
         vars, fifo, radio, pump, tx, count, flags, bounds

LEMMA PumpMoves ==
  [Next]_vars => \/ \E k \in 0 .. CallMax : PumpCalls(k)
                 \/ Pump \/ UNCHANGED pump
  BY DEF Next, Handlers, Tx, Enables, Disables, Says, Sent, Ages,
         TxSendsMessage, TxTurnsToStream, TxRests, TxTakesPacket, TxCopies,
         TxSends, TxFails, TxCounts, TxLoadsTail, TxFrees,
         vars, pump

LEMMA FifoTypeNext == Types /\ [Next]_vars => FifoType'
<1> SUFFICES ASSUME Types, [Next]_vars PROVE FifoType'
  OBVIOUS
<1> USE DEF Types, FifoType
<1>1. aged' \in BOOLEAN
  BY DEF Next, Handlers, Pump, Tx, Enables, Disables, Says, Sent, Ages,
         PumpCalls, PumpStages, PumpFindsFull, PumpCounts, PumpReturns,
         TxSendsMessage, TxTurnsToStream, TxRests, TxTakesPacket, TxCopies,
         TxSends, TxFails, TxCounts, TxLoadsTail, TxFrees,
         vars, fifo, radio, pump, tx, count, flags, bounds
<1>2. CASE Enables
  BY <1>1, <1>2 DEF Enables
<1>3. CASE PumpStages
  <2>1. sfifo' = [sfifo EXCEPT ![sfifo_head % FifoN] = next] /\ next \in Nat
    BY <1>3 DEF PumpStages, CountType
  <2>2. sfifo_head' \in Counters
    <3>1. sfifo_head \in Nat /\ 1 \in Nat
      BY DEF Counters
    <3> QED
      BY <1>3, <3>1, SumIsCounter DEF PumpStages
  <2> QED
    BY <1>1, <1>3, <2>1, <2>2 DEF PumpStages
<1>4. CASE TxFrees
  <2>1. tread \in Nat /\ n \in Nat
    BY DEF TxType
  <2>2. sfifo_tail' \in Counters
    BY <1>4, <2>1, SumIsCounter DEF TxFrees
  <2> QED
    BY <1>1, <1>4, <2>2 DEF TxFrees, fifo
<1>5. CASE UNCHANGED <<sfifo, sfifo_head, sfifo_tail>>
  BY <1>1, <1>5
<1> QED
  BY <1>2, <1>3, <1>4, <1>5, FifoMoves

LEMMA RadioTypeNext == Types /\ [Next]_vars => RadioType'
<1> SUFFICES ASSUME RadioType, [Next]_vars PROVE RadioType'
  BY DEF Types
<1> USE DEF RadioType
<1>1. CASE Says
  BY <1>1, Sizes DEF Says, radio
<1>2. CASE Sent
  BY <1>2, Sizes DEF Sent
<1>3. CASE TxSendsMessage
  BY <1>3, Sizes DEF TxSendsMessage, Handed, GivenUp, radio
<1>4. CASE TxSends
  BY <1>4, Sizes DEF TxSends, Handed, radio
<1>5. ~Says /\ ~Sent /\ ~TxSendsMessage /\ ~TxSends => UNCHANGED <<msgs, radio>>
  BY DEF Next, Handlers, Pump, Tx, Enables, Disables, Ages, GivenUp,
         PumpCalls, PumpStages, PumpFindsFull, PumpCounts, PumpReturns,
         TxTurnsToStream, TxRests, TxTakesPacket, TxCopies,
         TxFails, TxCounts, TxLoadsTail, TxFrees,
         vars, fifo, radio, pump, tx, count, flags, bounds
<1> QED
  BY <1>1, <1>2, <1>3, <1>4, <1>5 DEF radio

LEMMA PumpTypeNext == Types /\ PacketInv /\ [Next]_vars => PumpType'
<1> SUFFICES ASSUME PumpType, ppc = "drop" => left > 0, dropped \in Nat,
                    [Next]_vars
             PROVE  PumpType'
  BY DEF Types, PacketInv, CountType, Counters
<1> USE DEF PumpType
<1>1. ASSUME NEW k \in 0 .. CallMax, PumpCalls(k) PROVE PumpType'
  BY <1>1 DEF PumpCalls
<1>2. CASE PumpStages
  BY <1>2, Sizes DEF PumpStages
<1>3. CASE PumpFindsFull
  BY <1>3 DEF PumpFindsFull
<1>4. CASE PumpCounts
  BY <1>4, Sizes DEF PumpCounts
<1>5. CASE PumpReturns
  BY <1>5 DEF PumpReturns
<1>6. CASE UNCHANGED pump
  BY <1>6 DEF pump
<1> QED
  BY <1>1, <1>2, <1>3, <1>4, <1>5, <1>6, PumpMoves DEF Pump

(* The sample in each place of the FIFO.                                   *)
LEMMA PlaceIsSample ==
  ASSUME FifoType, NEW i \in Nat
  PROVE  (sfifo_tail + i) % FifoN \in 0 .. FifoN - 1 /\ At(i) \in Nat
<1>1. sfifo_tail + i \in Nat
  BY DEF FifoType, Counters
<1>2. (sfifo_tail + i) % FifoN \in 0 .. FifoN - 1
  BY <1>1, Sizes, DivMod
<1> QED
  BY <1>2 DEF At, FifoType

(* A packet's samples are those from the tail on.                          *)
LEMMA PacketIsFront ==
  ASSUME Types, TxCopies
  PROVE  /\ pkt' \in Seq(Nat) /\ Len(pkt') = n
         /\ \A i \in 1 .. n : pkt'[i] = At(i - 1)
<1>1. n \in Nat /\ sfifo_tail \in Nat /\ FifoType
  BY DEF Types, TxType, FifoType, Counters
<1>2. ASSUME NEW i \in 1 .. n
      PROVE  /\ sfifo[(sfifo_tail + i - 1) % FifoN] = At(i - 1)
             /\ At(i - 1) \in Nat
  <2>1. i - 1 \in Nat /\ sfifo_tail + i - 1 = sfifo_tail + (i - 1)
    BY <1>1, <1>2
  <2> QED
    BY <1>1, <2>1, PlaceIsSample DEF At
<1> DEFINE p == [i \in 1 .. n |-> sfifo[(sfifo_tail + i - 1) % FifoN]]
<1>3. pkt' = p
  BY DEF TxCopies
<1>4. p \in [1 .. n -> Nat] /\ \A i \in 1 .. n : p[i] = At(i - 1)
  BY <1>2
<1> HIDE DEF p
<1>5. p \in Seq(Nat) /\ Len(p) = n
  BY <1>1, <1>4
<1> QED
  BY <1>3, <1>4, <1>5

LEMMA PacketLength ==
  ASSUME Types, TxTakesPacket
  PROVE  n' \in 0 .. PktMax /\ n' > 0 /\ n' <= Avail
<1>1. Avail \in Nat
  BY AvailIsCounter DEF Types
<1>2. Avail >= PktMax \/ Avail > 0
  BY DEF TxTakesPacket, PacketDue
<1>3. n' = IF Avail < PktMax THEN Avail ELSE PktMax
  BY DEF TxTakesPacket
<1> DEFINE a == Avail
<1> HIDE DEF a
<1>4. /\ a \in Nat /\ (a >= PktMax \/ a > 0) /\ PktMax \in Nat \ {0}
      /\ n' = IF a < PktMax THEN a ELSE PktMax
  BY <1>1, <1>2, <1>3, Sizes DEF a
<1>5. n' \in 0 .. PktMax /\ n' > 0 /\ n' <= a
  BY <1>4
<1> QED
  BY <1>5 DEF a

LEMMA TxTypeNext == Types /\ [Next]_vars => TxType'
<1> SUFFICES ASSUME Types, [Next]_vars PROVE TxType'
  OBVIOUS
<1>0. TxType /\ <<>> \in Seq(Nat) /\ dropped \in Nat /\ sfifo_tail \in Nat
  BY EmptySeq DEF Types, CountType, FifoType, Counters
<1> USE DEF TxType, Packing
<1>1. CASE TxTurnsToStream \/ TxRests
  BY <1>0, <1>1 DEF TxTurnsToStream, TxRests
<1>2. CASE TxTakesPacket
  <2>1. n' \in 0 .. PktMax
    BY <1>2, PacketLength
  <2> QED
    BY <1>0, <1>2, <2>1 DEF TxTakesPacket
<1>3. CASE TxCopies
  <2>1. pkt' \in Seq(Nat)
    BY <1>3, PacketIsFront
  <2> QED
    BY <1>0, <1>3, <2>1 DEF TxCopies
<1>4. CASE TxSends
  BY <1>0, <1>4 DEF TxSends
<1>5. CASE TxFails
  BY <1>0, <1>5 DEF TxFails
<1>6. CASE TxCounts
  BY <1>0, <1>6 DEF TxCounts
<1>7. CASE TxLoadsTail
  BY <1>0, <1>7 DEF TxLoadsTail
<1>8. CASE TxFrees
  BY <1>0, <1>8, Sizes DEF TxFrees
<1>9. CASE UNCHANGED tx
  BY <1>0, <1>9 DEF tx
<1> QED
  BY <1>1, <1>2, <1>3, <1>4, <1>5, <1>6, <1>7, <1>8, <1>9, TxMoves

(* The last sample of a packet.                                            *)
LEMMA LastOfPacket ==
  ASSUME Types, PacketInv, tpc = "notify"
  PROVE  n \in 1 .. Len(pkt) /\ pkt[n] \in Nat /\ pkt[n] < next
<1>1. n \in 1 .. Len(pkt) /\ pkt \in Seq(Nat)
  BY DEF Types, TxType, PacketInv, Packing
<1>2. pkt[n] \in Nat
  BY <1>1
<1> QED
  BY <1>1, <1>2 DEF PacketInv

LEMMA CountTypeNext == Types /\ PacketInv /\ [Next]_vars => CountType'
<1> SUFFICES ASSUME Types, PacketInv, [Next]_vars PROVE CountType'
  OBVIOUS
<1>0. /\ CountType /\ tread \in Nat /\ pread \in Nat /\ n \in Nat
      /\ 0 \in Counters
  BY Sizes DEF Types, TxType, PumpType, Counters
<1> USE DEF CountType
<1>1. CASE Enables
  BY <1>0, <1>1 DEF Enables
<1>2. CASE Disables
  BY <1>0, <1>2 DEF Disables, count, flags
<1>3. CASE PumpStages
  BY <1>0, <1>3 DEF PumpStages, flags
<1>4. CASE PumpCounts
  <2>1. dropped' \in Counters
    BY <1>0, <1>4, SumIsCounter DEF PumpCounts
  <2> QED
    BY <1>0, <1>4, <2>1 DEF PumpCounts
<1>5. CASE TxSends
  <2>1. lastid' \in Nat
    BY <1>5, LastOfPacket DEF TxSends
  <2> QED
    BY <1>0, <1>5, <2>1 DEF TxSends, flags
<1>6. CASE TxFails
  <2>1. lastid' \in Nat
    BY <1>6, LastOfPacket DEF TxFails
  <2> QED
    BY <1>0, <1>6, <2>1 DEF TxFails, flags
<1>7. CASE TxCounts
  <2>1. dropped' \in Counters
    BY <1>0, <1>7, SumIsCounter DEF TxCounts
  <2> QED
    BY <1>0, <1>7, <2>1 DEF TxCounts, count
<1>8. CASE UNCHANGED <<sink, dropped, count, flags>>
  BY <1>0, <1>8 DEF count, flags
<1> QED
  BY <1>1, <1>2, <1>3, <1>4, <1>5, <1>6, <1>7, <1>8, CountMoves

-----------------------------------------------------------------------------
(* The packet in hand, and the numbers of the samples.                     *)

LEMMA NumbersNext == Types /\ PacketInv /\ [Next]_vars =>
  /\ next' \in Nat /\ next' >= next
  /\ \A i \in 0 .. FifoN - 1 : sfifo'[i] < next'
  /\ lastid' < next'
<1> SUFFICES ASSUME Types, PacketInv, [Next]_vars
             PROVE  /\ next' \in Nat /\ next' >= next
                    /\ \A i \in 0 .. FifoN - 1 : sfifo'[i] < next'
                    /\ lastid' < next'
  OBVIOUS
<1>0. /\ next \in Nat /\ lastid \in Nat /\ lastid < next
      /\ \A i \in 0 .. FifoN - 1 : sfifo[i] \in Nat /\ sfifo[i] < next
      /\ FifoType
  BY DEF Types, CountType, FifoType, PacketInv
<1>1. (next' = next + 1 /\ lastid' = lastid) \/ next' = next
  BY CountMoves DEF Enables, Disables, PumpStages, PumpCounts, TxSends,
                    TxFails, TxCounts, count, flags
<1>2. next' \in Nat /\ next' >= next
  BY <1>0, <1>1
<1>3. lastid' < next'
  <2>1. lastid' = lastid \/ TxSends \/ TxFails
    BY CountMoves DEF Enables, Disables, PumpStages, PumpCounts,
                      TxCounts, count, flags
  <2>2. CASE lastid' = lastid
    BY <1>0, <1>2, <2>2
  <2>3. CASE TxSends \/ TxFails
    <3>1. lastid' = pkt[n] /\ next' = next
      BY <2>3 DEF TxSends, TxFails
    <3>2. pkt[n] < next
      BY <2>3, LastOfPacket DEF TxSends, TxFails
    <3> QED
      BY <3>1, <3>2
  <2> QED
    BY <2>1, <2>2, <2>3
<1>4. ASSUME NEW i \in 0 .. FifoN - 1 PROVE sfifo'[i] < next'
  <2>1. sfifo' = sfifo \/ PumpStages
    BY FifoMoves DEF Enables, TxFrees
  <2>2. CASE sfifo' = sfifo
    BY <1>0, <1>2, <2>2
  <2>3. CASE PumpStages
    <3>1. /\ sfifo' = [sfifo EXCEPT ![sfifo_head % FifoN] = next]
          /\ next' = next + 1 /\ sfifo \in [0 .. FifoN - 1 -> Nat]
      BY <1>0, <2>3 DEF PumpStages, FifoType
    <3>2. sfifo'[i] = sfifo[i] \/ sfifo'[i] = next
      BY <3>1
    <3> QED
      BY <1>0, <3>1, <3>2
  <2> QED
    BY <2>1, <2>2, <2>3
<1> QED
  BY <1>2, <1>3, <1>4

LEMMA PacketNext == Types /\ PacketInv /\ [Next]_vars => PacketInv'
<1> SUFFICES ASSUME Types, PacketInv, [Next]_vars PROVE PacketInv'
  OBVIOUS
<1>0. /\ n \in Nat /\ Len(<<>>) = 0 /\ next \in Nat /\ next' \in Nat
      /\ next' >= next
  BY NumbersNext DEF Types, TxType, CountType
<1>1. ppc' = "drop" => left' > 0
  <2>1. CASE ppc' = ppc /\ left' = left
    BY <2>1 DEF PacketInv
  <2>2. CASE PumpFindsFull
    BY <2>2 DEF PumpFindsFull
  <2>3. CASE ppc' # "drop"
    BY <2>3
  <2>4. ppc' # "drop" \/ PumpFindsFull \/ (ppc' = ppc /\ left' = left)
    BY PumpMoves DEF Pump, PumpCalls, PumpStages, PumpCounts, PumpReturns, pump
  <2> QED
    BY <2>1, <2>2, <2>3, <2>4
<1>2. /\ tpc' \in Packing => n' > 0
      /\ tpc' = "notify" => Len(pkt') = n'
  <2>1. CASE TxTakesPacket
    BY <2>1, PacketLength DEF TxTakesPacket
  <2>2. CASE TxCopies
    <3>1. tpc = "copy" /\ n' = n /\ Len(pkt') = n
      BY <2>2, PacketIsFront DEF TxCopies
    <3> QED
      BY <3>1 DEF PacketInv, Packing
  <2>3. CASE TxSends \/ TxFails \/ TxCounts \/ TxLoadsTail
    BY <2>3 DEF TxSends, TxFails, TxCounts, TxLoadsTail, PacketInv, Packing
  <2>4. CASE TxTurnsToStream \/ TxRests \/ TxFrees
    BY <2>4 DEF TxTurnsToStream, TxRests, TxFrees, Packing
  <2>5. CASE UNCHANGED tx
    BY <2>5 DEF tx, PacketInv
  <2> QED
    BY <2>1, <2>2, <2>3, <2>4, <2>5, TxMoves
<1>3. ASSUME NEW i \in 1 .. Len(pkt') PROVE pkt'[i] < next'
  <2>1. pkt' = pkt \/ pkt' = <<>> \/ TxCopies
    BY TxMoves DEF TxTurnsToStream, TxRests, TxTakesPacket, TxSends, TxFails,
                   TxCounts, TxLoadsTail, TxFrees, tx
  <2>2. CASE pkt' = pkt
    <3>1. pkt[i] \in Nat /\ pkt[i] < next
      <4>1. pkt \in Seq(Nat) /\ i \in 1 .. Len(pkt)
        BY <1>3, <2>2 DEF Types, TxType
      <4> QED
        BY <4>1 DEF PacketInv
    <3> QED
      BY <1>0, <2>2, <3>1
  <2>3. CASE pkt' = <<>>
    BY <1>0, <1>3, <2>3
  <2>4. CASE TxCopies
    <3>1. i \in 1 .. n /\ i - 1 \in Nat /\ pkt'[i] = At(i - 1)
      BY <1>0, <1>3, <2>4, PacketIsFront
    <3>2. (sfifo_tail + (i - 1)) % FifoN \in 0 .. FifoN - 1 /\ At(i - 1) \in Nat
      BY <3>1, PlaceIsSample DEF Types
    <3>3. At(i - 1) < next
      BY <3>2 DEF PacketInv, At
    <3> QED
      BY <1>0, <3>1, <3>2, <3>3
  <2> QED
    BY <2>1, <2>2, <2>3, <2>4
<1> QED
  BY <1>1, <1>2, <1>3, NumbersNext DEF PacketInv

-----------------------------------------------------------------------------
(* The FIFO.                                                               *)

LEMMA FifoSame ==
  ASSUME UNCHANGED <<sfifo, sfifo_head, sfifo_tail>>
  PROVE  Avail' = Avail /\ \A i : At(i)' = At(i)
  BY DEF Avail, At

(* The sample staged comes behind the others, which stay where they are.   *)
LEMMA StagedIsLast ==
  ASSUME Types, PumpStages
  PROVE  /\ Avail < FifoN /\ Avail' = Avail + 1
         /\ \A i : i = Avail => At(i)' = next
         /\ \A i \in 0 .. Avail - 1 : At(i)' = At(i)
<1>0. /\ FifoType /\ Avail \in Nat /\ sfifo_head \in Counters
      /\ sfifo_tail \in Counters /\ sfifo_tail \in Nat
  BY AvailIsCounter DEF Types, FifoType, Counters
<1>1. Avail < FifoN
  <2>1. ~(Avail >= FifoN)
    BY DEF PumpStages, FifoFull
  <2> QED
    BY <1>0, <2>1, Sizes
<1>2. Avail' = Avail + 1
  <2>1. Minus(Plus(sfifo_head, 1), sfifo_tail) = Minus(sfifo_head, sfifo_tail) + 1
    BY <1>0, <1>1, DistanceGrows DEF Avail
  <2> QED
    BY <2>1 DEF Avail, PumpStages
<1>3. sfifo_head % FifoN = (sfifo_tail + Avail) % FifoN
  <2>1. Plus(sfifo_tail, Avail) = sfifo_head
    BY <1>0, DistanceLeads DEF Plus, Avail
  <2> QED
    BY <1>0, <2>1, SlotOfSum
<1>4. sfifo' = [sfifo EXCEPT ![(sfifo_tail + Avail) % FifoN] = next]
      /\ sfifo_tail' = sfifo_tail
  BY <1>3 DEF PumpStages
<1>5. ASSUME NEW i, i = Avail PROVE At(i)' = next
  <2>1. (sfifo_tail + Avail) % FifoN \in 0 .. FifoN - 1
    BY <1>0, PlaceIsSample
  <2> QED
    BY <1>0, <1>4, <1>5, <2>1 DEF At, FifoType
<1>6. ASSUME NEW i \in 0 .. Avail - 1 PROVE At(i)' = At(i)
  <2>1. /\ sfifo_tail + i \in Nat /\ sfifo_tail + Avail \in Nat /\ i \in Nat
        /\ sfifo_tail + i < sfifo_tail + Avail
        /\ (sfifo_tail + Avail) - (sfifo_tail + i) < FifoN
    BY <1>0, <1>1, Sizes
  <2>2. (sfifo_tail + i) % FifoN # (sfifo_tail + Avail) % FifoN
    BY <2>1, SlotsDiffer
  <2>3. (sfifo_tail + i) % FifoN \in 0 .. FifoN - 1
    BY <1>0, <2>1, PlaceIsSample
  <2> QED
    BY <1>0, <1>4, <2>2, <2>3 DEF At, FifoType
<1> QED
  BY <1>1, <1>2, <1>5, <1>6

(* What the TX thread frees is its packet.                                 *)
LEMMA FreedIsFront ==
  ASSUME Types, TxFrees, tread = sfifo_tail, n <= Avail
  PROVE  /\ Avail' = Avail - n
         /\ \A i \in Nat : At(i)' = At(n + i)
<1>0. /\ FifoType /\ Avail \in Nat /\ n \in 0 .. Avail /\ n \in Nat
      /\ sfifo_head \in Counters /\ sfifo_tail \in Counters
      /\ sfifo_tail \in Nat /\ FifoN \in Nat \ {0}
  BY AvailIsCounter, Sizes DEF Types, FifoType, TxType, Counters
<1>1. /\ sfifo_tail' = Plus(sfifo_tail, n)
      /\ sfifo' = sfifo /\ sfifo_head' = sfifo_head
  BY DEF TxFrees
<1>2. Avail' = Avail - n
  <2>1. Minus(sfifo_head, Plus(sfifo_tail, n)) = Minus(sfifo_head, sfifo_tail) - n
    BY <1>0, DistanceShrinks DEF Avail
  <2> QED
    BY <1>1, <2>1 DEF Avail
<1>3. ASSUME NEW i \in Nat PROVE At(i)' = At(n + i)
  <2> DEFINE t == sfifo_tail'
             u == sfifo_tail + n
  <2>1. t \in Nat /\ u \in Nat /\ Same(FifoN, t, u)
    <3>1. Plus(sfifo_tail, n) \in Counters
      BY <1>0, SumIsCounter
    <3>2. Plus(sfifo_tail, n) % FifoN = (sfifo_tail + n) % FifoN
      BY <1>0, SlotOfSum
    <3> QED
      BY <1>0, <1>1, <3>1, <3>2 DEF Counters, Same
  <2>2. u + i = sfifo_tail + (n + i)
    BY <1>0
  <2>3. At(i)' = sfifo[(t + i) % FifoN]
    BY <1>1 DEF At
  <2>4. At(n + i) = sfifo[(u + i) % FifoN]
    BY <2>2 DEF At
  <2> HIDE DEF t, u
  <2>5. Same(FifoN, t + i, u + i)
    BY <1>0, <2>1, ModAdds
  <2> QED
    BY <2>3, <2>4, <2>5 DEF Same
<1> QED
  BY <1>2, <1>3

LEMMA FifoNext == Types /\ PacketInv /\ FifoInv /\ [Next]_vars => FifoInv'
<1> SUFFICES ASSUME Types, PacketInv, FifoInv, [Next]_vars, ~stolen'
             PROVE  /\ Avail' <= FifoN
                    /\ tpc' \in Packing => n' <= Avail'
                    /\ tpc' = "store" => tread' = sfifo_tail'
                    /\ \A i, j \in 0 .. Avail' - 1 : i < j => At(i)' < At(j)'
                    /\ \A i \in Done' .. Avail' - 1 : lastid' < At(i)'
                    /\ tpc' = "notify" => \A i \in 1 .. n' : pkt'[i] = At(i - 1)'
  BY DEF FifoInv
<1>0. /\ ~stolen /\ Avail \in Nat /\ n \in Nat /\ Done \in {0, n}
      /\ next \in Nat /\ FifoType /\ lastid \in Nat
  <2>1. stolen => stolen'
    BY CountMoves DEF Enables, Disables, PumpStages, PumpCounts, TxSends,
                      TxFails, TxCounts, count, flags
  <2> QED
    BY <2>1, AvailIsCounter DEF Types, CountType, TxType, Done
<1> DEFINE a == Avail
<1>1. /\ a <= FifoN
      /\ tpc \in Packing => n <= a
      /\ tpc = "store" => tread = sfifo_tail
      /\ \A i, j \in 0 .. a - 1 : i < j => At(i) < At(j)
      /\ \A i \in Done .. a - 1 : lastid < At(i)
      /\ tpc = "notify" => \A i \in 1 .. n : pkt[i] = At(i - 1)
  BY <1>0 DEF FifoInv
<1>2. CASE Enables
  <2>1. Avail' = 0
    <3>1. sfifo_head' = sfifo_head /\ sfifo_tail' = sfifo_head
      BY <1>2 DEF Enables
    <3> QED
      BY <1>0, <3>1, DistanceToSelf DEF Avail, FifoType
  <2>2. tpc' = tpc /\ tpc \notin Packing /\ Done' = 0
    BY <1>2 DEF Enables, tx, Packing, Done
  <2> QED
    BY <2>1, <2>2, Sizes DEF Packing
<1>3. CASE PumpStages
  <2>1. /\ a < FifoN /\ Avail' = a + 1
        /\ \A i : i = a => At(i)' = next
        /\ \A i \in 0 .. a - 1 : At(i)' = At(i)
    BY <1>3, StagedIsLast
  <2>2. /\ tpc' = tpc /\ n' = n /\ pkt' = pkt /\ tread' = tread
        /\ lastid' = lastid /\ sfifo_tail' = sfifo_tail /\ Done' = Done
    BY <1>3 DEF PumpStages, tx, Done
  <2>3. \A i \in 0 .. a - 1 : At(i) \in Nat /\ At(i) < next
    <3>1. ASSUME NEW i \in 0 .. a - 1 PROVE At(i) \in Nat /\ At(i) < next
      <4>1. i \in Nat
        BY <1>0
      <4>2. (sfifo_tail + i) % FifoN \in 0 .. FifoN - 1 /\ At(i) \in Nat
        BY <1>0, <4>1, PlaceIsSample
      <4> QED
        BY <4>2 DEF PacketInv, At
    <3> QED
      BY <3>1
  <2>4. lastid < next
    BY DEF PacketInv
  <2>5. a \in Nat
    BY <1>0
  <2> HIDE DEF a
  <2>6. ASSUME NEW i \in 0 .. Avail' - 1, NEW j \in 0 .. Avail' - 1, i < j
        PROVE  At(i)' < At(j)'
    <3>1. i \in 0 .. a - 1 /\ (j \in 0 .. a - 1 \/ j = a)
      BY <2>1, <2>5, <2>6
    <3>2. CASE j = a
      BY <2>1, <2>3, <3>1, <3>2
    <3>3. CASE j \in 0 .. a - 1
      BY <1>1, <2>1, <2>6, <3>1, <3>3
    <3> QED
      BY <3>1, <3>2, <3>3
  <2>7. ASSUME NEW i \in Done' .. Avail' - 1 PROVE lastid' < At(i)'
    <3>1. i \in Done .. a - 1 \/ i = a
      BY <1>0, <2>1, <2>2, <2>5, <2>7
    <3>2. CASE i = a
      BY <2>1, <2>2, <2>4, <3>2
    <3>3. CASE i \in Done .. a - 1
      <4>1. i \in 0 .. a - 1
        BY <1>0, <3>3, <2>5
      <4> QED
        BY <1>1, <2>1, <2>2, <3>3, <4>1
    <3> QED
      BY <3>1, <3>2, <3>3
  <2>8. ASSUME tpc' = "notify", NEW i \in 1 .. n' PROVE pkt'[i] = At(i - 1)'
    <3>1. tpc = "notify" /\ i \in 1 .. n /\ i - 1 \in 0 .. a - 1
      BY <1>0, <1>1, <2>2, <2>5, <2>8 DEF Packing
    <3> QED
      BY <1>1, <2>1, <2>2, <3>1
  <2>9. Avail' <= FifoN /\ (tpc' \in Packing => n' <= Avail')
    BY <1>0, <1>1, <2>1, <2>2, <2>5, Sizes
  <2> QED
    BY <1>1, <2>2, <2>6, <2>7, <2>8, <2>9
<1>4. CASE TxFrees
  <2>1. /\ Avail' = a - n /\ \A i \in Nat : At(i)' = At(n + i)
    BY <1>1, <1>4, FreedIsFront DEF TxFrees, Packing
  <2>2. /\ tpc = "store" /\ tpc' = "stream" /\ lastid' = lastid
        /\ Done' = 0 /\ Done = n
    BY <1>4 DEF TxFrees, count, Done
  <2>3. a \in Nat /\ n \in 0 .. a
    BY <1>0, <1>1, <2>2 DEF Packing
  <2> HIDE DEF a
  <2>4. ASSUME NEW i \in 0 .. Avail' - 1, NEW j \in 0 .. Avail' - 1, i < j
        PROVE  At(i)' < At(j)'
    <3>1. /\ n + i \in 0 .. a - 1 /\ n + j \in 0 .. a - 1 /\ n + i < n + j
          /\ i \in Nat /\ j \in Nat
      BY <2>1, <2>3, <2>4
    <3> QED
      BY <1>1, <2>1, <3>1
  <2>5. ASSUME NEW i \in Done' .. Avail' - 1 PROVE lastid' < At(i)'
    <3>1. n + i \in Done .. a - 1 /\ i \in Nat
      BY <2>1, <2>2, <2>3, <2>5
    <3> QED
      BY <1>1, <2>1, <2>2, <3>1
  <2>6. Avail' <= FifoN
    BY <1>1, <2>1, <2>3, Sizes
  <2> QED
    BY <2>2, <2>4, <2>5, <2>6 DEF Packing
<1>5. CASE UNCHANGED <<sfifo, sfifo_head, sfifo_tail>>
  <2>1. /\ Avail' = a /\ \A i : At(i)' = At(i)
        /\ sfifo_tail' = sfifo_tail
    BY <1>5, FifoSame
  <2>2. lastid' = lastid \/ TxSends \/ TxFails
    BY CountMoves DEF Enables, Disables, PumpStages, PumpCounts,
                      TxCounts, count, flags
  <2>3. /\ \A i, j \in 0 .. Avail' - 1 : i < j => At(i)' < At(j)'
        /\ Avail' <= FifoN
    BY <1>1, <2>1
  <2>4. CASE TxTurnsToStream \/ TxRests
    <3>1. /\ tpc' \notin Packing /\ lastid' = lastid /\ Done' = 0 /\ Done = 0
      BY <2>4 DEF TxTurnsToStream, TxRests, Packing, Done, count
    <3> QED
      BY <1>1, <2>1, <2>3, <3>1 DEF Packing
  <2>5. CASE TxTakesPacket
    <3>1. /\ tpc' = "copy" /\ lastid' = lastid /\ Done' = 0 /\ Done = 0
          /\ n' <= a
      BY <2>5, PacketLength DEF TxTakesPacket, Done, count
    <3> QED
      BY <1>1, <2>1, <2>3, <3>1
  <2>6. CASE TxCopies
    <3>1. /\ tpc = "copy" /\ tpc' = "notify" /\ n' = n /\ lastid' = lastid
          /\ Done' = 0 /\ Done = 0
      BY <2>6 DEF TxCopies, Done, count
    <3>2. \A i \in 1 .. n : pkt'[i] = At(i - 1)
      BY <2>6, PacketIsFront
    <3> QED
      BY <1>1, <2>1, <2>3, <3>1, <3>2 DEF Packing
  <2>7. CASE TxSends \/ TxFails
    <3>1. /\ tpc = "notify" /\ tpc' \in {"count", "load"} /\ n' = n
          /\ lastid' = pkt[n] /\ Done' = n
      BY <2>7 DEF TxSends, TxFails, Done
    <3>2. n > 0 /\ n <= a
      BY <1>1, <3>1 DEF PacketInv, Packing
    <3>3. pkt[n] = At(n - 1) /\ n - 1 \in 0 .. a - 1
      BY <1>0, <1>1, <3>1, <3>2
    <3>4. ASSUME NEW i \in Done' .. Avail' - 1 PROVE lastid' < At(i)'
      <4>1. i \in 0 .. a - 1 /\ n - 1 < i
        BY <1>0, <2>1, <3>1, <3>2, <3>4
      <4> QED
        BY <1>1, <2>1, <3>1, <3>3, <4>1
    <3> QED
      BY <2>1, <2>3, <3>1, <3>2, <3>4
  <2>8. CASE TxCounts \/ TxLoadsTail
    <3>1. /\ tpc \in {"count", "load"} /\ n' = n /\ lastid' = lastid
          /\ tpc' \in {"load", "store"} /\ Done' = Done
          /\ tpc' = "store" => tread' = sfifo_tail
      BY <2>8 DEF TxCounts, TxLoadsTail, Done, count
    <3> QED
      BY <1>1, <2>1, <2>3, <3>1 DEF Packing
  <2>9. CASE TxFrees
    BY <1>4, <2>9
  <2>10. CASE UNCHANGED tx
    <3>1. /\ tpc' = tpc /\ n' = n /\ pkt' = pkt /\ tread' = tread /\ Done' = Done
      BY <2>10 DEF tx, Done
    <3>2. lastid' = lastid
      BY <2>2, <3>1 DEF TxSends, TxFails
    <3> QED
      BY <1>1, <2>1, <2>3, <3>1, <3>2
  <2> QED
    BY <2>4, <2>5, <2>6, <2>7, <2>8, <2>9, <2>10, TxMoves
<1> QED
  BY <1>2, <1>3, <1>4, <1>5, FifoMoves

-----------------------------------------------------------------------------
(* The count of the samples lost.                                          *)

(* What has been taken out of the FIFO's books before the FIFO shows it.   *)
InHand == IF tpc \in {"load", "store"} THEN n ELSE 0

LEMMA CounterAdds ==
  ASSUME NEW a \in Nat, NEW b \in Nat, NEW k \in Nat, Same(CounterMod, a, b)
  PROVE  Same(CounterMod, a + k, b + k)
<1>1. CounterMod \in Nat \ {0}
  BY Sizes
<1> QED
  BY <1>1, ModAdds

LEMMA CounterCancels ==
  ASSUME NEW a \in Nat, NEW b \in Nat, NEW k \in Nat,
         Same(CounterMod, a + k, b + k)
  PROVE  Same(CounterMod, a, b)
<1>1. CounterMod \in Nat \ {0}
  BY Sizes
<1> QED
  BY <1>1, ModCancels

(* k more samples, all of them counted as dropped.                         *)
LEMMA DroppedAdds ==
  ASSUME NEW e \in Nat, NEW d \in Nat, NEW x \in Nat, NEW a \in Nat,
         NEW k \in Nat, Same(CounterMod, e, d + x + a)
  PROVE  Same(CounterMod, e + k, d + Plus(x, k) + a)
<1>0. CounterMod \in Nat \ {0} /\ d + a \in Nat /\ x + k \in Nat /\ d + x + a \in Nat
  BY Sizes
<1> DEFINE f == d + x + a
<1>1. Same(CounterMod, e + k, f + k)
  <2>1. f \in Nat /\ Same(CounterMod, e, f)
    BY <1>0
  <2> HIDE DEF f
  <2> QED
    BY <2>1, CounterAdds
<1>2. (((x + k) % CounterMod) + (d + a)) % CounterMod = ((x + k) + (d + a)) % CounterMod
  BY <1>0, ModOfSum
<1> DEFINE s == Plus(x, k)
<1>3. s \in Nat /\ (s + (d + a)) % CounterMod = ((x + k) + (d + a)) % CounterMod
  <2>1. s \in Counters
    BY SumIsCounter
  <2> QED
    BY <1>2, <2>1 DEF Counters, Plus
<1> HIDE DEF s
<1>4. (x + k) + (d + a) = (d + x + a) + k /\ s + (d + a) = d + s + a
  BY <1>0, <1>3
<1> QED
  BY <1>1, <1>3, <1>4 DEF s, f, Same

LEMMA One == 1 \in Nat
  OBVIOUS

LEMMA LossNext ==
  Types /\ PacketInv /\ FifoInv /\ LossReported /\ [Next]_vars => LossReported'
<1> SUFFICES ASSUME Types, PacketInv, FifoInv, LossReported, [Next]_vars,
                    ~stolen', ~raced', sink'
             PROVE  Same(CounterMod, picked' + InHand',
                         delivered' + dropped' + Avail')
  BY DEF LossReported, InHand, Same
<1>0. /\ picked \in Nat /\ delivered \in Nat /\ dropped \in Nat /\ n \in Nat
      /\ Avail \in Nat /\ InHand \in Nat /\ CounterMod \in Nat \ {0}
      /\ dropped \in Counters
  BY AvailIsCounter, Sizes DEF Types, CountType, TxType, InHand, Counters
<1>1. CASE Enables
  <2>1. Avail' = 0
    <3>1. sfifo_head' = sfifo_head /\ sfifo_tail' = sfifo_head
      BY <1>1 DEF Enables
    <3> QED
      BY <3>1, DistanceToSelf DEF Avail, Types, FifoType
  <2>2. picked' = 0 /\ delivered' = 0 /\ dropped' = 0 /\ InHand' = 0
    BY <1>1 DEF Enables, InHand, tx, Packing
  <2>3. 0 + 0 + 0 = 0 /\ 0 + 0 = 0
    OBVIOUS
  <2> QED
    BY <2>1, <2>2, <2>3 DEF Same
<1>2. CASE Disables
  BY <1>2 DEF Disables
<1> SUFFICES ASSUME ~Enables, ~Disables
             PROVE  Same(CounterMod, picked' + InHand',
                         delivered' + dropped' + Avail')
  BY <1>1, <1>2
<1>3. ~stolen /\ ~raced /\ sink
  <2>1. /\ stolen' = stolen /\ sink' = sink
        /\ (raced' = raced) \/ PumpCounts \/ TxCounts
    BY CountMoves DEF PumpStages, PumpCounts, TxSends, TxFails, TxCounts,
                      count, flags
  <2>2. raced => raced'
    BY <2>1 DEF PumpCounts, TxCounts
  <2> QED
    BY <2>1, <2>2
<1> DEFINE e == picked + InHand
           a == Avail
           f == delivered + dropped + a
<1>4. Same(CounterMod, e, f) /\ e \in Nat /\ f \in Nat /\ a \in Nat
  BY <1>0, <1>3 DEF LossReported, InHand, Same
<1>5. CASE PumpStages
  <2>1. Avail' = a + 1 /\ picked' = picked + 1 /\ InHand' = InHand
        /\ delivered' = delivered /\ dropped' = dropped
    BY <1>5, StagedIsLast DEF PumpStages, tx, InHand
  <2>2. Same(CounterMod, e + 1, f + 1)
    <3> HIDE DEF e, f
    <3> QED
      BY <1>0, <1>4, One, CounterAdds
  <2>3. e + 1 = picked' + InHand' /\ f + 1 = delivered' + dropped' + Avail'
    <3> HIDE DEF a
    <3> QED
      BY <1>0, <1>4, <2>1
  <2> QED
    BY <2>2, <2>3
<1>6. CASE PumpCounts
  <2>1. /\ picked' = picked + 1 /\ InHand' = InHand /\ delivered' = delivered
        /\ dropped' = Plus(dropped, 1) /\ Avail' = a
    BY <1>6 DEF PumpCounts, tx, fifo, InHand, Avail
  <2>2. Same(CounterMod, e + 1, delivered + Plus(dropped, 1) + a)
    <3> HIDE DEF e, a
    <3> QED
      BY <1>0, <1>4, One, DroppedAdds DEF f
  <2>3. e + 1 = picked' + InHand'
    BY <1>0, <2>1
  <2> QED
    BY <2>1, <2>2, <2>3
<1>7. CASE TxSends
  <2>1. /\ picked' = picked /\ InHand = 0 /\ InHand' = n
        /\ delivered' = delivered + n /\ dropped' = dropped /\ Avail' = a
    BY <1>7 DEF TxSends, fifo, InHand, Avail
  <2>2. Same(CounterMod, e + n, f + n)
    <3> HIDE DEF e, f
    <3> QED
      BY <1>0, <1>4, One, CounterAdds
  <2>3. e + n = picked' + InHand' /\ f + n = delivered' + dropped' + Avail'
    <3> HIDE DEF a
    <3> QED
      BY <1>0, <1>4, <2>1
  <2> QED
    BY <2>2, <2>3
<1>8. CASE TxCounts
  <2>1. /\ picked' = picked /\ InHand = 0 /\ InHand' = n
        /\ delivered' = delivered /\ dropped' = Plus(dropped, n) /\ Avail' = a
    BY <1>8 DEF TxCounts, fifo, count, InHand, Avail
  <2>2. Same(CounterMod, e + n, delivered + Plus(dropped, n) + a)
    <3> HIDE DEF e, a
    <3> QED
      BY <1>0, <1>4, One, DroppedAdds DEF f
  <2>3. e + n = picked' + InHand'
    BY <1>0, <2>1
  <2> QED
    BY <2>1, <2>2, <2>3
<1>9. CASE TxFrees
  <2>1. tread = sfifo_tail /\ n <= a
    BY <1>3, <1>9 DEF FifoInv, TxFrees, Packing
  <2>2. /\ picked' = picked /\ InHand = n /\ InHand' = 0
        /\ delivered' = delivered /\ dropped' = dropped /\ Avail' = a - n
    BY <1>9, <2>1, FreedIsFront DEF TxFrees, count, InHand
  <2> DEFINE g == delivered + dropped + (a - n)
  <2>3. g \in Nat /\ g + n = f /\ e = picked + n /\ picked' + InHand' = picked
        /\ g = delivered' + dropped' + Avail'
    <3> HIDE DEF a
    <3> QED
      BY <1>0, <1>4, <2>1, <2>2
  <2> HIDE DEF g
  <2>4. Same(CounterMod, picked + n, g + n)
    <3> HIDE DEF e, f
    <3> QED
      BY <1>4, <2>3
  <2>5. Same(CounterMod, picked, g)
    BY <1>0, <2>3, <2>4, CounterCancels
  <2> QED
    BY <2>3, <2>5
<1>10. ~PumpStages /\ ~PumpCounts /\ ~TxSends /\ ~TxCounts /\ ~TxFrees
       => /\ picked' = picked /\ InHand' = InHand /\ delivered' = delivered
          /\ dropped' = dropped /\ Avail' = a
  <2> SUFFICES ASSUME ~PumpStages, ~PumpCounts, ~TxSends, ~TxCounts, ~TxFrees
               PROVE  /\ picked' = picked /\ InHand' = InHand
                      /\ delivered' = delivered /\ dropped' = dropped
                      /\ Avail' = a
    OBVIOUS
  <2>1. picked' = picked /\ delivered' = delivered /\ dropped' = dropped
    BY CountMoves DEF TxFails, count
  <2>2. Avail' = a
    BY FifoMoves, FifoSame
  <2>3. InHand' = InHand
    BY TxMoves DEF TxTurnsToStream, TxRests, TxTakesPacket, TxCopies, TxFails,
                   TxLoadsTail, tx, InHand
  <2> QED
    BY <2>1, <2>2, <2>3
<1>11. CASE ~PumpStages /\ ~PumpCounts /\ ~TxSends /\ ~TxCounts /\ ~TxFrees
  BY <1>4, <1>10, <1>11
<1> QED
  BY <1>5, <1>6, <1>7, <1>8, <1>9, <1>11

-----------------------------------------------------------------------------
(* The theorems.                                                           *)

LEMMA InitInv == Init => IInv
<1> SUFFICES ASSUME Init PROVE IInv
  OBVIOUS
<1> USE DEF Init
<1>1. Start \in Counters /\ 0 \in Counters
  BY StreamAssumption, Sizes DEF Counters
<1>2. Avail = 0
  BY <1>1, DistanceToSelf DEF Avail
<1>3. <<>> \in Seq(Nat)
  BY EmptySeq
<1>4. Len(<<>>) = 0
  OBVIOUS
<1>5. Types
  <2>1. FifoType
    BY <1>1 DEF FifoType
  <2>2. RadioType /\ PumpType
    BY Sizes DEF RadioType, PumpType
  <2>3. TxType
    BY <1>3, Sizes DEF TxType
  <2>4. CountType
    BY <1>1 DEF CountType
  <2> QED
    BY <2>1, <2>2, <2>3, <2>4 DEF Types
<1>6. PacketInv
  BY <1>4, Sizes DEF PacketInv, Packing
<1>7. FifoInv
  BY <1>2, Sizes DEF FifoInv, Packing, Done
<1>8. LossReported
  BY DEF LossReported
<1> QED
  BY <1>5, <1>6, <1>7, <1>8, TypeParts DEF IInv

LEMMA NextInv == IInv /\ [Next]_vars => IInv'
<1> SUFFICES ASSUME IInv, [Next]_vars PROVE IInv'
  OBVIOUS
<1>1. Types /\ PacketInv /\ FifoInv /\ LossReported
  BY TypeParts DEF IInv
<1>2. Types'
  BY <1>1, FifoTypeNext, RadioTypeNext, PumpTypeNext, TxTypeNext, CountTypeNext
     DEF Types
<1>3. PacketInv' /\ FifoInv' /\ LossReported'
  BY <1>1, PacketNext, FifoNext, LossNext
<1> QED
  BY <1>2, <1>3, TypePartsNext DEF IInv

(* The inductive invariant holds in every reachable state.                 *)
THEOREM Inductive == Spec => []IInv
  BY InitInv, NextInv, PTL DEF Spec

(* Counters stay 32 bits wide, and of tx_credits none is lost and none     *)
(* invented: what is not there is in the stack with a notification.        *)
THEOREM TypeCorrect == Spec => []TypeOK
<1>1. IInv => TypeOK
  BY DEF IInv
<1> QED
  BY <1>1, Inductive, PTL

(* sfifo_head never overtakes sfifo_tail, and the TX thread never sends a  *)
(* sample twice, out of order or after stream_sink has overwritten it, but *)
(* for a subscription that moves the tail under its packet.                *)
THEOREM AlwaysInOrder == Spec => []StreamInOrder
<1>1. ASSUME IInv PROVE StreamInOrder
  <2>0. Types /\ PacketInv /\ FifoInv /\ Avail \in Nat /\ n \in Nat
    BY <1>1, TypeParts, AvailIsCounter DEF IInv, Types, TxType
  <2>1. FifoBounded
    BY <2>0 DEF FifoInv, FifoBounded
  <2>2. ASSUME ~stolen, tpc = "notify", NEW i \in 1 .. n
        PROVE  pkt[i] > (IF i = 1 THEN lastid ELSE pkt[i - 1])
    <3> DEFINE a == Avail
    <3>1. /\ n <= a /\ Done = 0
          /\ \A k, j \in 0 .. a - 1 : k < j => At(k) < At(j)
          /\ \A k \in Done .. a - 1 : lastid < At(k)
          /\ \A k \in 1 .. n : pkt[k] = At(k - 1)
      BY <2>0, <2>2 DEF FifoInv, Packing, Done
    <3>2. a \in Nat /\ n \in Nat /\ FifoType /\ lastid \in Nat
      BY <2>0 DEF Types, CountType
    <3> HIDE DEF a
    <3>3. i - 1 \in 0 .. a - 1 /\ i - 1 \in Nat /\ pkt[i] = At(i - 1)
      BY <2>2, <3>1, <3>2
    <3>4. At(i - 1) \in Nat
      BY <3>2, <3>3, PlaceIsSample
    <3>5. CASE i = 1
      BY <3>1, <3>2, <3>3, <3>4, <3>5
    <3>6. CASE i # 1
      <4>1. /\ i - 1 \in 1 .. n /\ (i - 1) - 1 \in 0 .. a - 1
            /\ (i - 1) - 1 < i - 1 /\ (i - 1) - 1 \in Nat
        BY <2>2, <3>1, <3>2, <3>3, <3>6
      <4>2. pkt[i - 1] = At((i - 1) - 1) /\ At((i - 1) - 1) \in Nat
        BY <3>1, <3>2, <4>1, PlaceIsSample
      <4>3. At((i - 1) - 1) < At(i - 1)
        BY <3>1, <3>3, <4>1
      <4> QED
        BY <3>3, <3>4, <3>6, <4>2, <4>3
    <3> QED
      BY <3>5, <3>6
  <2> QED
    BY <2>1, <2>2 DEF StreamInOrder
<1> QED
  BY <1>1, Inductive, PTL

(* What the pump picked for a subscriber it gets, has waiting, or is told  *)
(* of in stream_dropped, whatever the radio does and however often the     *)
(* counters wrap, unless two threads updated stream_dropped at once.       *)
THEOREM LossesReported == Spec => []LossReported
<1>1. IInv => LossReported
  BY DEF IInv
<1> QED
  BY <1>1, Inductive, PTL
=============================================================================
