------------------------------- MODULE Stream -------------------------------
(***************************************************************************)
(* The live stream (src/src/ble/ble_transport.c): the pump stages the      *)
(* samples it picks into a FIFO, the TX thread packs them into             *)
(* notifications, at most Credits of which are in flight, and a subscriber *)
(* starts afresh.                                                          *)
(*                                                                         *)
(* The pump outranks the TX thread and does not block in the sink; the     *)
(* handlers of the BT RX thread outrank both.  Which samples the           *)
(* decimation (and its adaptation to the link) skips does not matter here: *)
(* a sample is one it picks.                                               *)
(***************************************************************************)
EXTENDS Naturals, Sequences

CONSTANTS
    FifoN,          \* SFIFO_N
    PktMax,         \* STREAM_MAX_SAMPLES
    CallMax,        \* samples in one call of the sink
    MsgN,           \* MSGQ_N
    Credits,        \* tx_credits at boot
    CounterMod,     \* counters are 32 bits wide: 2^32
    Start,          \* where head and tail stand, after a long run
    MaxSamples,     \* bound: samples picked
    MaxSubs,        \* bound: subscriptions
    MaxMsgs         \* bound: message lines

ASSUME StreamAssumption ==
    /\ {FifoN, PktMax, CallMax, MsgN, Credits, CounterMod} \subseteq Nat \ {0}
    /\ CounterMod % FifoN = 0 /\ CounterMod > FifoN
    /\ Start \in 0..CounterMod - 1

VARIABLES
    sink,           \* the pump has a sink to call: the stream is on
    sfifo, sfifo_head, sfifo_tail,
    aged,           \* 100 ms have passed since sfifo_ts
    dropped,        \* stream_dropped
    msgs,           \* lines in msgq
    credits, air,   \* tx_credits, notifications in the stack
    ppc, left, pread,            \* the pump, in the sink
    tpc, n, pkt, tread,          \* the TX thread
    (* history *)
    picked, delivered,  \* samples since the stream was last enabled
    next, lastid,       \* number of the next sample, of the last delivered
    stolen,             \* the FIFO was emptied under a packet of the TX thread
    raced,              \* an update of stream_dropped was lost
    subs, lines

fifo    == <<sfifo, sfifo_head, sfifo_tail, aged>>
radio   == <<credits, air>>
pump    == <<ppc, left, pread>>
tx      == <<tpc, n, pkt, tread>>
count   == <<picked, delivered, next, lastid>>
flags   == <<stolen, raced>>
bounds  == <<subs, lines>>
vars == <<sink, fifo, dropped, msgs, radio, pump, tx, count, flags, bounds>>

-----------------------------------------------------------------------------
Plus(a, b)  == (a + b) % CounterMod
Minus(a, b) == (a + CounterMod - b) % CounterMod
Avail == Minus(sfifo_head, sfifo_tail)
Packing == {"copy", "notify", "count", "load", "store"}

-----------------------------------------------------------------------------
(* The handlers.                                                           *)

Bounded == subs < MaxSubs /\ subs' = subs + 1 /\ lines' = lines

(* ble_transport_stream_enable(true), for a new subscriber.                *)
Enables ==
    /\ Bounded
    /\ ~sink /\ sink' = TRUE
    /\ sfifo_tail' = sfifo_head
    /\ dropped' = 0
    /\ picked' = 0 /\ delivered' = 0
    /\ stolen' = (stolen \/ tpc \in Packing)
    /\ UNCHANGED <<sfifo, sfifo_head, aged, msgs, radio, pump, tx, next,
                   lastid, raced>>

Disables ==
    /\ sink /\ sink' = FALSE
    /\ UNCHANGED <<fifo, dropped, msgs, radio, pump, tx, count, flags,
                   bounds>>

(* ble_msg, by any thread: a line is dropped when four are waiting.        *)
Says ==
    /\ lines < MaxMsgs /\ lines' = lines + 1
    /\ msgs' = IF msgs < MsgN THEN msgs + 1 ELSE msgs
    /\ UNCHANGED <<sink, fifo, dropped, radio, pump, tx, count, flags, subs>>

(* A notification has left: tx_sent_cb.                                    *)
Sent ==
    /\ air > 0
    /\ air' = air - 1
    /\ credits' = IF credits < Credits THEN credits + 1 ELSE credits
    /\ UNCHANGED <<sink, fifo, dropped, msgs, pump, tx, count, flags, bounds>>

Ages ==
    /\ ~aged /\ aged' = TRUE
    /\ UNCHANGED <<sink, sfifo, sfifo_head, sfifo_tail, dropped, msgs,
                   radio, pump, tx, count, flags, bounds>>

-----------------------------------------------------------------------------
(* stream_sink, in the pump.                                               *)

(* The pump has read the pointer to the sink; the decimation picks k of    *)
(* the samples in hand, often none.                                        *)
PumpCalls(k) ==
    /\ ppc = "idle" /\ sink
    /\ next + k <= MaxSamples + 1
    /\ ppc' = "sink" /\ left' = k
    /\ UNCHANGED <<sink, fifo, dropped, msgs, radio, pread, tx, count,
                   flags, bounds>>

(* Mutant: one sample too many is staged.                                  *)
FifoFull_Late == Avail > FifoN
FifoFull == Avail >= FifoN

PumpStages ==
    /\ ppc = "sink" /\ left > 0 /\ ~FifoFull
    /\ sfifo' = [sfifo EXCEPT ![sfifo_head % FifoN] = next]
    /\ sfifo_head' = Plus(sfifo_head, 1)
    /\ aged' = (aged /\ Avail # 0)
    /\ left' = left - 1
    /\ picked' = picked + 1 /\ next' = next + 1
    /\ UNCHANGED <<sink, sfifo_tail, dropped, msgs, radio, ppc, pread, tx,
                   delivered, lastid, flags, bounds>>

PumpFindsFull ==
    /\ ppc = "sink" /\ left > 0 /\ FifoFull
    /\ ppc' = "drop" /\ pread' = dropped
    /\ UNCHANGED <<sink, fifo, dropped, msgs, radio, left, tx, count, flags,
                   bounds>>

PumpCounts ==
    /\ ppc = "drop"
    /\ dropped' = Plus(pread, 1)
    /\ raced' = (raced \/ pread # dropped)
    /\ ppc' = "sink" /\ left' = left - 1 /\ pread' = 0
    /\ picked' = picked + 1 /\ next' = next + 1
    /\ UNCHANGED <<sink, fifo, msgs, radio, tx, delivered, lastid, stolen,
                   bounds>>

PumpReturns ==
    /\ ppc = "sink" /\ left = 0 /\ ppc' = "idle"
    /\ UNCHANGED <<sink, fifo, dropped, msgs, radio, left, pread, tx, count,
                   flags, bounds>>

-----------------------------------------------------------------------------
(* tx_thread, while the pump sleeps.                                       *)

CanTx == ppc = "idle"

(* tx_notify: handed to the stack, or given up for want of a credit or by  *)
(* an error, with the credit returned.                                     *)
Handed == credits > 0 /\ credits' = credits - 1 /\ air' = air + 1

(* Mutant: a credit is returned that was not taken.                        *)
GivenUp_Gives == credits' = credits + 1 /\ air' = air
GivenUp == UNCHANGED radio

(* Messages first.                                                         *)
TxSendsMessage ==
    /\ tpc = "msgs" /\ msgs > 0 /\ CanTx
    /\ Handed \/ GivenUp
    /\ msgs' = msgs - 1
    /\ UNCHANGED <<sink, fifo, dropped, pump, tx, count, flags, bounds>>

TxTurnsToStream ==
    /\ tpc = "msgs" /\ msgs = 0 /\ CanTx
    /\ tpc' = "stream"
    /\ UNCHANGED <<sink, fifo, dropped, msgs, radio, pump, n, pkt, tread,
                   count, flags, bounds>>

(* Mutant: a partial packet is never sent.                                 *)
PacketDue_Full == Avail >= PktMax
(* Full packets eagerly, partial ones after 100 ms.                        *)
PacketDue == Avail >= PktMax \/ (Avail > 0 /\ aged)

TxRests ==
    /\ tpc = "stream" /\ ~PacketDue /\ CanTx
    /\ tpc' = "msgs"
    /\ UNCHANGED <<sink, fifo, dropped, msgs, radio, pump, n, pkt, tread,
                   count, flags, bounds>>

TxTakesPacket ==
    /\ tpc = "stream" /\ PacketDue /\ CanTx
    /\ n' = IF Avail < PktMax THEN Avail ELSE PktMax
    /\ tpc' = "copy"
    /\ UNCHANGED <<sink, fifo, dropped, msgs, radio, pump, pkt, tread,
                   count, flags, bounds>>

TxCopies ==
    /\ tpc = "copy" /\ CanTx
    /\ pkt' = [i \in 1..n |-> sfifo[(sfifo_tail + i - 1) % FifoN]]
    /\ tpc' = "notify"
    /\ UNCHANGED <<sink, fifo, dropped, msgs, radio, pump, n, tread, count,
                   flags, bounds>>

TxSends ==
    /\ tpc = "notify" /\ CanTx
    /\ Handed
    /\ tpc' = "load" /\ pkt' = <<>>
    /\ delivered' = delivered + n /\ lastid' = pkt[n]
    /\ UNCHANGED <<sink, fifo, dropped, msgs, pump, n, tread, picked, next,
                   flags, bounds>>

(* Mutant: the samples of a failed packet are not counted.                 *)
TxFails_Silent ==
    /\ tpc = "notify" /\ CanTx
    /\ GivenUp
    /\ tpc' = "load" /\ pkt' = <<>> /\ lastid' = pkt[n]
    /\ UNCHANGED <<sink, fifo, dropped, msgs, pump, n, tread, picked,
                   delivered, next, flags, bounds>>

(* `stream_dropped += n` is a load and a store.                            *)
TxFails ==
    /\ tpc = "notify" /\ CanTx
    /\ GivenUp
    /\ tpc' = "count" /\ pkt' = <<>> /\ tread' = dropped
    /\ lastid' = pkt[n]
    /\ UNCHANGED <<sink, fifo, dropped, msgs, pump, n, picked, delivered,
                   next, flags, bounds>>

TxCounts ==
    /\ tpc = "count" /\ CanTx
    /\ dropped' = Plus(tread, n)
    /\ raced' = (raced \/ tread # dropped)
    /\ tpc' = "load" /\ tread' = 0
    /\ UNCHANGED <<sink, fifo, msgs, radio, pump, n, pkt, count, stolen,
                   bounds>>

(* `sfifo_tail = sfifo_tail + n` as well.                                  *)
TxLoadsTail ==
    /\ tpc = "load" /\ CanTx
    /\ tread' = sfifo_tail
    /\ tpc' = "store"
    /\ UNCHANGED <<sink, fifo, dropped, msgs, radio, pump, n, pkt, count,
                   flags, bounds>>

TxFrees ==
    /\ tpc = "store" /\ CanTx
    /\ sfifo_tail' = Plus(tread, n)
    /\ aged' = FALSE
    /\ tpc' = "stream" /\ n' = 0 /\ tread' = 0
    /\ UNCHANGED <<sink, sfifo, sfifo_head, dropped, msgs, radio, pump, pkt,
                   count, flags, bounds>>

-----------------------------------------------------------------------------
Init ==
    /\ sink = FALSE
    /\ sfifo = [i \in 0..FifoN - 1 |-> 0]
    /\ sfifo_head = Start /\ sfifo_tail = Start /\ aged = TRUE
    /\ dropped = 0 /\ msgs = 0 /\ credits = Credits /\ air = 0
    /\ ppc = "idle" /\ left = 0 /\ pread = 0
    /\ tpc = "msgs" /\ n = 0 /\ pkt = <<>> /\ tread = 0
    /\ picked = 0 /\ delivered = 0 /\ next = 1 /\ lastid = 0
    /\ stolen = FALSE /\ raced = FALSE
    /\ subs = 0 /\ lines = 0

Handlers == Enables \/ Disables \/ Says
Pump == PumpStages \/ PumpFindsFull \/ PumpCounts \/ PumpReturns
Tx   == \/ TxSendsMessage \/ TxTurnsToStream \/ TxTakesPacket
        \/ TxCopies \/ TxSends \/ TxFails \/ TxCounts \/ TxLoadsTail \/ TxFrees
        \/ TxRests

Next == \/ Handlers \/ Sent \/ Ages \/ Pump \/ Tx
        \/ \E k \in 0..CallMax : PumpCalls(k)

Spec == Init /\ [][Next]_vars

(* The pump finishes its call.  The TX thread goes on in between: the pump *)
(* sleeps for milliseconds after each.  Time passes.                       *)
FairSpec == Spec /\ WF_vars(Pump) /\ SF_vars(Tx) /\ WF_vars(Ages)

-----------------------------------------------------------------------------
(* Correctness.                                                            *)

(* Type correctness; at most Credits notifications are in flight.          *)
TypeOK ==
    /\ sink \in BOOLEAN /\ aged \in BOOLEAN
    /\ sfifo \in [0..FifoN - 1 -> Nat]
    /\ {sfifo_head, sfifo_tail, dropped} \subseteq 0..CounterMod - 1
    /\ msgs \in 0..MsgN
    /\ credits \in Nat /\ air \in Nat /\ credits + air = Credits
    /\ ppc \in {"idle", "sink", "drop"} /\ left \in 0..CallMax /\ pread \in Nat
    /\ tpc \in {"msgs", "stream"} \union Packing
    /\ n \in 0..PktMax /\ pkt \in Seq(Nat) /\ tread \in Nat
    /\ {picked, delivered, next, lastid} \subseteq Nat
    /\ {stolen, raced} \subseteq BOOLEAN

(* The FIFO holds at most SFIFO_N samples, its tail never passing its head *)
(* ("SPSC FIFO": the pump moves the head, the TX thread the tail), as long *)
(* as no subscription begins while the TX thread has a packet in hand:     *)
(* stream_enable moves the tail as well.                                   *)
FifoBounded == ~stolen => Avail <= FifoN

(* The FIFO is bounded, and a packet holds samples in the order in which   *)
(* they were picked, newer than all before it: none is sent twice and none *)
(* is overwritten while it is copied (same proviso).                       *)
StreamInOrder ==
    /\ FifoBounded
    /\ ~stolen /\ tpc = "notify" =>
        \A i \in 1..n : pkt[i] > (IF i = 1 THEN lastid ELSE pkt[i - 1])

(* What the pump picked for a subscriber is delivered, in the FIFO or in   *)
(* the count of dropped samples that each packet carries (modulo 2^32),    *)
(* where no two threads updated that count at once.                        *)
LossReported ==
    ~stolen /\ ~raced /\ sink =>
        (picked + (IF tpc \in {"load", "store"} THEN n ELSE 0)) % CounterMod
            = (delivered + dropped + Avail) % CounterMod

(* A staged sample does not wait for ever ("full ones eagerly, partials    *)
(* after 100 ms").                                                         *)
StreamFlows == Avail > 0 ~> tpc = "load" \/ Avail = 0
=============================================================================
