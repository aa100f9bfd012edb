----------------------------- MODULE DumpProofs -----------------------------
(***************************************************************************)
(* The inductive invariant of Dump: whatever the dump thread reads, has in *)
(* hand or has sent continues what the host has already.                   *)
(***************************************************************************)
EXTENDS Dump, SequenceTheorems, TLAPS

Reqs   == [session : Sessions, off : 0 .. Length, len : 0 .. Length]
Units  == Sessions \X Offsets
Chunks == [off : 0 .. Length, data : Seq(Units), last : BOOLEAN]

(* TypeOK by the groups of variables, and what is in the stack.            *)
LogType    == count \in [Sessions -> 0 .. Length] /\ stopping \in BOOLEAN
AskedType  == sem \in {0, 1} /\ abort \in BOOLEAN /\ req \in Reqs
ThreadType == /\ dpc \in {"wait", "clear", "request"} \union Working
              /\ todo \in Reqs /\ got \subseteq Fields /\ hand \in Chunks
RadioType  == credits \in 0 .. Credits /\ air \in Seq(Chunks) /\ link \in BOOLEAN
HostType   == /\ hpc \in {"idle", "waiting", "done", "failed", "erased"}
              /\ target \in Sessions /\ expected \in 0 .. Length
              /\ buf \in [Offsets -> Units \union {None}]
              /\ max_end \in 0 .. expected /\ resumes \in 0 .. MaxResumes
FlagType   == /\ foreign \in BOOLEAN /\ hasty \in BOOLEAN /\ crowded \in BOOLEAN
              /\ late \in {0, 1}
Types      == /\ LogType /\ AskedType /\ ThreadType /\ RadioType /\ HostType
              /\ FlagType

(* The data of a chunk are those of one session from its offset on.        *)
IsOf(c, s) == \A i \in 1 .. Len(c.data) : c.data[i] = <<s, c.off + i - 1>>

(* A chunk in hand is the next of what is to do; without a link there is   *)
(* nothing in the stack.                                                   *)
ThreadInv ==
    /\ dpc # "request" => got = {}
    /\ ~link => air = <<>>
    /\ dpc \in {"credit", "send"} =>
         /\ hand.off = todo.off /\ IsOf(hand, todo.session)
         /\ Len(hand.data) <= todo.len
         /\ todo.off + Len(hand.data) <= Length

(* After the chunk that was already in hand none goes out.                 *)
CancelInv ==
    late = 1 => /\ dpc \notin {"credit", "send"}
                /\ dpc = "loop" => abort

(* A credit is free, with the thread or in the stack, but for a refill.    *)
FlightInv ==
    ~crowded => credits + Len(air) + (IF dpc = "send" THEN 1 ELSE 0) <= Credits

(* The host, having m of the e it expects, will have reached off when the  *)
(* first n chunks of a have arrived.                                       *)
EndOf(c, e) == Smaller(c.off + Len(c.data), e)
Reaches(a, e, m, off, n) ==
    \/ Smaller(off, e) <= m
    \/ \E j \in 1 .. n : Smaller(off, e) <= EndOf(a[j], e)
Continues(off, n) == Reaches(air, expected, max_end, off, n)
End(c) == EndOf(c, expected)

(* The dump lost its link, and with it what it had sent: it will not send  *)
(* again, for it is cancelled, or waits for a credit nobody returns.       *)
Doomed ==
    IF link THEN dpc = "credit" /\ credits = 0 /\ air = <<>>
    ELSE dpc = "loop" => abort

(* All that is under way for the host's dump continues what it has: the    *)
(* request, what the thread has read of it, what it has left to do, and    *)
(* what is in the stack.                                                   *)
ReqInv   == req.session = target /\ req.off <= max_end
GotInv   == dpc = "request" => /\ "session" \in got => todo.session = target
                               /\ "off" \in got => todo.off <= max_end
TodoInv  == dpc \in Working => /\ todo.session = target
                               /\ Doomed \/ Continues(todo.off, Len(air))
StackInv == \A k \in 1 .. Len(air) :
                IsOf(air[k], target) /\ Continues(air[k].off, k - 1)
DumpInv  == hpc = "waiting" /\ ~foreign =>
                ReqInv /\ GotInv /\ TodoInv /\ StackInv

(* What the host expects is what the log holds, unless it was hasty.       *)
HostInv ==
    /\ hpc = "done" => max_end = expected
    /\ hpc \in {"waiting", "done"} /\ ~hasty =>
         count[target] = expected /\ (stopping => target # Newest)

IInv == /\ Types /\ ThreadInv /\ CancelInv /\ FlightInv /\ DumpInv /\ HostInv
        /\ HostHasSession
-----------------------------------------------------------------------------
(* The operators of the model.                                             *)

LEMMA Sizes ==
  /\ Length \in Nat \ {0} /\ Chunk \in Nat \ {0} /\ Credits \in Nat \ {0}
  /\ MaxResumes \in Nat /\ Newest \in Sessions
<1>1. \A n \in {Length, Chunk, Credits} : n \in Nat \ {0}
  BY DumpAssumption
<1> QED
  BY <1>1, DumpAssumption

LEMMA SmallerIs ==
  ASSUME NEW a \in Nat, NEW b \in Nat
  PROVE  /\ Smaller(a, b) \in Nat /\ Smaller(a, b) <= a /\ Smaller(a, b) <= b
         /\ Smaller(a, b) = a \/ Smaller(a, b) = b
  BY DEF Smaller

LEMMA SameEnd ==
  ASSUME NEW a \in Nat, NEW b \in Nat, 1 .. a = 1 .. b
  PROVE  a = b
<1>1. a > 0 => a \in 1 .. b
  OBVIOUS
<1>2. b > 0 => b \in 1 .. a
  OBVIOUS
<1> QED
  BY <1>1, <1>2

(* What a read returns is of the session asked for, from the offset on, at *)
(* most as much as wanted, and ends with the session at the latest.        *)
LEMMA ReadableIs ==
  ASSUME LogType, NEW s \in Sessions, NEW off \in 0 .. Length, NEW want \in Nat
  PROVE  LET d == Readable(s, off, want)
         IN  /\ d \in Seq(Units) /\ Len(d) <= want /\ off + Len(d) <= Length
             /\ \A i \in 1 .. Len(d) : d[i] = <<s, off + i - 1>>
<1> DEFINE d == Readable(s, off, want)
<1>1. count[s] \in 0 .. Length /\ Length \in Nat /\ off \in Nat
  BY Sizes DEF LogType
<1>2. CASE off >= count[s]
  <2>1. d = <<>>
    BY <1>2 DEF Readable
  <2> QED
    BY <1>1, <2>1
<1>3. CASE ~(off >= count[s])
  <2> DEFINE m == Smaller(want, count[s] - off)
  <2>1. d = [i \in 1 .. m |-> <<s, off + i - 1>>]
    BY <1>3 DEF Readable
  <2>2. m \in Nat /\ m <= want /\ off + m <= count[s]
    <3>1. count[s] - off \in Nat
      BY <1>1, <1>3
    <3>2. m \in Nat /\ m <= want /\ m <= count[s] - off
      BY <3>1, SmallerIs
    <3> HIDE DEF m
    <3> QED
      BY <1>1, <3>2
  <2> HIDE DEF m
  <2>3. \A i \in 1 .. m : <<s, off + i - 1>> \in Units
    <3> SUFFICES ASSUME NEW i \in 1 .. m PROVE off + i - 1 \in Offsets
      BY DEF Units
    <3> QED
      BY <1>1, <2>2 DEF Offsets
  <2>4. d \in [1 .. m -> Units]
    BY <2>1, <2>3
  <2>5. d \in Seq(Units) /\ Len(d) = m
    <3> HIDE DEF Units
    <3>1. d \in Seq(Units)
      BY <2>2, <2>4
    <3>2. Len(d) \in Nat /\ DOMAIN d = 1 .. Len(d) /\ DOMAIN d = 1 .. m
      BY <3>1, <2>4, LenProperties
    <3>3. Len(d) = m
      BY <2>2, <3>2, SameEnd
    <3> QED
      BY <3>1, <3>3
  <2>6. \A i \in 1 .. Len(d) : d[i] = <<s, off + i - 1>>
    BY <2>1, <2>5
  <2>7. Len(d) <= want /\ off + Len(d) <= Length
    BY <1>1, <2>2, <2>5
  <2> QED
    BY <2>5, <2>6, <2>7
<1> QED
  BY <1>2, <1>3

(* The oldest chunk, and what is behind it.                                *)
LEMMA TailIs ==
  ASSUME air \in Seq(Chunks), air # <<>>
  PROVE  /\ Tail(air) \in Seq(Chunks) /\ Head(air) = air[1] /\ air[1] \in Chunks
         /\ Len(air) \in Nat /\ Len(air) >= 1 /\ Len(Tail(air)) = Len(air) - 1
         /\ \A k \in 1 .. Len(air) - 1 : Tail(air)[k] = air[k + 1]
<1> HIDE DEF Chunks
<1>1. Len(air) \in Nat /\ Len(air) >= 1
  BY EmptySeq, LenProperties
<1>2. Tail(air) \in Seq(Chunks) /\ Len(Tail(air)) = Len(air) - 1
      /\ \A k \in 1 .. Len(air) - 1 : Tail(air)[k] = air[k + 1]
  BY HeadTailProperties
<1>3. Head(air) = air[1] /\ air[1] \in Chunks
  BY <1>1, HeadTailProperties, ElementOfSeq
<1> QED
  BY <1>1, <1>2, <1>3

LEMMA AppendIs ==
  ASSUME air \in Seq(Chunks), NEW c \in Chunks
  PROVE  /\ Append(air, c) \in Seq(Chunks) /\ Len(air) \in Nat
         /\ Len(Append(air, c)) = Len(air) + 1
         /\ Append(air, c)[Len(air) + 1] = c
         /\ \A k \in 1 .. Len(air) : Append(air, c)[k] = air[k]
<1> HIDE DEF Chunks
<1> QED
  BY AppendProperties, LenProperties

-----------------------------------------------------------------------------
(* Who writes what.                                                        *)

Ends == DumpEnds \/ DumpReadFails \/ DumpStalls \/ DumpSendFails
Dumps == \E s \in Sessions : HostDumps(s)
Reads == \E f \in Fields : DumpReadsRequest(f)

LEMMA LogMoves == [Next]_vars => \/ LogAppends \/ StopReturns \/ HostErases
                                 \/ UNCHANGED log
  BY DEF Next, DumpThread, Host, vars, DumpWakes, DumpClearsAbort,
         DumpReadsRequest, DumpRefills, DumpEnds, DumpReadsChunk, DumpReadFails,
         DumpTakesCredit, DumpStalls, DumpSends, DumpSendFails, HostDumps,
         HostResumes, HostGivesUp, Arrives, Disconnects, Connects

LEMMA AskedMoves ==
  [Next]_vars => \/ Dumps \/ HostResumes \/ DumpWakes \/ DumpClearsAbort
                 \/ Disconnects \/ UNCHANGED asked
  BY DEF Next, DumpThread, Host, vars, asked, Dumps, DumpReadsRequest,
         DumpRefills, DumpEnds, DumpReadsChunk, DumpReadFails, DumpTakesCredit,
         DumpStalls, DumpSends, DumpSendFails, HostGivesUp, Arrives, HostErases,
         LogAppends, StopReturns, Connects

LEMMA ThreadMoves == [Next]_vars => DumpThread \/ UNCHANGED thread
  BY DEF Next, Host, vars, thread, HostDumps, HostResumes, HostGivesUp, HostErases,
         Arrives, LogAppends, StopReturns, Disconnects, Connects

LEMMA RadioMoves ==
  [Next]_vars => \/ DumpRefills \/ DumpTakesCredit \/ DumpSends \/ DumpSendFails
                 \/ Arrives \/ Disconnects \/ Connects \/ UNCHANGED radio
  BY DEF Next, DumpThread, Host, vars, radio, DumpWakes, DumpClearsAbort,
         DumpReadsRequest, DumpEnds, DumpReadsChunk, DumpReadFails, DumpStalls,
         HostDumps, HostResumes, HostGivesUp, HostErases, LogAppends, StopReturns

LEMMA HostMoves == [Next]_vars => Host \/ Arrives \/ UNCHANGED host
  BY DEF Next, DumpThread, vars, host, DumpWakes, DumpClearsAbort,
         DumpReadsRequest, DumpRefills, DumpEnds, DumpReadsChunk, DumpReadFails,
         DumpTakesCredit, DumpStalls, DumpSends, DumpSendFails, LogAppends,
         StopReturns, Disconnects, Connects

LEMMA FlagMoves ==
  [Next]_vars => \/ Dumps \/ HostResumes \/ DumpRefills \/ DumpSends
                 \/ Disconnects \/ UNCHANGED flags
  BY DEF Next, DumpThread, Host, vars, flags, Dumps, DumpWakes, DumpClearsAbort,
         DumpReadsRequest, DumpEnds, DumpReadsChunk, DumpReadFails,
         DumpTakesCredit, DumpStalls, DumpSendFails, HostGivesUp, Arrives,
         HostErases, LogAppends, StopReturns, Connects

-----------------------------------------------------------------------------
(* Types.                                                                  *)

LEMMA NoneHeld == NoReq \in Reqs /\ NoChunk \in Chunks /\ NoChunk.data = <<>>
<1>1. NoReq \in Reqs
  BY Sizes DEF NoReq, Reqs
<1>2. <<>> \in Seq(Units)
  OBVIOUS
<1>3. NoChunk \in Chunks
  <2> HIDE DEF Units
  <2> QED
    BY <1>2, Sizes DEF NoChunk, Chunks
<1> QED
  BY <1>1, <1>3 DEF NoChunk

LEMMA LogTypeNext == ASSUME Types, [Next]_vars PROVE LogType'
<1> USE DEF Types, LogType
<1>1. CASE LogAppends
  BY <1>1, Sizes DEF LogAppends
<1>2. CASE StopReturns
  BY <1>2 DEF StopReturns
<1>3. CASE HostErases
  <2>1. 0 \in 0 .. Length
    BY Sizes
  <2> QED
    BY <1>3, <2>1 DEF HostErases
<1>4. CASE UNCHANGED log
  BY <1>4 DEF log
<1> QED
  BY <1>1, <1>2, <1>3, <1>4, LogMoves

(* What a request asks for lies in the session.                            *)
LEMMA RequestTyped ==
  ASSUME NEW s \in Sessions, NEW from \in 0 .. Length, NEW len \in 0 .. Length,
         Request(s, from, len)
  PROVE  AskedType'
  BY DEF Request, AskedType, Reqs

LEMMA AskedTypeNext == ASSUME Types, [Next]_vars PROVE AskedType'
<1> USE DEF Types
<1>1. CASE Dumps
  <2>1. PICK s \in Sessions : HostDumps(s)
    BY <1>1 DEF Dumps
  <2>2. count[s] \in 0 .. Length /\ 0 \in 0 .. Length
    BY Sizes DEF LogType
  <2> QED
    BY <2>1, <2>2, RequestTyped DEF HostDumps
<1>2. CASE HostResumes
  <2>1. max_end \in 0 .. Length /\ expected - max_end \in 0 .. Length
    BY Sizes DEF HostType
  <2> QED
    BY <1>2, <2>1, RequestTyped DEF HostResumes, ResumeFrom, HostType
<1>3. CASE DumpWakes
  BY <1>3 DEF DumpWakes, AskedType
<1>4. CASE DumpClearsAbort
  BY <1>4 DEF DumpClearsAbort, AskedType
<1>5. CASE Disconnects
  BY <1>5 DEF Disconnects, AskedType
<1>6. CASE UNCHANGED asked
  BY <1>6 DEF asked, AskedType
<1> QED
  BY <1>1, <1>2, <1>3, <1>4, <1>5, <1>6, AskedMoves

(* The chunk that is read is of what is to do, and no more than that.      *)
LEMMA ReadsChunk ==
  ASSUME LogType, ThreadType, DumpReadsChunk
  PROVE  /\ hand' \in Chunks /\ hand'.off = todo.off
         /\ IsOf(hand', todo.session) /\ Len(hand'.data) <= todo.len
         /\ todo.off + Len(hand'.data) <= Length
<1> DEFINE want == Smaller(todo.len, Chunk)
           data == Readable(todo.session, todo.off, want)
           last == Len(data) < want \/ Len(data) = todo.len
<1>1. /\ todo.session \in Sessions /\ todo.off \in 0 .. Length
      /\ todo.len \in 0 .. Length /\ todo.len \in Nat
  BY Sizes DEF ThreadType, Reqs
<1>2. want \in Nat /\ want <= todo.len
  BY <1>1, Sizes, SmallerIs
<1>3. hand' = [off |-> todo.off, data |-> data, last |-> last]
  BY DEF DumpReadsChunk
<1>d. data = Readable(todo.session, todo.off, want)
  OBVIOUS
<1> HIDE DEF want, data
<1>4. /\ data \in Seq(Units) /\ Len(data) <= want /\ todo.off + Len(data) <= Length
      /\ \A i \in 1 .. Len(data) : data[i] = <<todo.session, todo.off + i - 1>>
  <2> HIDE DEF Units, last
  <2>1. todo.session \in Sessions /\ todo.off \in 0 .. Length /\ want \in Nat
    BY <1>1, <1>2
  <2> QED
    BY ONLY LogType, <1>d, <2>1, ReadableIs
<1>5. last \in BOOLEAN
  OBVIOUS
<1> HIDE DEF last
<1>6. hand' \in Chunks
  <2> HIDE DEF Units
  <2> QED
    BY <1>1, <1>3, <1>4, <1>5 DEF Chunks
<1>7. hand'.off = todo.off /\ hand'.data = data
  BY <1>3
<1>8. IsOf(hand', todo.session)
  BY <1>4, <1>7 DEF IsOf
<1>9. Len(data) <= todo.len
  <2>1. Len(data) \in Nat
    BY <1>4, LenProperties
  <2> QED
    BY <1>1, <1>2, <1>4, <2>1
<1> QED
  BY <1>4, <1>6, <1>7, <1>8, <1>9

(* What is left to do after the chunk in hand.                             *)
LEMMA AdvanceIs ==
  ASSUME ThreadType, ThreadInv, dpc = "send"
  PROVE  /\ Advance \in Reqs /\ Advance.session = todo.session
         /\ Advance.off = hand.off + Len(hand.data)
         /\ hand.off = todo.off /\ IsOf(hand, todo.session)
         /\ Len(hand.data) \in Nat /\ hand.off \in Nat
<1> DEFINE n == Len(hand.data)
<1>1. /\ todo \in Reqs /\ todo.off \in Nat /\ todo.len \in 0 .. Length
      /\ todo.session \in Sessions
  BY Sizes DEF ThreadType, Reqs
<1>2. n \in Nat
  BY LenProperties DEF ThreadType, Chunks
<1>3. /\ hand.off = todo.off /\ IsOf(hand, todo.session)
      /\ n <= todo.len /\ todo.off + n <= Length
  BY DEF ThreadInv
<1>4. Advance = [session |-> todo.session, off |-> todo.off + n, len |-> todo.len - n]
  <2>1. Advance = [todo EXCEPT !.off = todo.off + n, !.len = todo.len - n]
    BY DEF Advance
  <2> HIDE DEF n
  <2> QED
    BY <1>1, <2>1 DEF Reqs
<1> HIDE DEF n
<1>5. todo.off + n \in 0 .. Length /\ todo.len - n \in 0 .. Length
  BY <1>1, <1>2, <1>3, Sizes
<1>6. Advance \in Reqs
  BY <1>1, <1>4, <1>5 DEF Reqs
<1>7. Advance.session = todo.session /\ Advance.off = todo.off + n
  BY <1>4
<1> QED
  BY <1>1, <1>2, <1>3, <1>6, <1>7 DEF n

LEMMA ThreadTypeNext == ASSUME Types, ThreadInv, [Next]_vars PROVE ThreadType'
<1> USE DEF Types
<1> HIDE DEF Units
<1>1. CASE DumpWakes
  BY <1>1 DEF DumpWakes, ThreadType, Working
<1>2. CASE DumpClearsAbort
  BY <1>2 DEF DumpClearsAbort, ThreadType
<1>3. ASSUME NEW f \in Fields, DumpReadsRequest(f) PROVE ThreadType'
  <2>1. todo' \in Reqs
    BY <1>3 DEF DumpReadsRequest, ThreadType, AskedType, Reqs, Fields
  <2> QED
    BY <1>3, <2>1 DEF DumpReadsRequest, ThreadType
<1>4. CASE DumpRefills
  BY <1>4 DEF DumpRefills, ThreadType, Working
<1>5. CASE Ends
  BY <1>5, NoneHeld DEF Ends, DumpEnds, DumpReadFails, DumpStalls, DumpSendFails,
     ThreadType
<1>6. CASE DumpReadsChunk
  <2>1. hand' \in Chunks
    BY <1>6, ReadsChunk
  <2> QED
    BY <1>6, <2>1 DEF DumpReadsChunk, ThreadType, Working
<1>7. CASE DumpTakesCredit
  BY <1>7 DEF DumpTakesCredit, ThreadType, Working
<1>8. CASE DumpSends
  <2>1. dpc = "send" /\ todo' = IF hand.last THEN NoReq ELSE Advance
    BY <1>8 DEF DumpSends
  <2>2. todo' \in Reqs
    BY <2>1, NoneHeld, AdvanceIs
  <2> QED
    BY <1>8, <2>2, NoneHeld DEF DumpSends, ThreadType, Working
<1>9. CASE UNCHANGED thread
  BY <1>9 DEF thread, ThreadType
<1> QED
  BY <1>1, <1>2, <1>3, <1>4, <1>5, <1>6, <1>7, <1>8, <1>9, ThreadMoves
     DEF DumpThread, Ends

LEMMA ChunkIs ==
  ASSUME NEW c \in Chunks
  PROVE  /\ c.off \in 0 .. Length /\ c.off \in Nat /\ Len(c.data) \in Nat
         /\ \A i \in 1 .. Len(c.data) : c.data[i] \in Units
<1> HIDE DEF Units
<1>1. c.off \in 0 .. Length /\ c.data \in Seq(Units)
  BY DEF Chunks
<1> QED
  BY <1>1, Sizes, LenProperties, ElementOfSeq

(* What becomes of the oldest chunk.                                       *)
LEMMA Arrival ==
  ASSUME RadioType, HostType, Arrives
  PROVE  /\ air # <<>> /\ air' = Tail(air) /\ air[1] \in Chunks
         /\ credits' = Smaller(credits + 1, Credits) /\ link' = link
         /\ End(air[1]) \in 0 .. expected
         /\ hpc # "waiting" => UNCHANGED host
         /\ hpc = "waiting" =>
              LET c == air[1]
              IN  /\ buf' = [i \in Offsets |->
                               IF i >= c.off /\ i < End(c)
                               THEN c.data[i - c.off + 1] ELSE buf[i]]
                  /\ max_end' = IF End(c) > max_end THEN End(c) ELSE max_end
                  /\ hpc' = IF max_end' >= expected THEN "done" ELSE hpc
                  /\ UNCHANGED <<target, expected, resumes>>
         /\ UNCHANGED <<log, asked, thread, flags, bounds>>
<1>1. air # <<>> /\ air' = Tail(air) /\ Head(air) = air[1] /\ air[1] \in Chunks
  BY TailIs DEF Arrives, RadioType
<1>2. End(air[1]) \in 0 .. expected
  <2>1. air[1].off \in Nat /\ Len(air[1].data) \in Nat /\ expected \in Nat
    BY <1>1, ChunkIs, Sizes DEF HostType
  <2> DEFINE e == air[1].off + Len(air[1].data)
  <2>2. e \in Nat /\ End(air[1]) = Smaller(e, expected)
    BY <2>1 DEF End, EndOf
  <2> HIDE DEF e
  <2> QED
    BY <2>1, <2>2, SmallerIs
<1>3. HostTakes(air[1])
  BY <1>1 DEF Arrives
<1>4. hpc # "waiting" => UNCHANGED host
  BY <1>3 DEF HostTakes
<1>5. ASSUME hpc = "waiting"
      PROVE  LET c == air[1]
             IN  /\ buf' = [i \in Offsets |->
                              IF i >= c.off /\ i < End(c)
                              THEN c.data[i - c.off + 1] ELSE buf[i]]
                 /\ max_end' = IF End(c) > max_end THEN End(c) ELSE max_end
                 /\ hpc' = IF max_end' >= expected THEN "done" ELSE hpc
                 /\ UNCHANGED <<target, expected, resumes>>
  BY <1>3, <1>5 DEF HostTakes, End, EndOf
<1> QED
  BY <1>1, <1>2, <1>4, <1>5 DEF Arrives

LEMMA RadioTypeNext == ASSUME Types, ThreadInv, [Next]_vars PROVE RadioType'
<1> USE DEF Types
<1> HIDE DEF Chunks
<1>s. ASSUME NEW k \in Nat PROVE Smaller(credits + k, Credits) \in 0 .. Credits
  <2>1. credits + k \in Nat /\ Credits \in Nat
    BY Sizes DEF RadioType
  <2> DEFINE n == credits + k
  <2> HIDE DEF n
  <2> QED
    BY <2>1, SmallerIs DEF n
<1>1. CASE DumpRefills
  BY <1>1, Sizes DEF DumpRefills, Refilled, RadioType
<1>2. CASE DumpTakesCredit
  BY <1>2, Sizes DEF DumpTakesCredit, RadioType
<1>3. CASE DumpSends
  <2>1. Append(air, hand) \in Seq(Chunks)
    BY AppendIs DEF RadioType, ThreadType
  <2> QED
    BY <1>3, <2>1 DEF DumpSends, RadioType
<1>4. CASE DumpSendFails
  BY <1>4, <1>s DEF DumpSendFails, RadioType
<1>5. CASE Arrives
  <2>1. air' \in Seq(Chunks)
    BY <1>5, TailIs DEF Arrives, RadioType
  <2> QED
    BY <1>5, <1>s, <2>1 DEF Arrives, RadioType
<1>6. CASE Disconnects
  <2>1. PICK k \in 0 .. Len(air) : credits' = Smaller(credits + k, Credits)
    BY <1>6 DEF Disconnects
  <2>2. k \in Nat
    BY LenProperties DEF RadioType
  <2>3. <<>> \in Seq(Chunks)
    OBVIOUS
  <2> QED
    BY <1>6, <1>s, <2>1, <2>2, <2>3 DEF Disconnects, RadioType
<1>7. CASE Connects
  BY <1>7 DEF Connects, RadioType
<1>8. CASE UNCHANGED radio
  BY <1>8 DEF radio, RadioType
<1> QED
  BY <1>1, <1>2, <1>3, <1>4, <1>5, <1>6, <1>7, <1>8, RadioMoves

LEMMA HostTypeNext == ASSUME Types, [Next]_vars PROVE HostType'
<1> USE DEF Types
<1> HIDE DEF Units, Chunks, Offsets
<1>1. ASSUME NEW s \in Sessions, HostDumps(s) PROVE HostType'
  <2>1. count[s] \in 0 .. Length /\ 0 \in 0 .. count[s] /\ 0 \in 0 .. MaxResumes
    BY Sizes DEF LogType
  <2> QED
    BY <1>1, <2>1 DEF HostDumps, HostType
<1>2. CASE HostResumes
  BY <1>2, Sizes DEF HostResumes, HostType
<1>3. CASE HostGivesUp
  BY <1>3 DEF HostGivesUp, HostType
<1>4. CASE HostErases
  BY <1>4 DEF HostErases, HostType
<1>5. CASE Arrives
  <2>1. CASE hpc # "waiting"
    BY <1>5, <2>1, Arrival DEF host, HostType
  <2>2. CASE hpc = "waiting"
    <3> DEFINE c == air[1]
               New(i) == IF i >= c.off /\ i < End(c) THEN c.data[i - c.off + 1] ELSE buf[i]
    <3>1. /\ c \in Chunks /\ End(c) \in 0 .. expected
          /\ buf' = [i \in Offsets |-> New(i)]
          /\ max_end' = IF End(c) > max_end THEN End(c) ELSE max_end
          /\ hpc' = IF max_end' >= expected THEN "done" ELSE hpc
          /\ UNCHANGED <<target, expected, resumes>>
      BY <1>5, <2>2, Arrival
    <3>2. ASSUME NEW i \in Offsets PROVE New(i) \in Units \union {None}
      <4>1. CASE i >= c.off /\ i < End(c)
        <5>1. /\ c.off \in Nat /\ Len(c.data) \in Nat /\ expected \in Nat /\ i \in Nat
              /\ \A j \in 1 .. Len(c.data) : c.data[j] \in Units
          BY <3>1, ChunkIs, Sizes DEF HostType, Offsets
        <5> DEFINE e == c.off + Len(c.data)
        <5>2. e \in Nat /\ End(c) = Smaller(e, expected)
          BY <5>1 DEF End, EndOf
        <5> HIDE DEF e
        <5>3. End(c) <= e /\ End(c) \in Nat
          BY <5>1, <5>2, SmallerIs
        <5>4. i - c.off + 1 \in 1 .. Len(c.data)
          BY <4>1, <5>1, <5>2, <5>3 DEF e
        <5> QED
          BY <4>1, <5>1, <5>4
      <4>2. CASE ~(i >= c.off /\ i < End(c))
        BY <4>2 DEF HostType
      <4> QED
        BY <4>1, <4>2
    <3> HIDE DEF New
    <3>3. buf' \in [Offsets -> Units \union {None}]
      BY <3>1, <3>2
    <3>4. max_end' \in 0 .. expected /\ hpc' \in {"waiting", "done"}
      BY <2>2, <3>1, Sizes DEF HostType
    <3> QED
      BY <3>1, <3>3, <3>4 DEF HostType
  <2> QED
    BY <2>1, <2>2
<1>6. CASE UNCHANGED host
  BY <1>6 DEF host, HostType
<1> QED
  BY <1>1, <1>2, <1>3, <1>4, <1>5, <1>6, HostMoves DEF Host

(* At most one chunk is late: it was in hand already.                      *)
LEMMA FlagTypeNext == ASSUME Types, CancelInv, [Next]_vars PROVE FlagType'
<1> USE DEF Types
<1>1. ASSUME NEW s \in Sessions, HostDumps(s) PROVE FlagType'
  <2>1. (air # <<>> \/ dpc # "wait") \in BOOLEAN /\ (stopping /\ s = Newest) \in BOOLEAN
    OBVIOUS
  <2> QED
    BY <1>1, <2>1 DEF HostDumps, Request, FlagType
<1>2. CASE HostResumes
  BY <1>2 DEF HostResumes, Request, FlagType
<1>3. CASE DumpRefills
  <2>1. (crowded \/ air # <<>>) \in BOOLEAN
    OBVIOUS
  <2> QED
    BY <1>3, <2>1 DEF DumpRefills, FlagType
<1>4. CASE DumpSends
  <2>1. late = 0
    BY <1>4 DEF DumpSends, CancelInv, FlagType
  <2> QED
    BY <1>4, <2>1 DEF DumpSends, FlagType
<1>5. CASE Disconnects
  BY <1>5 DEF Disconnects, FlagType
<1>6. CASE UNCHANGED flags
  BY <1>6 DEF flags, FlagType
<1> QED
  BY <1>1, <1>2, <1>3, <1>4, <1>5, <1>6, FlagMoves DEF Dumps

LEMMA TypesNext == ASSUME Types, ThreadInv, CancelInv, [Next]_vars PROVE Types'
  BY LogTypeNext, AskedTypeNext, ThreadTypeNext, RadioTypeNext, HostTypeNext,
     FlagTypeNext DEF Types

-----------------------------------------------------------------------------
(* The thread, its cancellation and its credits.                           *)

LEMMA GotNext ==
  ASSUME Types, ThreadInv, [Next]_vars
  PROVE  dpc' # "request" => got' = {}
<1>1. CASE Reads
  BY <1>1 DEF Reads, DumpReadsRequest
<1>2. CASE DumpThread /\ ~Reads
  BY <1>2 DEF DumpThread, Reads, ThreadInv, DumpWakes, DumpClearsAbort, DumpRefills,
     DumpEnds, DumpReadsChunk, DumpReadFails, DumpTakesCredit, DumpStalls,
     DumpSends, DumpSendFails
<1>3. CASE UNCHANGED thread
  BY <1>3 DEF thread, ThreadInv
<1> QED
  BY <1>1, <1>2, <1>3, ThreadMoves

LEMMA StackNext ==
  ASSUME Types, ThreadInv, [Next]_vars
  PROVE  ~link' => air' = <<>>
<1>1. CASE DumpRefills \/ DumpTakesCredit \/ DumpSends \/ DumpSendFails
  BY <1>1 DEF DumpRefills, DumpTakesCredit, DumpSends, DumpSendFails, ThreadInv
<1>2. CASE Arrives
  BY <1>2 DEF Arrives, ThreadInv
<1>3. CASE Disconnects
  BY <1>3 DEF Disconnects
<1>4. CASE Connects
  BY <1>4 DEF Connects
<1>5. CASE UNCHANGED radio
  BY <1>5 DEF radio, ThreadInv
<1> QED
  BY <1>1, <1>2, <1>3, <1>4, <1>5, RadioMoves

LEMMA HandNext ==
  ASSUME Types, ThreadInv, [Next]_vars, dpc' \in {"credit", "send"}
  PROVE  /\ hand'.off = todo'.off /\ IsOf(hand', todo'.session)
         /\ Len(hand'.data) <= todo'.len
         /\ todo'.off + Len(hand'.data) <= Length
<1>1. CASE DumpReadsChunk
  <2>1. todo' = todo
    BY <1>1 DEF DumpReadsChunk
  <2> QED
    BY <1>1, <2>1, ReadsChunk DEF Types
<1>2. CASE DumpTakesCredit \/ UNCHANGED thread
  <2>1. todo' = todo /\ hand' = hand /\ dpc \in {"credit", "send"}
    BY <1>2 DEF DumpTakesCredit, thread
  <2> QED
    BY <2>1 DEF ThreadInv
<1>3. CASE DumpThread /\ ~DumpReadsChunk /\ ~DumpTakesCredit
  BY <1>3 DEF DumpThread, DumpWakes, DumpClearsAbort, DumpRefills, DumpEnds,
     DumpReadFails, DumpStalls, DumpSends, DumpSendFails, DumpReadsRequest
<1> QED
  BY <1>1, <1>2, <1>3, ThreadMoves

LEMMA ThreadInvNext == ASSUME Types, ThreadInv, [Next]_vars PROVE ThreadInv'
  BY GotNext, StackNext, HandNext DEF ThreadInv

(* A request or a disconnect sets the flag; it is cleared only when the    *)
(* thread has put down what it had in hand.                                *)
LEMMA CancelNext == ASSUME Types, CancelInv, [Next]_vars PROVE CancelInv'
<1>1. CASE Dumps \/ HostResumes \/ DumpRefills \/ Disconnects
  BY <1>1 DEF Dumps, HostDumps, HostResumes, Request, DumpRefills, Disconnects,
     CancelInv
<1>2. CASE DumpSends
  BY <1>2 DEF DumpSends, CancelInv, Types, FlagType, asked
<1>3. CASE UNCHANGED flags /\ UNCHANGED thread /\ UNCHANGED asked
  BY <1>3 DEF flags, thread, asked, CancelInv
<1>4. CASE DumpThread /\ ~DumpSends /\ ~DumpRefills
  <2>1. late' = late
    BY <1>4 DEF DumpThread, DumpWakes, DumpClearsAbort, DumpEnds, DumpReadsChunk,
       DumpReadFails, DumpTakesCredit, DumpStalls, DumpSendFails, DumpReadsRequest,
       flags
  <2>2. ASSUME late = 1, dpc' \in Working
        PROVE  FALSE
    BY <1>4, <2>2 DEF DumpThread, DumpWakes, DumpClearsAbort, DumpEnds,
       DumpReadsChunk, DumpReadFails, DumpTakesCredit, DumpStalls, DumpSendFails,
       DumpReadsRequest, CancelInv, GoesOn, Working
  <2> QED
    BY <2>1, <2>2 DEF CancelInv, Working
<1>5. CASE HostGivesUp \/ HostErases \/ Arrives \/ LogAppends \/ StopReturns \/ Connects
  BY <1>5 DEF HostGivesUp, HostErases, Arrives, LogAppends, StopReturns, Connects,
     CancelInv, thread, asked, flags
<1> QED
  BY <1>1, <1>2, <1>3, <1>4, <1>5 DEF Next, Host, Dumps, vars

LEMMA Returned ==
  ASSUME NEW c \in Nat, NEW n \in Nat, NEW h \in Nat, NEW most \in Nat,
         NEW d \in Nat, d <= c + n, c + n + h <= most
  PROVE  d + h <= most
  OBVIOUS

(* A credit goes from the semaphore to the thread, from there to the stack *)
(* and from there back.                                                    *)
LEMMA FlightNext == ASSUME Types, FlightInv, [Next]_vars PROVE FlightInv'
<1> DEFINE held == IF dpc = "send" THEN 1 ELSE 0
           n == Len(air)
<1>1. /\ credits \in Nat /\ n \in Nat /\ Credits \in Nat /\ air \in Seq(Chunks)
      /\ hand \in Chunks
  <2> HIDE DEF Chunks
  <2> QED
    BY Sizes, LenProperties DEF Types, RadioType, ThreadType
<1>h. ~crowded => credits + n + held <= Credits
  BY DEF FlightInv
<1>l. n = Len(air) /\ held = IF dpc = "send" THEN 1 ELSE 0
  OBVIOUS
<1> HIDE DEF n, held
<1>g. ASSUME NEW k \in Nat
      PROVE  Smaller(credits + k, Credits) <= credits + k
             /\ Smaller(credits + k, Credits) \in Nat
  <2> DEFINE m == credits + k
  <2>1. m \in Nat
    BY <1>1
  <2> HIDE DEF m
  <2> QED
    BY <1>1, <2>1, SmallerIs DEF m
<1>2. CASE DumpRefills
  <2>1. ~crowded' => air = <<>>
    BY <1>2 DEF DumpRefills
  <2>2. air' = air /\ dpc' = "loop" /\ credits' = Credits
    BY <1>2 DEF DumpRefills, Refilled
  <2> QED
    BY <1>1, <1>h, <1>l, <2>1, <2>2 DEF FlightInv
<1>3. CASE DumpTakesCredit
  BY <1>1, <1>h, <1>l, <1>3 DEF DumpTakesCredit, FlightInv, flags
<1>4. CASE DumpSends
  <2>1. Len(air') = n + 1
    BY <1>1, <1>l, <1>4, AppendIs DEF DumpSends
  <2>2. dpc = "send" /\ dpc' # "send" /\ credits' = credits /\ crowded' = crowded
    BY <1>4 DEF DumpSends
  <2> QED
    BY <1>1, <1>h, <1>l, <2>1, <2>2 DEF FlightInv
<1>5. CASE DumpSendFails
  <2>1. credits' <= credits + 1 /\ credits' \in Nat
    BY <1>5, <1>g DEF DumpSendFails
  <2>2. dpc = "send" /\ dpc' = "wait" /\ air' = air /\ crowded' = crowded
    BY <1>5 DEF DumpSendFails, flags
  <2> QED
    BY <1>1, <1>h, <1>l, <2>1, <2>2 DEF FlightInv
<1>6. CASE Arrives
  <2>1. Len(air') = n - 1
    BY <1>1, <1>l, <1>6, TailIs DEF Arrives
  <2>2. credits' <= credits + 1 /\ credits' \in Nat
    BY <1>6, <1>g DEF Arrives
  <2>3. UNCHANGED <<dpc, crowded>>
    BY <1>6 DEF Arrives, thread, flags
  <2> QED
    BY <1>1, <1>h, <1>l, <2>1, <2>2, <2>3 DEF FlightInv
<1>7. CASE Disconnects
  <2>1. \E k \in 0 .. n : credits' = Smaller(credits + k, Credits)
    BY <1>7, <1>l DEF Disconnects
  <2>2. credits' \in Nat /\ credits' <= credits + n
    <3> SUFFICES ASSUME NEW k \in Nat, k <= n, credits' = Smaller(credits + k, Credits)
                 PROVE  credits' \in Nat /\ credits' <= credits + n
      BY <1>1, <1>h, <1>l, <2>1
    <3>1. credits' \in Nat /\ credits' <= credits + k
      BY <1>g
    <3> QED
      BY <1>1, <3>1
  <2>3. Len(air') = 0 /\ UNCHANGED <<dpc, crowded>>
    BY <1>7 DEF Disconnects, thread
  <2>4. held \in Nat
    BY <1>l
  <2>5. ~crowded => credits' + held <= Credits
    BY <1>1, <1>h, <2>2, <2>4, Returned
  <2> QED
    BY <1>l, <2>2, <2>3, <2>5 DEF FlightInv
<1>8. CASE UNCHANGED <<credits, air, crowded>> /\ (dpc' = "send" => dpc = "send")
  BY <1>1, <1>h, <1>l, <1>8 DEF FlightInv
<1> QED
  <2>1. CASE DumpThread
    BY <1>2, <1>3, <1>4, <1>5, <1>8, <2>1 DEF DumpThread, DumpWakes,
       DumpClearsAbort, DumpEnds, DumpReadsChunk, DumpReadFails, DumpStalls,
       DumpReadsRequest, radio, flags
  <2>2. CASE ~DumpThread
    BY <1>6, <1>7, <1>8, <2>2 DEF Next, Host, vars, radio, flags, thread, HostDumps,
       HostResumes, HostGivesUp, HostErases, LogAppends, StopReturns, Connects
  <2> QED
    BY <2>1, <2>2

-----------------------------------------------------------------------------
(* What the stack will bring.                                              *)

LEMMA EndOfIs ==
  ASSUME NEW c \in Chunks, NEW e \in Nat
  PROVE  EndOf(c, e) \in Nat
<1> DEFINE n == c.off + Len(c.data)
<1>1. n \in Nat
  BY ChunkIs
<1> HIDE DEF n
<1> QED
  BY <1>1, SmallerIs DEF EndOf, n

LEMMA ReachesSoon ==
  ASSUME NEW a, NEW e \in Nat, NEW m \in Nat, NEW off \in Nat, NEW n \in Nat,
         off <= m
  PROVE  Reaches(a, e, m, off, n)
<1>1. Smaller(off, e) \in Nat /\ Smaller(off, e) <= off
  BY SmallerIs
<1> QED
  BY <1>1 DEF Reaches

(* Another chunk takes nothing away, and reaches its own end.              *)
LEMMA ReachesMore ==
  ASSUME air \in Seq(Chunks), NEW c \in Chunks, NEW e, NEW m, NEW off,
         NEW n \in Nat, NEW p \in Nat, n <= p, n <= Len(air),
         Reaches(air, e, m, off, n)
  PROVE  Reaches(Append(air, c), e, m, off, p)
<1>1. CASE Smaller(off, e) <= m
  BY <1>1 DEF Reaches
<1>2. CASE \E j \in 1 .. n : Smaller(off, e) <= EndOf(air[j], e)
  <2>1. PICK j \in 1 .. n : Smaller(off, e) <= EndOf(air[j], e)
    BY <1>2
  <2>2. Len(air) \in Nat /\ \A k \in 1 .. Len(air) : Append(air, c)[k] = air[k]
    BY AppendIs
  <2>3. j \in 1 .. Len(air) /\ j \in 1 .. p
    BY <2>2
  <2> QED
    BY <2>1, <2>2, <2>3 DEF Reaches
<1> QED
  BY <1>1, <1>2 DEF Reaches

LEMMA ReachesEnd ==
  ASSUME air \in Seq(Chunks), NEW c \in Chunks, NEW e \in Nat, NEW m,
         NEW off, off = c.off + Len(c.data)
  PROVE  Reaches(Append(air, c), e, m, off, Len(air) + 1)
<1>1. Len(air) + 1 \in 1 .. Len(air) + 1 /\ Append(air, c)[Len(air) + 1] = c
  BY AppendIs
<1>2. Smaller(off, e) = EndOf(c, e) /\ EndOf(c, e) \in Nat
  BY EndOfIs DEF EndOf
<1>3. Smaller(off, e) <= EndOf(Append(air, c)[Len(air) + 1], e)
  BY <1>1, <1>2
<1> QED
  BY <1>1, <1>3 DEF Reaches

(* When the oldest chunk has arrived the host has what it reached.         *)
LEMMA ReachesLess ==
  ASSUME air \in Seq(Chunks), air # <<>>, NEW e \in Nat, NEW m \in Nat,
         NEW off \in Nat, NEW n \in 0 .. Len(air) - 1, NEW m2,
         m2 = IF EndOf(air[1], e) > m THEN EndOf(air[1], e) ELSE m,
         Reaches(air, e, m, off, n + 1)
  PROVE  Reaches(Tail(air), e, m2, off, n)
<1> DEFINE x == Smaller(off, e)
<1>1. x \in Nat /\ EndOf(air[1], e) \in Nat
  BY SmallerIs, TailIs, EndOfIs
<1>2. Len(air) \in Nat /\ \A k \in 1 .. Len(air) - 1 : Tail(air)[k] = air[k + 1]
  BY TailIs
<1>3. x <= m \/ \E j \in 1 .. n + 1 : x <= EndOf(air[j], e)
  BY DEF Reaches
<1>4. CASE x <= m
  <2>1. x <= m2
    <3> DEFINE y == EndOf(air[1], e)
    <3>1. y \in Nat /\ m2 = IF y > m THEN y ELSE m
      BY <1>1
    <3> HIDE DEF x, y
    <3> QED
      BY <1>1, <1>4, <3>1
  <2> QED
    BY <2>1 DEF Reaches
<1>5. ASSUME NEW j \in 1 .. n + 1, x <= EndOf(air[j], e)
      PROVE  Reaches(Tail(air), e, m2, off, n)
  <2>1. CASE j = 1
    <3>1. x <= m2
      <4> DEFINE y == EndOf(air[1], e)
      <4>1. y \in Nat /\ x <= y /\ m2 = IF y > m THEN y ELSE m
        BY <1>1, <1>5, <2>1
      <4> HIDE DEF x, y
      <4> QED
        BY <1>1, <4>1
    <3> QED
      BY <3>1 DEF Reaches
  <2>2. CASE j # 1
    <3> DEFINE k == j - 1
    <3>1. k \in 1 .. n /\ k \in 1 .. Len(air) - 1 /\ k + 1 = j
      BY <1>2, <2>2
    <3> HIDE DEF k
    <3>2. Tail(air)[k] = air[j]
      BY <1>2, <3>1
    <3>3. x <= EndOf(Tail(air)[k], e)
      BY <1>5, <3>2
    <3> HIDE DEF x
    <3> QED
      BY <3>1, <3>3 DEF Reaches, x
  <2> QED
    BY <2>1, <2>2
<1> QED
  BY <1>3, <1>4, <1>5

-----------------------------------------------------------------------------
(* The host's dump.                                                        *)

LEMMA Numbers ==
  ASSUME Types
  PROVE  /\ expected \in Nat /\ max_end \in Nat /\ max_end <= expected
         /\ Len(air) \in Nat /\ air \in Seq(Chunks) /\ hand \in Chunks
         /\ todo.off \in Nat /\ req.off \in Nat
<1>1. /\ expected \in Nat /\ max_end \in Nat /\ max_end <= expected
      /\ todo.off \in Nat /\ req.off \in Nat
  BY Sizes DEF Types, HostType, ThreadType, AskedType, Reqs
<1> HIDE DEF Chunks
<1>2. Len(air) \in Nat /\ air \in Seq(Chunks) /\ hand \in Chunks
  BY LenProperties DEF Types, RadioType, ThreadType
<1> QED
  BY <1>1, <1>2

(* A chunk that arrives brings the host to its end.                        *)
LEMMA DumpArrives ==
  ASSUME Types, ThreadInv, DumpInv, Arrives
  PROVE  DumpInv'
<1> SUFFICES ASSUME hpc' = "waiting", ~foreign'
             PROVE  (ReqInv /\ GotInv /\ TodoInv /\ StackInv)'
  BY DEF DumpInv
<1>1. /\ air # <<>> /\ air' = Tail(air) /\ link' = link
      /\ UNCHANGED <<log, asked, thread, flags>>
  BY Arrival DEF Types
<1>2. hpc = "waiting" /\ ~foreign
  <2>1. hpc # "waiting" => hpc' = hpc
    BY Arrival DEF Types, host
  <2> QED
    BY <1>1, <2>1 DEF flags
<1>3. /\ target' = target /\ expected' = expected
      /\ max_end' = IF EndOf(air[1], expected) > max_end
                    THEN EndOf(air[1], expected) ELSE max_end
  BY <1>2, Arrival DEF Types, End
<1>4. ReqInv /\ GotInv /\ TodoInv /\ StackInv
  BY <1>2 DEF DumpInv
<1>5. max_end <= max_end' /\ max_end' \in Nat
  <2>1. EndOf(air[1], expected) \in Nat /\ max_end \in Nat
    BY <1>1, Numbers, TailIs, EndOfIs
  <2> DEFINE y == EndOf(air[1], expected)
  <2>2. y \in Nat /\ max_end' = IF y > max_end THEN y ELSE max_end
    BY <1>3, <2>1
  <2> HIDE DEF y
  <2> QED
    BY <2>1, <2>2
<1>6. ReqInv'
  <2>1. req' = req
    BY <1>1 DEF asked
  <2> QED
    BY <1>3, <1>4, <1>5, <2>1, Numbers DEF ReqInv
<1>7. GotInv'
  <2>1. dpc' = dpc /\ got' = got /\ todo' = todo
    BY <1>1 DEF thread
  <2> QED
    BY <1>3, <1>4, <1>5, <2>1, Numbers DEF GotInv
<1>8. ASSUME NEW off \in Nat, NEW n \in 0 .. Len(air) - 1, Continues(off, n + 1)
      PROVE  Reaches(air', expected', max_end', off, n)
  BY <1>1, <1>3, <1>8, Numbers, ReachesLess DEF Continues
<1>9. Len(air') = Len(air) - 1 /\ \A k \in 1 .. Len(air) - 1 : air'[k] = air[k + 1]
  BY <1>1, Numbers, TailIs
<1>10. TodoInv'
  <2> SUFFICES ASSUME dpc' \in Working
               PROVE  todo'.session = target' /\ Reaches(air', expected', max_end', todo'.off, Len(air'))
    BY DEF TodoInv, Continues
  <2>1. dpc' = dpc /\ todo' = todo
    BY <1>1 DEF thread
  <2>2. ~Doomed
    BY <1>1, <2>1 DEF Doomed, ThreadInv
  <2>3. todo.session = target /\ Continues(todo.off, Len(air))
    BY <1>4, <2>1, <2>2 DEF TodoInv
  <2>4. Len(air') \in 0 .. Len(air) - 1 /\ Len(air') + 1 = Len(air) /\ todo.off \in Nat
    BY <1>1, <1>9, Numbers, TailIs
  <2> QED
    BY <1>3, <1>8, <2>1, <2>3, <2>4
<1>11. StackInv'
  <2> SUFFICES ASSUME NEW k \in 1 .. Len(air')
               PROVE  IsOf(air'[k], target') /\ Reaches(air', expected', max_end', air'[k].off, k - 1)
    BY DEF StackInv, Continues
  <2>1. k + 1 \in 1 .. Len(air) /\ air'[k] = air[k + 1] /\ k - 1 \in 0 .. Len(air) - 1
        /\ k \in Nat
    BY <1>9, Numbers
  <2>2. IsOf(air[k + 1], target) /\ Continues(air[k + 1].off, k)
    <3>1. (k + 1) - 1 = k
      BY <2>1
    <3> DEFINE l == k + 1
    <3>2. l \in 1 .. Len(air) /\ l - 1 = k
      BY <2>1, <3>1
    <3> HIDE DEF l
    <3>3. IsOf(air[l], target) /\ Continues(air[l].off, l - 1)
      BY <1>4, <3>2 DEF StackInv
    <3> QED
      BY <3>2, <3>3 DEF l
  <2>3. air[k + 1].off \in Nat
    <3> HIDE DEF Chunks
    <3>1. air[k + 1] \in Chunks
      BY <2>1, Numbers, ElementOfSeq
    <3> QED
      BY <3>1, ChunkIs
  <2>4. (k - 1) + 1 = k
    BY <2>1
  <2> QED
    BY <1>3, <1>8, <2>1, <2>2, <2>3, <2>4
<1> QED
  BY <1>6, <1>7, <1>10, <1>11

(* A chunk that is sent continues the last one.                            *)
LEMMA DumpGoesOut ==
  ASSUME Types, ThreadInv, DumpInv, DumpSends
  PROVE  DumpInv'
<1> SUFFICES ASSUME hpc' = "waiting", ~foreign'
             PROVE  (ReqInv /\ GotInv /\ TodoInv /\ StackInv)'
  BY DEF DumpInv
<1>1. /\ dpc = "send" /\ link /\ air' = Append(air, hand)
      /\ dpc' = IF hand.last THEN "wait" ELSE "loop"
      /\ todo' = IF hand.last THEN NoReq ELSE Advance
      /\ UNCHANGED <<req, abort, link, hpc, target, expected, max_end, foreign>>
  BY DEF DumpSends, asked, host
<1>2. ReqInv /\ GotInv /\ TodoInv /\ StackInv
  BY <1>1 DEF DumpInv
<1>3. /\ todo.session = target /\ Continues(todo.off, Len(air))
      /\ hand.off = todo.off /\ IsOf(hand, target)
  <2>1. todo.session = target /\ (Doomed \/ Continues(todo.off, Len(air)))
    BY <1>1, <1>2 DEF TodoInv, Working
  <2>2. ~Doomed
    BY <1>1 DEF Doomed
  <2>3. hand.off = todo.off /\ IsOf(hand, todo.session)
    BY <1>1 DEF ThreadInv
  <2> QED
    BY <2>1, <2>2, <2>3
<1>4. ReqInv'
  BY <1>1, <1>2 DEF ReqInv
<1>5. GotInv'
  BY <1>1 DEF GotInv
<1>n. /\ Len(air') = Len(air) + 1 /\ air'[Len(air) + 1] = hand
      /\ \A k \in 1 .. Len(air) : air'[k] = air[k]
  BY <1>1, Numbers, AppendIs
<1>6. TodoInv'
  <2> SUFFICES ASSUME dpc' \in Working
               PROVE  todo'.session = target' /\ Reaches(air', expected', max_end', todo'.off, Len(air'))
    BY DEF TodoInv, Continues
  <2>1. todo' = Advance
    BY <1>1 DEF Working
  <2>2. Advance.session = todo.session /\ Advance.off = hand.off + Len(hand.data)
    BY <1>1, AdvanceIs DEF Types
  <2>3. Reaches(Append(air, hand), expected, max_end, todo'.off, Len(air) + 1)
    BY <2>1, <2>2, Numbers, ReachesEnd
  <2> QED
    BY <1>1, <1>3, <1>n, <2>1, <2>2, <2>3
<1>7. StackInv'
  <2> SUFFICES ASSUME NEW k \in 1 .. Len(air')
               PROVE  IsOf(air'[k], target') /\ Reaches(air', expected', max_end', air'[k].off, k - 1)
    BY DEF StackInv, Continues
  <2>1. CASE k \in 1 .. Len(air)
    <3>1. IsOf(air[k], target) /\ Reaches(air, expected, max_end, air[k].off, k - 1)
      BY <1>2, <2>1 DEF StackInv, Continues
    <3>2. k - 1 \in Nat /\ k - 1 <= Len(air)
      BY <2>1, Numbers
    <3> DEFINE l == k - 1
    <3>3. l \in Nat /\ l <= l /\ l <= Len(air) /\ Reaches(air, expected, max_end, air[k].off, l)
      BY <3>1, <3>2
    <3> HIDE DEF l
    <3>4. Reaches(Append(air, hand), expected, max_end, air[k].off, l)
      BY <3>3, Numbers, ReachesMore
    <3> QED
      BY <1>1, <1>n, <2>1, <3>1, <3>4 DEF l
  <2>2. CASE k = Len(air) + 1
    <3>1. k - 1 = Len(air) /\ Len(air) \in Nat /\ Len(air) <= Len(air)
      BY <2>2, Numbers
    <3>2. Reaches(Append(air, hand), expected, max_end, todo.off, Len(air))
      BY <1>3, <3>1, Numbers, ReachesMore DEF Continues
    <3> QED
      BY <1>1, <1>3, <1>n, <2>2, <3>1, <3>2
  <2> QED
    BY <1>n, <2>1, <2>2, Numbers
<1> QED
  BY <1>4, <1>5, <1>6, <1>7

(* A step that leaves the stack and the host's dump as they are.           *)
LEMMA StackStays ==
  ASSUME DumpInv, hpc = "waiting", ~foreign,
         UNCHANGED <<air, target, expected, max_end>>
  PROVE  StackInv'
  BY DEF DumpInv, StackInv, Continues

LEMMA TodoStays ==
  ASSUME DumpInv, hpc = "waiting", ~foreign,
         UNCHANGED <<air, target, expected, max_end, todo>>,
         dpc' \in Working => dpc \in Working,
         dpc' \in Working /\ Doomed => Doomed'
  PROVE  TodoInv'
  BY DEF DumpInv, TodoInv, Continues

(* The thread reads the request of the host's dump, and goes on with it    *)
(* unless the link is gone.                                                *)
LEMMA DumpWorks ==
  ASSUME Types, ThreadInv, DumpInv, DumpThread, ~DumpSends
  PROVE  DumpInv'
<1> SUFFICES ASSUME hpc' = "waiting", ~foreign'
             PROVE  (ReqInv /\ GotInv /\ TodoInv /\ StackInv)'
  BY DEF DumpInv
<1>1. /\ UNCHANGED <<req, link, air, hpc, target, expected, max_end, foreign>>
  BY DEF DumpThread, DumpWakes, DumpClearsAbort, DumpReadsRequest, DumpRefills,
     DumpEnds, DumpReadsChunk, DumpReadFails, DumpTakesCredit, DumpStalls,
     DumpSendFails, asked, host, radio, flags
<1>2. ReqInv /\ GotInv /\ TodoInv /\ StackInv
  BY <1>1 DEF DumpInv
<1>3. ReqInv'
  BY <1>1, <1>2 DEF ReqInv
<1>4. StackInv'
  BY <1>1, StackStays
<1>5. CASE DumpWakes \/ DumpClearsAbort \/ Ends
  <2>1. dpc' \notin Working /\ (dpc' = "request" => got' = {})
    BY <1>5, GotNext DEF DumpWakes, DumpClearsAbort, Ends, DumpEnds, DumpReadFails,
       DumpStalls, DumpSendFails, Working, ThreadInv
  <2> QED
    BY <1>3, <1>4, <2>1 DEF GotInv, TodoInv
<1>6. ASSUME NEW f \in Fields, DumpReadsRequest(f) PROVE DumpInv'
  <2>1. dpc = "request" /\ dpc' = "request" /\ got' = got \union {f}
        /\ todo' = [todo EXCEPT ![f] = req[f]] /\ todo \in Reqs
    BY <1>6 DEF DumpReadsRequest, Types, ThreadType
  <2>2. "session" \in got' => todo'.session = target
    <3>1. CASE f = "session"
      BY <1>2, <2>1, <3>1 DEF ReqInv, Reqs
    <3>2. CASE f # "session"
      BY <1>2, <2>1, <3>2 DEF GotInv, Reqs
    <3> QED
      BY <3>1, <3>2
  <2>3. "off" \in got' => todo'.off <= max_end
    <3>1. CASE f = "off"
      BY <1>2, <2>1, <3>1 DEF ReqInv, Reqs
    <3>2. CASE f # "off"
      BY <1>2, <2>1, <3>2 DEF GotInv, Reqs
    <3> QED
      BY <3>1, <3>2
  <2>4. GotInv' /\ TodoInv'
    BY <1>1, <2>1, <2>2, <2>3 DEF GotInv, TodoInv, Working
  <2> QED
    BY <1>3, <1>4, <2>4 DEF DumpInv
<1>7. CASE DumpRefills
  <2>1. dpc = "request" /\ got = Fields /\ dpc' = "loop" /\ todo' = todo
    BY <1>7 DEF DumpRefills
  <2>2. todo.session = target /\ todo.off <= max_end
    BY <1>2, <2>1 DEF GotInv, Fields
  <2>3. Reaches(air, expected, max_end, todo.off, Len(air))
    BY <2>2, Numbers, ReachesSoon
  <2>4. GotInv' /\ TodoInv'
    BY <1>1, <2>1, <2>2, <2>3 DEF GotInv, TodoInv, Continues
  <2> QED
    BY <1>3, <1>4, <2>4
<1>8. CASE DumpReadsChunk \/ DumpTakesCredit
  <2>1. /\ dpc \in Working /\ todo' = todo /\ dpc' \in {"credit", "send"}
        /\ dpc = "loop" => ~abort /\ dpc' = "credit"
        /\ dpc = "credit" => credits > 0 /\ dpc' = "send"
        /\ dpc \in {"loop", "credit"} /\ abort' = abort
    BY <1>8 DEF DumpReadsChunk, DumpTakesCredit, GoesOn, Working, asked
  <2>2. Doomed => Doomed'
    <3>1. credits > 0 => credits # 0
      BY DEF Types, RadioType
    <3> QED
      BY <1>1, <2>1, <3>1 DEF Doomed
  <2>3. TodoInv'
    BY <1>1, <2>1, <2>2, TodoStays
  <2>4. GotInv'
    BY <2>1 DEF GotInv
  <2> QED
    BY <1>3, <1>4, <2>3, <2>4
<1> QED
  BY <1>5, <1>6, <1>7, <1>8 DEF DumpThread, Ends, DumpInv

(* A dump begins with nothing under way, or is marked; a resume asks for   *)
(* what comes next; a link that is lost takes the stack with it.           *)
LEMMA DumpNext ==
  ASSUME Types, ThreadInv, DumpInv, [Next]_vars
  PROVE  DumpInv'
<1>1. ASSUME NEW s \in Sessions, HostDumps(s) PROVE DumpInv'
  <2> SUFFICES ASSUME ~foreign' PROVE (ReqInv /\ GotInv /\ TodoInv /\ StackInv)'
    BY DEF DumpInv
  <2>1. air = <<>> /\ dpc = "wait" /\ air' = air /\ dpc' = dpc
    BY <1>1 DEF HostDumps, radio, thread
  <2>2. ReqInv'
    BY <1>1, Sizes DEF HostDumps, Request, ReqInv
  <2> QED
    BY <2>1, <2>2 DEF GotInv, TodoInv, StackInv, Working
<1>2. CASE HostResumes
  <2> SUFFICES ASSUME ~foreign' PROVE (ReqInv /\ GotInv /\ TodoInv /\ StackInv)'
    BY DEF DumpInv
  <2>1. /\ hpc = "waiting" /\ ~foreign /\ link
        /\ UNCHANGED <<air, link, dpc, todo, got, credits, target, expected, max_end>>
        /\ req' = [session |-> target, off |-> max_end, len |-> expected - max_end]
    BY <1>2 DEF HostResumes, Request, ResumeFrom, thread, radio
  <2>2. ReqInv'
    BY <2>1, Numbers DEF ReqInv
  <2>3. GotInv'
    BY <2>1 DEF GotInv, DumpInv
  <2>4. TodoInv'
    BY <2>1, TodoStays DEF Doomed
  <2> QED
    BY <2>1, <2>2, <2>3, <2>4, StackStays
<1>3. CASE HostGivesUp \/ HostErases
  BY <1>3 DEF HostGivesUp, HostErases, DumpInv
<1>4. CASE Arrives
  BY <1>4, DumpArrives
<1>5. CASE DumpThread
  BY <1>5, DumpWorks, DumpGoesOut
<1>6. CASE Disconnects \/ Connects
  <2> SUFFICES ASSUME hpc' = "waiting", ~foreign'
               PROVE  (ReqInv /\ GotInv /\ TodoInv /\ StackInv)'
    BY DEF DumpInv
  <2>1. /\ hpc = "waiting" /\ ~foreign /\ air' = <<>>
        /\ UNCHANGED <<req, dpc, todo, got, target, expected, max_end>>
    BY <1>6 DEF Disconnects, Connects, thread, host, flags, asked, ThreadInv
  <2>2. ReqInv' /\ GotInv'
    BY <2>1 DEF ReqInv, GotInv, DumpInv
  <2>3. dpc' \in Working => Doomed'
    BY <1>6, <2>1 DEF Disconnects, Connects, Blocked, Doomed, Working
  <2>4. TodoInv'
    BY <2>1, <2>3 DEF TodoInv, DumpInv
  <2>5. StackInv'
    BY <2>1 DEF StackInv
  <2> QED
    BY <2>2, <2>4, <2>5
<1>7. CASE LogAppends \/ StopReturns \/ UNCHANGED vars
  <2> SUFFICES ASSUME hpc' = "waiting", ~foreign'
               PROVE  (ReqInv /\ GotInv /\ TodoInv /\ StackInv)'
    BY DEF DumpInv
  <2>1. UNCHANGED <<asked, thread, radio, host, flags>>
    BY <1>7 DEF LogAppends, StopReturns, vars
  <2>2. hpc = "waiting" /\ ~foreign
    BY <2>1 DEF host, flags
  <2>3. ReqInv' /\ GotInv'
    BY <2>1, <2>2 DEF ReqInv, GotInv, DumpInv, asked, thread, host
  <2>4. TodoInv'
    BY <2>1, <2>2, TodoStays DEF asked, thread, radio, host, Doomed
  <2>5. StackInv'
    BY <2>1, <2>2, StackStays DEF radio, host
  <2> QED
    BY <2>3, <2>4, <2>5
<1> QED
  BY <1>1, <1>2, <1>3, <1>4, <1>5, <1>6, <1>7 DEF Next, Host

(* A stop that flushes changes only the session it stops.                  *)
LEMMA HostNext == ASSUME Types, HostInv, [Next]_vars PROVE HostInv'
<1>1. ASSUME NEW s \in Sessions, HostDumps(s) PROVE HostInv'
  <2>1. UNCHANGED <<count, stopping>> /\ target' = s /\ expected' = count[s]
        /\ hpc' = "waiting" /\ hasty' = (stopping /\ s = Newest)
    BY <1>1 DEF HostDumps, log
  <2> QED
    BY <2>1 DEF HostInv
<1>2. CASE HostResumes \/ HostGivesUp \/ UNCHANGED vars
  <2>1. UNCHANGED <<count, stopping, target, expected, max_end, hasty>>
        /\ (hpc' = hpc \/ hpc' = "failed")
    BY <1>2 DEF HostResumes, HostGivesUp, vars, log, flags, host
  <2> QED
    BY <2>1 DEF HostInv
<1>3. CASE HostErases
  BY <1>3 DEF HostErases, HostInv
<1>4. CASE Arrives
  <2>1. UNCHANGED <<count, stopping, hasty>>
    BY <1>4 DEF Arrives, log, flags
  <2>2. CASE hpc # "waiting"
    BY <1>4, <2>1, <2>2, Arrival DEF Types, host, HostInv
  <2>3. CASE hpc = "waiting"
    <3> DEFINE y == End(air[1])
    <3>1. /\ y \in 0 .. expected /\ UNCHANGED <<target, expected>>
          /\ max_end' = IF y > max_end THEN y ELSE max_end
          /\ hpc' = IF max_end' >= expected THEN "done" ELSE hpc
      BY <1>4, <2>3, Arrival DEF Types
    <3> HIDE DEF y
    <3>2. hpc' = "done" => max_end' = expected
      BY <2>3, <3>1, Numbers
    <3> QED
      BY <2>1, <2>3, <3>1, <3>2 DEF HostInv
  <2> QED
    BY <2>2, <2>3
<1>5. CASE LogAppends
  <2>1. /\ stopping /\ stopping' = stopping
        /\ count' = [count EXCEPT ![Newest] = count[Newest] + 1]
        /\ UNCHANGED <<hpc, target, expected, max_end, hasty>>
    BY <1>5 DEF LogAppends, host, flags
  <2> QED
    BY <2>1 DEF HostInv, Types, LogType, HostType
<1>6. CASE StopReturns
  BY <1>6 DEF StopReturns, HostInv, host, flags
<1>7. CASE DumpThread \/ Disconnects \/ Connects
  <2>1. UNCHANGED <<log, host, hasty>>
    BY <1>7 DEF DumpThread, DumpWakes, DumpClearsAbort, DumpReadsRequest,
       DumpRefills, DumpEnds, DumpReadsChunk, DumpReadFails, DumpTakesCredit,
       DumpStalls, DumpSends, DumpSendFails, Disconnects, Connects, flags
  <2> QED
    BY <2>1 DEF HostInv, log, host
<1> QED
  BY <1>1, <1>2, <1>3, <1>4, <1>5, <1>6, <1>7 DEF Next, Host

LEMMA HasSessionNext ==
  ASSUME Types, DumpInv, HostHasSession, [Next]_vars
  PROVE  HostHasSession'
<1>1. ASSUME NEW s \in Sessions, HostDumps(s) PROVE HostHasSession'
  BY <1>1, Sizes DEF HostDumps, HostHasSession
<1>2. CASE Arrives
  <2> SUFFICES ASSUME ~foreign', NEW i \in 0 .. max_end' - 1
               PROVE  buf'[i] = <<target', i>>
    BY DEF HostHasSession
  <2>1. ~foreign
    BY <1>2 DEF Arrives, flags
  <2>2. CASE hpc # "waiting"
    BY <1>2, <2>1, <2>2, Arrival DEF Types, host, HostHasSession
  <2>3. CASE hpc = "waiting"
    <3> DEFINE c == air[1]
               y == End(c)
    <3>1. /\ y \in 0 .. expected /\ c \in Chunks /\ UNCHANGED <<target, expected>>
          /\ buf' = [j \in Offsets |-> IF j >= c.off /\ j < y
                                       THEN c.data[j - c.off + 1] ELSE buf[j]]
          /\ max_end' = IF y > max_end THEN y ELSE max_end
      BY <1>2, <2>3, Arrival DEF Types
    <3>2. IsOf(c, target) /\ Smaller(c.off, expected) <= max_end
      <4>1. 1 \in 1 .. Len(air)
        BY <1>2, TailIs DEF Types, RadioType, Arrives
      <4>2. IsOf(air[1], target) /\ Reaches(air, expected, max_end, air[1].off, 1 - 1)
        BY <2>1, <2>3, <4>1 DEF DumpInv, StackInv, Continues
      <4> QED
        BY <4>2 DEF Reaches
    <3>3. c.off \in Nat /\ Len(c.data) \in Nat
      BY <3>1, ChunkIs
    <3> DEFINE o == c.off
    <3>4. o \in Nat /\ Smaller(o, expected) <= max_end
      BY <3>2, <3>3
    <3>5. y <= o + Len(c.data)
      <4> DEFINE e == o + Len(c.data)
      <4>1. e \in Nat /\ y = Smaller(e, expected)
        BY <3>3 DEF End, EndOf
      <4> HIDE DEF e, y
      <4>2. y <= e
        BY <4>1, Numbers, SmallerIs
      <4> QED
        BY <4>2 DEF e
    <3>6. y \in Nat /\ y <= expected /\ max_end <= expected /\ expected <= Length
          /\ max_end \in Nat /\ expected \in Nat /\ Length \in Nat
      BY <3>1, Numbers, Sizes DEF Types, HostType
    <3>7. i \in Nat /\ i < max_end'
      BY <3>1, <3>6
    <3>8. i \in Offsets
      <4> HIDE DEF y
      <4> QED
        BY <3>1, <3>6, <3>7 DEF Offsets
    <3>9. CASE i >= o /\ i < y
      <4> DEFINE k == i - o + 1
      <4>1. buf'[i] = c.data[k]
        BY <3>1, <3>8, <3>9
      <4>2. k \in 1 .. Len(c.data) /\ o + k - 1 = i
        <5> HIDE DEF y, o
        <5> QED
          BY <3>3, <3>4, <3>5, <3>6, <3>7, <3>9
      <4> HIDE DEF k
      <4>3. c.data[k] = <<target, o + k - 1>>
        BY <3>2, <4>2 DEF IsOf
      <4> QED
        BY <3>1, <4>1, <4>2, <4>3
    <3>10. CASE ~(i >= o /\ i < y)
      <4>1. buf'[i] = buf[i]
        BY <3>1, <3>8, <3>10
      <4>2. i < max_end
        <5>1. o <= max_end \/ expected <= max_end
          BY <3>4, <3>6 DEF Smaller
        <5> HIDE DEF y, o
        <5> QED
          BY <3>1, <3>4, <3>6, <3>7, <3>10, <5>1
      <4>3. i \in 0 .. max_end - 1
        BY <3>6, <3>7, <4>2
      <4> QED
        BY <2>1, <3>1, <4>1, <4>3 DEF HostHasSession
    <3> QED
      BY <3>9, <3>10
  <2> QED
    BY <2>2, <2>3
<1>3. CASE UNCHANGED <<target, buf, max_end, foreign>>
  BY <1>3 DEF HostHasSession
<1>4. CASE ~Arrives /\ ~Dumps
  <2>1. UNCHANGED <<target, buf, max_end, foreign>>
    BY <1>4 DEF Next, DumpThread, Host, Dumps, vars, host, flags, DumpWakes,
       DumpClearsAbort, DumpReadsRequest, DumpRefills, DumpEnds, DumpReadsChunk,
       DumpReadFails, DumpTakesCredit, DumpStalls, DumpSends, DumpSendFails,
       HostResumes, HostGivesUp, HostErases, LogAppends, StopReturns, Disconnects,
       Connects
  <2> QED
    BY <1>3, <2>1
<1> QED
  BY <1>1, <1>2, <1>4 DEF Dumps

-----------------------------------------------------------------------------
(* The theorems.                                                           *)

LEMMA InitInv == ASSUME Init PROVE IInv
<1>1. LogType
  BY Sizes DEF Init, LogType
<1>2. AskedType
  BY NoneHeld DEF Init, AskedType
<1>3. ThreadType
  BY NoneHeld DEF Init, ThreadType
<1>4. RadioType
  <2> HIDE DEF Chunks
  <2>1. <<>> \in Seq(Chunks) /\ 0 \in 0 .. Credits
    BY Sizes
  <2> QED
    BY <2>1 DEF Init, RadioType
<1>5. HostType
  <2>1. 0 \in 0 .. Length /\ 0 \in 0 .. 0 /\ 0 \in 0 .. MaxResumes /\ Newest \in Sessions
    BY Sizes
  <2> HIDE DEF Units
  <2> QED
    BY <2>1 DEF Init, HostType
<1>6. FlagType
  BY DEF Init, FlagType
<1>7. ThreadInv /\ CancelInv /\ FlightInv /\ HostInv /\ HostHasSession
  BY Sizes DEF Init, ThreadInv, CancelInv, FlightInv, HostInv, HostHasSession
<1>8. DumpInv
  BY DEF Init, DumpInv
<1> QED
  BY <1>1, <1>2, <1>3, <1>4, <1>5, <1>6, <1>7, <1>8 DEF IInv, Types

LEMMA NextInv == ASSUME IInv, [Next]_vars PROVE IInv'
  BY TypesNext, ThreadInvNext, CancelNext, FlightNext, DumpNext, HostNext,
     HasSessionNext DEF IInv

(* The invariant of the dump: what the thread reads, holds or has sent for *)
(* the host's dump continues what the host has, or it will never go out.   *)
THEOREM Inductive == Spec => []IInv
<1>1. Init => IInv
  BY InitInv
<1>2. IInv /\ [Next]_vars => IInv'
  BY NextInv
<1> QED
  BY <1>1, <1>2, PTL DEF Spec

(* What is in flight has cost a credit.                                    *)
LEMMA IInvFlight == IInv => FlightBounded
<1> SUFFICES ASSUME IInv, ~crowded PROVE Len(air) <= Credits
  BY DEF FlightBounded
<1>1. credits \in Nat /\ Len(air) \in Nat /\ Credits \in Nat
  BY Numbers, Sizes DEF IInv, Types, RadioType
<1>2. credits + Len(air) + (IF dpc = "send" THEN 1 ELSE 0) <= Credits
  BY DEF IInv, FlightInv
<1> DEFINE n == Len(air)
           h == IF dpc = "send" THEN 1 ELSE 0
<1>3. n \in Nat /\ h \in Nat /\ credits + n + h <= Credits
  BY <1>1, <1>2
<1> HIDE DEF n, h
<1>4. n <= Credits
  BY <1>1, <1>3
<1> QED
  BY <1>4 DEF n

(* Type correctness of the dump and of the host; credits and what is in    *)
(* flight never exceed DUMP_CREDITS, and after a request or a disconnect   *)
(* at most one chunk of the dump that dump_abort cancels goes out.         *)
THEOREM TypeCorrect == Spec => []TypeOK
<1>1. IInv => TypeOK
  <2> SUFFICES ASSUME IInv PROVE TypeOK
    OBVIOUS
  <2>1. Types
    BY DEF IInv
  <2>2. late \in Nat /\ CancelPrompt
    BY <2>1 DEF Types, FlagType, CancelPrompt
  <2>3. Len(air) \in Nat
    BY <2>1, Numbers
  <2>4. hand \in [off : 0 .. Length, data : Seq(Sessions \X Offsets), last : BOOLEAN]
    BY <2>1 DEF Types, ThreadType, Chunks, Units
  <2>5. {req, todo} \subseteq [session : Sessions, off : 0 .. Length, len : 0 .. Length]
    BY <2>1 DEF Types, AskedType, ThreadType, Reqs
  <2>6. {foreign, hasty, crowded} \subseteq BOOLEAN
    BY <2>1 DEF Types, FlagType
  <2> QED
    BY <2>1, <2>2, <2>3, <2>4, <2>5, <2>6, IInvFlight
       DEF TypeOK, Types, LogType, AskedType, ThreadType, RadioType, HostType, Units
<1> QED
  BY <1>1, Inductive, PTL

(* What the host has put together up to max_end is the session it asked    *)
(* for, without a hole, through every resume, cancellation and lost link   *)
(* (on_chunk of the hosts, dump_thread and ble_transport_dump_request).    *)
THEOREM HostReassembles == Spec => []HostHasSession
<1>1. IInv => HostHasSession
  BY DEF IInv
<1> QED
  BY <1>1, Inductive, PTL

(* The stack never holds more chunks than DUMP_CREDITS, unless a dump that *)
(* began with chunks in flight gave itself new credits.                    *)
THEOREM FlightStaysBounded == Spec => []FlightBounded
  BY IInvFlight, Inductive, PTL

(* fleet.py erases only after a dump that is complete: nothing of the      *)
(* session the log still holds is missing in it.                           *)
THEOREM EraseIsSafe == Spec => EraseLosesNothing
<1> DEFINE Safe == hpc' = "erased" /\ hpc # "erased" /\ ~foreign /\ ~hasty
                     => \A i \in 0 .. count[target] - 1 : buf[i] = <<target, i>>
<1>1. IInv /\ [Next]_vars => [Safe]_vars
  <2> SUFFICES ASSUME IInv, [Next]_vars, hpc' = "erased", hpc # "erased",
                      ~foreign, ~hasty
               PROVE  \A i \in 0 .. count[target] - 1 : buf[i] = <<target, i>>
    OBVIOUS
  <2>1. hpc = "done"
    <3>1. HostErases
      <4>1. ~UNCHANGED host
        BY DEF host
      <4>2. ~Arrives
        <5> SUFFICES ASSUME Arrives PROVE FALSE
          OBVIOUS
        <5>1. hpc' = hpc \/ hpc' = "done" \/ UNCHANGED host
          BY Arrival DEF IInv, Types
        <5> QED
          BY <4>1, <5>1
      <4> QED
        BY <4>1, <4>2, HostMoves DEF Host, HostDumps, HostResumes, HostGivesUp
    <3> QED
      BY <3>1 DEF HostErases
  <2>2. count[target] = max_end
    BY <2>1 DEF IInv, HostInv
  <2> QED
    BY <2>2 DEF IInv, HostHasSession
<1> QED
  BY <1>1, Inductive, PTL DEF Spec, EraseLosesNothing

=============================================================================
