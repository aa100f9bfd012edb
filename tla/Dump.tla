-------------------------------- MODULE Dump --------------------------------
(***************************************************************************)
(* Fetching a session: the dump thread of the device, credit-paced and     *)
(* cancelled by a flag (src/src/ble/ble_transport.c), and a host that      *)
(* reassembles chunks by offset and asks again when the stream goes quiet  *)
(* (src/scripts/caterpillar_gui.py, src/scripts/fleet.py).                 *)
(*                                                                         *)
(* A session's data are units <<session, offset>>.  The BT RX thread       *)
(* outranks the dump thread and handles a request or a disconnect in one   *)
(* go, between any two steps of the dump thread.                           *)
(***************************************************************************)
EXTENDS Naturals, Sequences

CONSTANTS
    Sessions, Newest,   \* the sessions stored; Newest is being stopped
    Length,             \* units a session holds in the end
    Chunk,              \* DUMP_CHUNK_DATA, in units
    Credits,            \* DUMP_CREDITS
    MaxResumes,         \* resumes before a host gives up
    MaxDumps, MaxLinks  \* bounds: dumps a host starts, connections

ASSUME DumpAssumption ==
    /\ Newest \in Sessions
    /\ {Length, Chunk, Credits} \subseteq Nat \ {0}
    /\ MaxResumes \in Nat

Offsets == 0..Length - 1

VARIABLES
    count, stopping,          \* the log: units readable, a stop under way
    sem, abort, req,          \* dump_sem, dump_abort, dump_req_*
    dpc, todo, got,           \* the dump thread: what it has read of req
    hand,                     \* the chunk it is about to send
    credits,                  \* dump_credit_sem
    air,                      \* chunks in the stack, oldest first
    link,
    hpc, target, expected,    \* the host: its dump
    buf, max_end, resumes,
    (* history *)
    foreign,   \* the dump began with chunks of an earlier one under way
    hasty,     \* the host listed the session while it was being stopped
    crowded,   \* credits were refilled with chunks in flight
    late,      \* chunks sent for a request since it was cancelled
    dumps, links

log    == <<count, stopping>>
asked  == <<sem, abort, req>>
thread == <<dpc, todo, got, hand>>
radio  == <<credits, air, link>>
host   == <<hpc, target, expected, buf, max_end, resumes>>
flags  == <<foreign, hasty, crowded, late>>
bounds == <<dumps, links>>
vars   == <<log, asked, thread, radio, host, flags, bounds>>

-----------------------------------------------------------------------------
Fields == {"session", "off", "len"}
None   == <<>>   \* an empty place in the buffer
NoReq  == [session |-> Newest, off |-> 0, len |-> 0]
NoChunk == [off |-> 0, data |-> <<>>, last |-> FALSE]
Smaller(a, b) == IF a < b THEN a ELSE b
Working == {"loop", "credit", "send"}

-----------------------------------------------------------------------------
(* The log, while a stop flushes what is staged.                           *)

LogAppends ==
    /\ stopping /\ count[Newest] < Length
    /\ count' = [count EXCEPT ![Newest] = @ + 1]
    /\ UNCHANGED <<stopping, asked, thread, radio, host, flags, bounds>>

StopReturns ==
    /\ stopping /\ stopping' = FALSE
    /\ UNCHANGED <<count, asked, thread, radio, host, flags, bounds>>

-----------------------------------------------------------------------------
(* ble_transport_dump_request, in the handler of the host's write.         *)

Request(s, from, len) ==
    /\ abort' = TRUE
    /\ req' = [session |-> s, off |-> from, len |-> len]
    /\ sem' = 1
    /\ late' = 0

-----------------------------------------------------------------------------
(* dump_thread.                                                            *)

DumpWakes ==
    /\ dpc = "wait" /\ sem = 1
    /\ sem' = 0
    /\ dpc' = "clear"
    /\ UNCHANGED <<log, abort, req, todo, got, hand, radio, host, flags,
                   bounds>>

DumpClearsAbort ==
    /\ dpc = "clear" /\ dpc' = "request"
    /\ abort' = FALSE
    /\ UNCHANGED <<log, sem, req, todo, got, hand, radio, host, flags,
                   bounds>>

(* The request is read field by field.                                     *)
DumpReadsRequest(f) ==
    /\ dpc = "request" /\ f \notin got
    /\ todo' = [todo EXCEPT ![f] = req[f]]
    /\ got' = got \union {f}
    /\ UNCHANGED <<log, asked, dpc, hand, radio, host, flags, bounds>>

Refilled == Credits

(* Credits are drained and given afresh.                                   *)
DumpRefills ==
    /\ dpc = "request" /\ got = Fields
    /\ dpc' = "loop" /\ got' = {}
    /\ credits' = Refilled
    /\ crowded' = (crowded \/ air # <<>>)
    /\ late' = 0
    /\ UNCHANGED <<log, asked, todo, hand, air, link, host, foreign, hasty,
                   bounds>>

(* Mutant: the flag is not looked at between chunks.                       *)
GoesOn_Deaf == todo.len > 0
GoesOn == todo.len > 0 /\ ~abort

DumpEnds ==
    /\ dpc = "loop" /\ ~GoesOn
    /\ dpc' = "wait" /\ todo' = NoReq
    /\ UNCHANGED <<log, asked, got, hand, radio, host, flags, bounds>>

(* imu_log_read_session: what is there, from the offset on.                *)
Readable(s, off, want) ==
    IF off >= count[s] THEN <<>>
    ELSE [i \in 1..Smaller(want, count[s] - off) |-> <<s, off + i - 1>>]

DumpReadsChunk ==
    /\ dpc = "loop" /\ GoesOn
    /\ LET want == Smaller(todo.len, Chunk)
           data == Readable(todo.session, todo.off, want)
       IN hand' = [off  |-> todo.off, data |-> data,
                   last |-> Len(data) < want \/ Len(data) = todo.len]
    /\ dpc' = "credit"
    /\ UNCHANGED <<log, asked, todo, got, radio, host, flags, bounds>>

(* A failed read ends the dump, with a message.                            *)
DumpReadFails ==
    /\ dpc = "loop" /\ GoesOn
    /\ dpc' = "wait" /\ todo' = NoReq
    /\ UNCHANGED <<log, asked, got, hand, radio, host, flags, bounds>>

DumpTakesCredit ==
    /\ dpc = "credit" /\ credits > 0
    /\ dpc' = "send"
    /\ credits' = credits - 1
    /\ UNCHANGED <<log, asked, todo, got, hand, air, link, host, flags,
                   bounds>>

(* Mutant: the thread waits for a credit as long as it takes.              *)
DumpStalls_Never == FALSE /\ UNCHANGED vars

(* Three seconds without a credit.                                         *)
DumpStalls ==
    /\ dpc = "credit" /\ credits = 0
    /\ dpc' = "wait" /\ hand' = NoChunk /\ todo' = NoReq
    /\ UNCHANGED <<log, asked, got, radio, host, flags, bounds>>

Advance == [todo EXCEPT !.off = @ + Len(hand.data), !.len = @ - Len(hand.data)]

(* The stack takes the chunk, at once or after retries; the loop ends      *)
(* after the last one.                                                     *)
DumpSends ==
    /\ dpc = "send" /\ link
    /\ air' = Append(air, hand)
    /\ dpc' = IF hand.last THEN "wait" ELSE "loop"
    /\ todo' = IF hand.last THEN NoReq ELSE Advance
    /\ hand' = NoChunk
    /\ late' = IF abort THEN late + 1 ELSE late
    /\ UNCHANGED <<log, asked, got, credits, link, host, foreign, hasty,
                   crowded, bounds>>

(* Not connected, not subscribed, too many retries or cancelled meanwhile. *)
DumpSendFails ==
    /\ dpc = "send"
    /\ credits' = Smaller(credits + 1, Credits)
    /\ dpc' = "wait" /\ hand' = NoChunk /\ todo' = NoReq
    /\ UNCHANGED <<log, asked, got, air, link, host, flags, bounds>>

-----------------------------------------------------------------------------
(* The host.                                                               *)

(* Dumping s: its size is looked up in the directory and all of it         *)
(* requested.                                                              *)
HostDumps(s) ==
    /\ link /\ hpc # "waiting" /\ dumps < MaxDumps /\ dumps' = dumps + 1
    /\ count[s] > 0
    /\ hpc' = "waiting" /\ target' = s /\ expected' = count[s]
    /\ buf' = [i \in Offsets |-> None] /\ max_end' = 0 /\ resumes' = 0
    /\ Request(s, 0, count[s])
    /\ foreign' = (air # <<>> \/ dpc # "wait")
    /\ hasty' = (stopping /\ s = Newest)
    /\ UNCHANGED <<log, thread, radio, crowded, links>>

(* Mutant: the host does not skip what it has.                             *)
ResumeFrom_Next == Smaller(max_end + 1, expected)
ResumeFrom == max_end

(* Five seconds without a chunk.                                           *)
HostResumes ==
    /\ link /\ hpc = "waiting" /\ resumes < MaxResumes
    /\ resumes' = resumes + 1
    /\ Request(target, ResumeFrom, expected - ResumeFrom)
    /\ UNCHANGED <<log, thread, radio, hpc, target, expected, buf, max_end,
                   foreign, hasty, crowded, bounds>>

HostGivesUp ==
    /\ hpc = "waiting" /\ (resumes >= MaxResumes \/ ~link)
    /\ hpc' = "failed"
    /\ UNCHANGED <<log, asked, thread, radio, target, expected, buf, max_end,
                   resumes, flags, bounds>>

(* on_chunk: the data go where the offset says, cut at the expected end.   *)
HostTakes(c) ==
    LET end == Smaller(c.off + Len(c.data), expected)
    IN IF hpc # "waiting" THEN UNCHANGED host
       ELSE /\ buf' = [i \in Offsets |->
                         IF i >= c.off /\ i < end THEN c.data[i - c.off + 1]
                         ELSE buf[i]]
            /\ max_end' = IF end > max_end THEN end ELSE max_end
            /\ hpc' = IF max_end' >= expected THEN "done" ELSE hpc
            /\ UNCHANGED <<target, expected, resumes>>

(* The oldest chunk in the stack arrives; dump_sent_cb.                    *)
Arrives ==
    /\ air # <<>>
    /\ air' = Tail(air)
    /\ credits' = Smaller(credits + 1, Credits)
    /\ HostTakes(Head(air))
    /\ UNCHANGED <<log, asked, thread, link, flags, bounds>>

(* fleet.py collect --erase, after a complete dump.                        *)
HostErases ==
    /\ link /\ hpc = "done"
    /\ hpc' = "erased"
    /\ count' = [s \in Sessions |-> 0] /\ stopping' = FALSE
    /\ UNCHANGED <<asked, thread, radio, target, expected, buf, max_end,
                   resumes, flags, bounds>>

-----------------------------------------------------------------------------
(* The connection.  What is in the stack when it ends is lost; its         *)
(* callbacks may come or not.                                              *)
Disconnects ==
    /\ link /\ link' = FALSE
    /\ air' = <<>>
    /\ \E k \in 0..Len(air) : credits' = Smaller(credits + k, Credits)
    /\ abort' = TRUE /\ late' = 0
    /\ UNCHANGED <<log, sem, req, thread, host, foreign, hasty, crowded,
                   bounds>>

(* The dump thread waits for a request or for a credit.                    *)
Blocked == (dpc = "wait" /\ sem = 0) \/ (dpc = "credit" /\ credits = 0)

(* Scanning, connecting and subscribing take longer than the dump thread   *)
(* needs to block.                                                         *)
Connects ==
    /\ ~link /\ links < MaxLinks
    /\ Blocked
    /\ link' = TRUE /\ links' = links + 1
    /\ UNCHANGED <<log, asked, thread, credits, air, host, flags, dumps>>

-----------------------------------------------------------------------------
Init ==
    /\ count \in [Sessions -> 1..Length]
    /\ \A s \in Sessions \ {Newest} : count[s] = Length
    /\ stopping = TRUE
    /\ sem = 0 /\ abort = FALSE /\ req = NoReq
    /\ dpc = "wait" /\ todo = NoReq /\ got = {} /\ hand = NoChunk
    /\ credits = 0 /\ air = <<>> /\ link = FALSE
    /\ hpc = "idle" /\ target = Newest /\ expected = 0
    /\ buf = [i \in Offsets |-> None] /\ max_end = 0 /\ resumes = 0
    /\ foreign = FALSE /\ hasty = FALSE /\ crowded = FALSE /\ late = 0
    /\ dumps = 0 /\ links = 0

DumpThread == \/ DumpWakes \/ DumpClearsAbort \/ DumpRefills \/ DumpEnds
              \/ DumpReadsChunk \/ DumpReadFails \/ DumpTakesCredit
              \/ DumpStalls \/ DumpSends \/ DumpSendFails
              \/ \E f \in Fields : DumpReadsRequest(f)
Host == \/ \E s \in Sessions : HostDumps(s)
        \/ HostResumes \/ HostGivesUp \/ HostErases

Next == \/ DumpThread \/ Host \/ Arrives \/ LogAppends \/ StopReturns
        \/ Disconnects \/ Connects

Spec == Init /\ [][Next]_vars

(* Every wait of the dump thread has a timeout; nothing else is assumed,   *)
(* neither of the link nor of the host.                                    *)
FairSpec == Spec /\ WF_vars(DumpThread)

-----------------------------------------------------------------------------
(* Correctness.                                                            *)

(* After a request or a disconnect at most one chunk of the dump that is   *)
(* cancelled goes out ("a new request cancels any dump in flight",         *)
(* ble-protocol.md).                                                       *)
CancelPrompt == late <= 1

(* At most two notifications are in flight ("unpaced notify streams wedge  *)
(* the Bluetooth host", ble-protocol.md), as long as no request comes      *)
(* while chunks of an earlier one are: it refills the credits of both.     *)
FlightBounded == ~crowded => Len(air) <= Credits

(* Type correctness; credits and what is in flight never exceed            *)
(* DUMP_CREDITS, and a dump that is cancelled stops at once.               *)
TypeOK ==
    /\ count \in [Sessions -> 0..Length] /\ stopping \in BOOLEAN
    /\ sem \in {0, 1} /\ abort \in BOOLEAN
    /\ {req, todo} \subseteq
           [session : Sessions, off : 0..Length, len : 0..Length]
    /\ dpc \in {"wait", "clear", "request"} \union Working
    /\ got \subseteq Fields
    /\ hand \in [off : 0..Length, data : Seq(Sessions \X Offsets),
                last : BOOLEAN]
    /\ credits \in 0..Credits /\ Len(air) \in Nat /\ link \in BOOLEAN
    /\ hpc \in {"idle", "waiting", "done", "failed", "erased"}
    /\ target \in Sessions /\ expected \in 0..Length
    /\ buf \in [Offsets -> (Sessions \X Offsets) \union {None}]
    /\ max_end \in 0..expected /\ resumes \in 0..MaxResumes
    /\ {foreign, hasty, crowded} \subseteq BOOLEAN /\ late \in Nat
    /\ CancelPrompt
    /\ FlightBounded

(* Up to the highest offset received the host has the session's own data,  *)
(* in place and without a hole ("re-request from the highest contiguous    *)
(* offset"), whatever is resumed, cancelled or torn off, unless chunks of  *)
(* an earlier dump were still under way when it began: a chunk does not    *)
(* say which session it is of.                                             *)
HostHasSession ==
    ~foreign => \A i \in 0..max_end - 1 : buf[i] = <<target, i>>

(* Nothing of the session that is erased after a good dump is missing in   *)
(* it, if its size was not read while the stop was still flushing.         *)
EraseLosesNothing ==
    [][hpc' = "erased" /\ hpc # "erased" /\ ~foreign /\ ~hasty
         => \A i \in 0..count[target] - 1 : buf[i] = <<target, i>>]_vars

(* The dump thread is never deaf to a request, whatever becomes of the     *)
(* connection and of the chunks it waits for.                              *)
DumpListens == sem = 1 ~> dpc = "clear"
=============================================================================
