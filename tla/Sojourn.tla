------------------------------ MODULE Sojourn ------------------------------
(***************************************************************************)
(* The times at which an application's writes entered the kernel           *)
(* (--sojourn-time-input): after the traces have been read,                *)
(* Dump::calculateSojournTime hands each write to                          *)
(* RangeManager::insertByteRange with INSERT_SOJOURN, which attributes it  *)
(* to the ranges that carried its bytes (addSegmentEnteredKernelTime) and  *)
(* leaves the map alone.  One step is one call of insertByteRange.         *)
(***************************************************************************)
EXTENDS Connection, FiniteSetsExt

VARIABLES
    input,             \* "off", "reading", "insert", or why reading stopped
    writes,            \* the lines of the input file that have been read
    sojFrame,          \* start and level of the current call of insertByteRange
    sojourn_tstamps    \* for each range: where an attributed part ends, and its time

sojVars == <<input, writes, sojFrame, sojourn_tstamps>>
allVars == <<vars, sojVars>>

Writes == [seq : Nat, endSeq : Nat, time : Nat]
SojFrames == [start : Nat, level : Nat]

SojInit ==
    /\ Init
    /\ input = "off"
    /\ writes = <<>>
    /\ sojFrame = [start |-> 0, level |-> 0]
    /\ sojourn_tstamps = <<>>

-----------------------------------------------------------------------------
(* The application. *)

Write == writes[Len(writes)]

\* The bytes handed to the kernel so far end here.
Written == IF writes = <<>> THEN base ELSE Write.endSeq
LastWritten == IF writes = <<>> THEN 0 ELSE Write.time

\* TCP has sent its FIN: what it sends behind it has a number beyond the data.
FinSent == tcp = "fin" \/ \E k \in Keys : k > nxt

\* The capture time of the first transmission of byte x.
FirstSent(x) ==
    LET sent == {t \in 1 .. clock : [seq |-> x, ts |-> tstamp_tcp(t)] \in wire}
    IN IF sent = {} THEN clock ELSE Min(sent)

-----------------------------------------------------------------------------
(* calculateSojournTime *)

\* Mutant of StartSojourn: only ranges with bytes are prepared.
StartSojournData ==
    /\ input = "off"
    /\ op = "idle"
    /\ phase # "sent"
    /\ ackNo = Len(acks)
    /\ recvNo = 0
    /\ input' = "reading"
    /\ sojourn_tstamps' = [k \in {j \in Keys : byte_count(j) # 0} |-> <<>>]
    /\ UNCHANGED <<vars, writes, sojFrame>>

\* Bound: no receiver's trace has been read, which would only split ranges.
StartSojourn ==
    /\ input = "off"
    /\ op = "idle"
    /\ phase # "sent"
    /\ ackNo = Len(acks)
    /\ recvNo = 0
    /\ input' = "reading"
    /\ sojourn_tstamps' = [k \in Keys |-> <<>>]
    /\ UNCHANGED <<vars, writes, sojFrame>>

\* A line of the input: the next n bytes, written at time, which is not after
\* the first of them is sent.  The last write may not be in the trace in full,
\* unless TCP has sent its FIN, which it does behind all data.
calculateSojournTime(n, time) ==
    /\ input = "reading"
    /\ IF FinSent THEN Written + n <= nxt ELSE Written <= nxt
    /\ LastWritten <= time /\ time <= FirstSent(Written)
    /\ input' = "insert"
    /\ writes' = Append(writes, [seq |-> Written, endSeq |-> Written + n, time |-> time])
    /\ sojFrame' = [start |-> Written, level |-> 0]
    /\ UNCHANGED <<vars, sojourn_tstamps>>

SojReturn == input' = "reading" /\ UNCHANGED sojFrame

SojRecurse(start) ==
    /\ sojFrame' = [start |-> start, level |-> sojFrame.level + 1]
    /\ UNCHANGED input

\* sent_data_pkt_pcap_index: the last transmission that was a packet of its own.
PacketEntries(k) ==
    {i \in DOMAIN ranges[k].sent_tstamp_pcap : ranges[k].sent_tstamp_pcap[i].sent_t = "ST_PKT"}

\* Mutant of addSegmentEnteredKernelTime: the part ends where the write does.
addSegmentEnteredKernelTimeWhole(k, seq) ==
    sojourn_tstamps' =
        IF /\ PacketEntries(k) # {}
           /\ Write.time <= ranges[k].sent_tstamp_pcap[Max(PacketEntries(k))].time
        THEN [sojourn_tstamps EXCEPT ![k] = Append(@, [seq |-> Write.endSeq, time |-> Write.time])]
        ELSE sojourn_tstamps

\* Refused if the range has no packet, as the second part of a split range and
\* the new data of a bundle, or if the packet was sent before the write.
addSegmentEnteredKernelTime(k, seq) ==
    sojourn_tstamps' =
        IF /\ PacketEntries(k) # {}
           /\ Write.time <= ranges[k].sent_tstamp_pcap[Max(PacketEntries(k))].time
        THEN [sojourn_tstamps EXCEPT ![k] = Append(@, [seq |-> seq, time |-> Write.time])]
        ELSE sojourn_tstamps

-----------------------------------------------------------------------------
(* insertByteRange with INSERT_SOJOURN.  The first range is never behind a  *)
(* write, so the assert of the search cannot fail.                          *)

Inside(k) ==
    /\ k \in Keys
    /\ IsPrev(sojFrame.start, k)
    /\ ranges[k].endSeq > sojFrame.start

Lookup ==
    /\ input = "insert"
    /\ UNCHANGED <<vars, writes>>

\* The write starts inside a range: the rest of the range gets no time if the
\* write goes on behind it.
SojournInside ==
    /\ Lookup
    /\ sojFrame.start \notin Keys
    /\ sojFrame.start < lastSeq
    /\ \E k \in Keys :
         /\ Inside(k)
         /\ IF Write.endSeq <= ranges[k].endSeq
            THEN addSegmentEnteredKernelTime(k, Write.endSeq) /\ SojReturn
            ELSE SojRecurse(ranges[k].endSeq) /\ UNCHANGED sojourn_tstamps

\* No range holds the start of the write.
SojournUnknown ==
    /\ Lookup
    /\ sojFrame.start \notin Keys
    /\ sojFrame.start >= lastSeq \/ ~\E k \in Keys : Inside(k)
    /\ SojReturn
    /\ UNCHANGED sojourn_tstamps

\* Mutant of SojournSpan: a refused time ends the input.
SojournSpanRefused ==
    LET k == sojFrame.start
    IN /\ Lookup
       /\ k \in Keys
       /\ ranges[k].endSeq < Write.endSeq
       /\ addSegmentEnteredKernelTime(k, ranges[k].endSeq)
       /\ IF IsLast(k) \/ PacketEntries(k) = {} THEN input' = "stopped" /\ UNCHANGED sojFrame
          ELSE SojRecurse(ranges[k].endSeq)

\* The write covers a range and goes on behind it.  At the last range the
\* result is false, at which calculateSojournTime stops reading for good; the
\* exception is not caught.
SojournSpan ==
    LET k == sojFrame.start
    IN /\ Lookup
       /\ k \in Keys
       /\ ranges[k].endSeq < Write.endSeq
       /\ addSegmentEnteredKernelTime(k, ranges[k].endSeq)
       /\ IF IsLast(k) THEN input' = "stopped" /\ UNCHANGED sojFrame
          ELSE IF sojFrame.level > RecursionLevel
          THEN input' = "recursion_level" /\ UNCHANGED sojFrame
          ELSE SojRecurse(ranges[k].endSeq)

\* The write ends in the range that starts where it does.
SojournWithin ==
    LET k == sojFrame.start
    IN /\ Lookup
       /\ k \in Keys
       /\ ranges[k].endSeq >= Write.endSeq
       /\ addSegmentEnteredKernelTime(k, Write.endSeq)
       /\ SojReturn

insertSojourn == SojournInside \/ SojournUnknown \/ SojournSpan \/ SojournWithin

SojNext ==
    \/ input = "off" /\ Next /\ UNCHANGED sojVars
    \/ StartSojourn
    \/ \E n \in 1 .. MaxPayload, time \in 0 .. clock : calculateSojournTime(n, time)
    \/ insertSojourn

SojSpec == SojInit /\ [][SojNext]_allVars

-----------------------------------------------------------------------------
(* ByteRange::getSojournTimes *)

\* Mutant of send_tstamp_index: the first entry, whatever it is.
send_tstamp_indexFirst(k) == 1

\* The transmission from which the sojourn time is measured.
send_tstamp_index(k) ==
    IF PacketEntries(k) = {} THEN Len(ranges[k].sent_tstamp_pcap) ELSE Min(PacketEntries(k))

\* The parts of a range that have a time: first byte, end and sojourn time.
getSojournTimes(k) ==
    {[first |-> IF i = 1 THEN k ELSE sojourn_tstamps[k][i - 1].seq,
      end |-> sojourn_tstamps[k][i].seq,
      written |-> sojourn_tstamps[k][i].time,
      usec |-> ranges[k].sent_tstamp_pcap[send_tstamp_index(k)].time
                 - sojourn_tstamps[k][i].time] :
        i \in DOMAIN sojourn_tstamps[k]}

-----------------------------------------------------------------------------
(* Properties. *)

\* The types of the state.
SojTypeOK ==
    /\ input \in {"off", "reading", "insert", "stopped", "recursion_level"}
    /\ writes \in Seq(Writes)
    /\ sojFrame \in SojFrames
    /\ input # "off" => sojourn_tstamps \in [Keys -> Seq([seq : Nat, time : Nat])]

\* The write w goes on behind the range in which it starts.
Straddles(w, k) == k < w.seq /\ w.seq < ranges[k].endSeq /\ ranges[k].endSeq < w.endSeq

\* Between two lines of the input a byte of a range has the time of exactly the
\* write that carried it, or none: none if the range has no packet of its own or
\* if the write starts inside the range and goes on behind it.  No write is
\* credited with the bytes of another or of another range, however packets and
\* writes overlap (insertByteRange, addSegmentEnteredKernelTime,
\* getSojournTimes).
SojournAttribution ==
    input = "reading" =>
        \A i \in DOMAIN writes, k \in Keys :
            \A x \in writes[i].seq .. writes[i].endSeq - 1 : Covers(k, x) =>
                LET parts == {p \in getSojournTimes(k) : p.first <= x /\ x < p.end}
                IN IF PacketEntries(k) = {} \/ Straddles(writes[i], k) THEN parts = {}
                   ELSE /\ parts # {}
                        /\ \A p \in parts :
                             /\ writes[i].seq <= p.first /\ p.end <= writes[i].endSeq
                             /\ p.end <= ranges[k].endSeq
                             /\ p.written = writes[i].time

\* "Found ByteRange with negative sojourn latency": "Should not be possible"
\* (getSojournTimes), although the range's first packet is used there and its
\* last one where the time is accepted.
SojournNonNegative ==
    input # "off" => \A k \in Keys : \A p \in getSojournTimes(k) : p.usec >= 0

\* Reading stops at a write that is not in the trace in full, so that no byte of
\* the trace is left without the write that carried it, and never with the
\* exception of a recursion that does not get on.
SojournStopsAtEnd ==
    /\ input = "stopped" => Written > nxt
    /\ input # "recursion_level"

-----------------------------------------------------------------------------
(* Why they hold, before a receiver's trace is read: what the network has   *)
(* of the transmissions, ...                                                *)

PacketsOf(k) == PacketTimes(ranges[k].sent_tstamp_pcap)

\* A packet of a range stands for a transmission of all of its bytes; a range
\* without bytes has one at most, and none if data may still fill it.
PacketsOnWire(k) ==
    /\ \A t \in PacketsOf(k) :
         /\ t \in 1 .. clock
         /\ \A x \in k .. ranges[k].endSeq - 1 : [seq |-> x, ts |-> tstamp_tcp(t)] \in wire
    /\ ~HasBytes(k) =>
         /\ \A t, u \in PacketsOf(k) : t = u
         /\ base <= k /\ (tcp = "open" \/ k < nxt) => PacketsOf(k) = {}

\* So does the segment in hand.
SegmentOnWire ==
    op = "insert" =>
        /\ SENT
        /\ seg.time \in 1 .. clock
        /\ \A x \in frame.start .. frame.end - 1 :
             [seq |-> x, ts |-> tstamp_tcp(seg.time)] \in wire

\* No byte was sent before the ones in front of it.
SentInOrder ==
    /\ \A p \in wire :
         /\ \E t \in 1 .. clock : p.ts = tstamp_tcp(t)
         /\ p.seq < nxt => \A y \in base .. p.seq : \E q \in wire : q.seq = y /\ q.ts <= p.ts
         /\ tcp = "open" => p.seq < nxt
    /\ \A y \in base .. nxt - 1 : \E q \in wire : q.seq = y

\* What the packets of the ranges say of the network, until it delivers.
WireInv ==
    recvNo = 0 => /\ \A k \in Keys : PacketsOnWire(k)
                  /\ SegmentOnWire
                  /\ SentInOrder

-----------------------------------------------------------------------------
(* ... and what is done with the writes.                                    *)

\* The writes follow each other.
WritesInOrder ==
    /\ \A i \in DOMAIN writes :
         /\ base <= writes[i].seq /\ writes[i].seq < writes[i].endSeq
         /\ writes[i].endSeq - writes[i].seq <= MaxPayload
    /\ \A i, j \in DOMAIN writes : i < j => writes[i].endSeq <= writes[j].seq

\* The call in progress gets on by at least a byte with each recursion, to the
\* end of a range.
WriteInProgress ==
    input = "insert" => /\ writes # <<>>
                        /\ Write.seq <= sojFrame.start /\ sojFrame.start < Write.endSeq
                        /\ sojFrame.level <= sojFrame.start - Write.seq
                        /\ sojFrame.start = Write.seq \/ ~\E k \in Keys : Inside(k)
                        /\ FinSent => Write.endSeq <= nxt

\* The inductive invariant behind SojournStopsAtEnd.
LookupInv ==
    /\ input # "off" => op = "idle" /\ recvNo = 0
    /\ input = "off" => writes = <<>>
    /\ WritesInOrder
    /\ WriteInProgress
    /\ SojournStopsAtEnd

\* No write is later than a packet with its bytes or with ones behind them.
WrittenBeforeSent ==
    \A i \in DOMAIN writes, k \in Keys :
        HasBytes(k) /\ writes[i].seq < ranges[k].endSeq =>
            \A t \in PacketsOf(k) : writes[i].time <= t

\* The bytes in front of this one have been looked up.
Progress == IF input = "insert" THEN sojFrame.start ELSE Written

\* The first byte of the i-th part of k.
PartStart(k, i) == IF i = 1 THEN k ELSE sojourn_tstamps[k][i - 1].seq

\* A part of a range lies in the write whose time it has.
PartKnown(k, i) ==
    LET part == sojourn_tstamps[k][i]
    IN /\ \A t \in PacketsOf(k) : part.time <= t
       /\ HasBytes(k) =>
            /\ part.seq <= ranges[k].endSeq
            /\ \E j \in DOMAIN writes :
                 /\ writes[j].seq <= PartStart(k, i) /\ part.seq <= writes[j].endSeq
                 /\ part.time = writes[j].time
                 /\ ~Straddles(writes[j], k)

\* A byte that has been looked up is in a part of its range, unless its write
\* straddles the end of the range.
LookedUp(k, x) ==
    \A i \in DOMAIN writes :
        writes[i].seq <= x /\ x < writes[i].endSeq /\ ~Straddles(writes[i], k) =>
            \E n \in DOMAIN sojourn_tstamps[k] :
                PartStart(k, n) <= x /\ x < sojourn_tstamps[k][n].seq

\* The parts of a range: the next one starts where the bytes looked up end.
PartsKnown(k) ==
    LET parts == sojourn_tstamps[k]
    IN /\ PacketEntries(k) = {} => parts = <<>>
       /\ \A i \in DOMAIN parts : PartKnown(k, i)
       /\ input \in {"reading", "insert"} /\ HasBytes(k) /\ PacketEntries(k) # {} =>
            /\ Progress <= k => parts = <<>>
            /\ k < Progress /\ Progress < ranges[k].endSeq =>
                 parts # <<>> /\ parts[Len(parts)].seq = Progress
            /\ \A x \in k .. ranges[k].endSeq - 1 : x < Progress => LookedUp(k, x)

\* The inductive invariant behind SojournAttribution and SojournNonNegative.
SojInv ==
    /\ LookupInv
    /\ input # "off" => WrittenBeforeSent /\ \A k \in Keys : PartsKnown(k)

=============================================================================
