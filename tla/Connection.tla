----------------------------- MODULE Connection -----------------------------
(***************************************************************************)
(* One connection of a sender trace, from the first captured packet to the *)
(* end of the analysis input: Dump::analyseSender reads the file twice,    *)
(* first all segments sent (processSent: Connection::registerSent, then    *)
(* RangeManager::insertSentRange), then all acknowledgements (processAcks: *)
(* RangeManager::processAck); Dump::processRecvd then reads the receiver's *)
(* trace (RangeManager::insertReceivedRange).                              *)
(*                                                                         *)
(* The environment is the host under observation and the capture: what     *)
(* TCP sends, in which order the packets are captured and what the capture *)
(* loses.  Sequence numbers are offsets from the first captured packet.    *)
(***************************************************************************)
EXTENDS RangeManager, Sequences

CONSTANTS
    FirstSeqs,        \* raw numbers of the first packet
    SynSlack,         \* 10 in the program
    SynOffsets,       \* distance of a later SYN's number from the first one
    Bases,            \* {1}: the capture begins with the SYN; {0}: with data
    MaxSeq,           \* bound: bytes of the stream
    MaxPayload,       \* bound: bytes in a segment
    MaxPackets,       \* bound: segments in the sender trace
    MaxAcks,          \* bound: acknowledgements in the sender trace
    MaxRecv,          \* bound: segments in the receiver trace
    AllowRDB,         \* may a segment bundle old and new data?
    AllowDrop,        \* may the capture miss a segment?
    AllowKeepAlive,   \* may the sender probe with an old sequence number?
    AllowReorder,     \* may an older acknowledgement arrive later?
    AllowDup          \* may the network deliver a packet twice?

ASSUME BoundsAssumption ==
    /\ FirstSeqs \subseteq Nat
    /\ SynSlack \in Nat
    /\ SynOffsets \subseteq Nat \ {0, 1}
    /\ Bases \subseteq {0, 1}
    /\ MaxSeq \in Nat /\ MaxPayload \in Nat
    /\ MaxPackets \in Nat /\ MaxAcks \in Nat /\ MaxRecv \in Nat
ASSUME FlagsAssumption ==
    {AllowRDB, AllowDrop, AllowKeepAlive, AllowReorder, AllowDup} \subseteq BOOLEAN

VARIABLES
    conn,       \* the counters of Connection
    phase,      \* which of the three passes over the traces is going on
    clock,      \* capture time of the latest packet
    base,       \* offset of the first byte of data
    nxt,        \* offset behind the last byte sent
    tcp,        \* "open", or the sender has sent "fin" or "rst"
    reuse,      \* offsets of the SYNs of later connections on the same port
    acks,       \* acknowledgements in the sender trace, in capture order
    ackNo,      \* how many of them have been processed
    recvNo,     \* how many segments of the receiver trace have been processed
    wire,       \* transmissions of bytes that have not arrived, by TCP timestamp
    arrived,    \* the TCP timestamp with which a byte arrived first
    dups        \* bytes that arrived again

\* A byte and the TCP timestamp of a segment that carried it.
StampedBytes == [seq : Nat, ts : Nat]

envVars == <<phase, clock, base, nxt, tcp, reuse, acks, ackNo, recvNo, wire, arrived, dups>>
vars == <<rmVars, conn, envVars>>

ConnCounters == [nrPacketsSent : Nat, nrDataPacketsSent : Nat,
                 totBytesSent : Nat, totRDBBytesSent : Nat,
                 totNewDataSent : Nat, totRetransBytesSent : Nat,
                 nrRetrans : Nat, bundleCount : Nat,
                 lastLargestStartSeq : Nat, lastLargestEndSeq : Nat,
                 closed : BOOLEAN, ignored_count : Nat]

Init ==
    /\ rmInit
    /\ firstSeq \in FirstSeqs
    /\ conn = [nrPacketsSent |-> 0, nrDataPacketsSent |-> 0,
               totBytesSent |-> 0, totRDBBytesSent |-> 0,
               totNewDataSent |-> 0, totRetransBytesSent |-> 0,
               nrRetrans |-> 0, bundleCount |-> 0,
               lastLargestStartSeq |-> 0, lastLargestEndSeq |-> 0,
               closed |-> FALSE, ignored_count |-> 0]
    /\ phase = "sent"
    /\ clock = 0
    /\ base \in Bases
    /\ nxt = base
    /\ tcp = "open"
    /\ reuse = {}
    /\ acks = <<>>
    /\ ackNo = 0
    /\ recvNo = 0
    /\ wire = {}
    /\ arrived = {}
    /\ dups = 0

-----------------------------------------------------------------------------
(* Connection::registerSent *)

\* Not the data that follows what was seen so far.
Unexpected(s) ==
    /\ s.endSeq > conn.lastLargestEndSeq
    /\ conn.lastLargestEndSeq + 1 # s.seq

\* Mutant of Ignored: a closed connection takes everything.
IgnoredNever(s) == FALSE

Ignored(s) == Unexpected(s) /\ conn.closed

\* A SYN far from the first sequence number: the port is used again.
Reused(s) == Unexpected(s) /\ s.flag = "syn" /\ s.seq > SynSlack

\* A SYN close to the first sequence number restarts the numbering.
Restarted(s) == Unexpected(s) /\ s.flag = "syn" /\ s.seq <= SynSlack

NewData(s) == s.endSeq > conn.lastLargestEndSeq

\* Old and new data in one segment.
IsBundle(s) ==
    /\ NewData(s)
    /\ \/ /\ s.seq = conn.lastLargestStartSeq
          /\ conn.lastLargestStartSeq + conn.lastLargestEndSeq # 0
       \/ s.seq < conn.lastLargestEndSeq

\* Mutant of countData: a bundle counts all of its bytes as new.
countDataAllNew(s) ==
    LET payload == payloadSize(s)
        old == conn.lastLargestEndSeq - s.seq
        c == [conn EXCEPT !.nrPacketsSent = @ + 1,
                          !.nrDataPacketsSent = @ + 1,
                          !.lastLargestStartSeq = s.seq,
                          !.totBytesSent = @ + payload]
    IN IF NewData(s)
       THEN [c EXCEPT !.totRDBBytesSent = @ + (IF IsBundle(s) THEN old ELSE 0),
                      !.totNewDataSent = @ + payload,
                      !.lastLargestEndSeq = s.endSeq]
       ELSE [c EXCEPT !.nrRetrans = @ + 1,
                      !.totRetransBytesSent = @ + payload]

\* The counters after a segment with payload.
countData(s) ==
    LET payload == payloadSize(s)
        old == conn.lastLargestEndSeq - s.seq
        c == [conn EXCEPT !.nrPacketsSent = @ + 1,
                          !.nrDataPacketsSent = @ + 1,
                          !.lastLargestStartSeq = s.seq,
                          !.totBytesSent = @ + payload]
    IN IF IsBundle(s)
       THEN [c EXCEPT !.bundleCount = @ + 1,
                      !.totRDBBytesSent = @ + old,
                      !.totNewDataSent = @ + (payload - old),
                      !.lastLargestEndSeq = s.endSeq]
       ELSE IF NewData(s)
       THEN [c EXCEPT !.totNewDataSent = @ + payload,
                      !.lastLargestEndSeq = s.endSeq]
       ELSE [c EXCEPT !.nrRetrans = @ + 1,
                      !.totRetransBytesSent = @ + payload]

\* Mutant of classify: old data is not marked as sent again.
classifyNew(s) ==
    IF payloadSize(s) = 0
    THEN IF Restarted(s) THEN [s EXCEPT !.seq = 0, !.endSeq = 0] ELSE s
    ELSE [s EXCEPT !.is_rdb = IsBundle(s),
                   !.rdb_end_seq = IF IsBundle(s) THEN conn.lastLargestEndSeq ELSE 0]

\* The segment as registerSent leaves it.
classify(s) ==
    IF payloadSize(s) = 0
    THEN IF Restarted(s) THEN [s EXCEPT !.seq = 0, !.endSeq = 0] ELSE s
    ELSE [s EXCEPT !.is_rdb = IsBundle(s), !.retrans = ~NewData(s),
                   !.rdb_end_seq = IF IsBundle(s) THEN conn.lastLargestEndSeq ELSE 0]

\* What the network has to deliver after s was sent: its bytes, the SYN or the
\* FIN.  Only kept if there is a receiver trace.
OnWire(s) ==
    LET offsets == IF payloadSize(s) # 0 THEN s.seq .. s.endSeq - 1
                   ELSE IF s.flag \in {"syn", "fin"} THEN {s.seq} ELSE {}
    IN IF MaxRecv = 0 \/ reuse # {} THEN {}
       ELSE {[seq |-> x, ts |-> s.tstamp_tcp] : x \in offsets}

\* processSent: registerSent and, unless the segment is ignored, the first
\* call of insertByteRange.  The sender's SYN carries no data.
processSent(seq, endSeq, flag) ==
    LET s == [seq |-> seq, endSeq |-> endSeq, flag |-> flag,
              retrans |-> FALSE, is_rdb |-> FALSE, rdb_end_seq |-> 0,
              time |-> clock + 1, tstamp_tcp |-> tstamp_tcp(clock + 1)]
    IN /\ clock' = clock + 1
       /\ wire' = wire \cup OnWire(classify(s))
       /\ IF Ignored(s)
          THEN /\ conn' = [conn EXCEPT !.nrPacketsSent = @ + 1,
                                       !.ignored_count = @ + 1]
               /\ UNCHANGED <<op, frame, seg, firstSeq>>
          ELSE /\ conn' = IF payloadSize(s) # 0 THEN countData(s)
                          ELSE [conn EXCEPT !.nrPacketsSent = @ + 1,
                                            !.closed = @ \/ Reused(s)]
               /\ firstSeq' = IF Restarted(s) THEN firstSeq + s.seq ELSE firstSeq
               /\ insertSentRange(classify(s))
       /\ UNCHANGED <<ranges, lastSeq, highestAcked, ack,
                      phase, base, acks, ackNo, recvNo, arrived, dups>>

-----------------------------------------------------------------------------
(* The sender and the capture of its packets. *)

CanSend ==
    /\ phase = "sent"
    /\ op = "idle"
    /\ conn.nrPacketsSent < MaxPackets

\* The SYN is the first packet, if the capture has it at all, and the sender
\* is silent after a RST and once another connection has its port.
Established ==
    /\ CanSend
    /\ tcp # "rst"
    /\ reuse = {}
    /\ base = 0 \/ Keys # {}

\* A segment behind the FIN has its sequence number moved on by one.
SndNxt == IF tcp = "fin" THEN nxt + 1 ELSE nxt

SendSyn ==
    /\ CanSend
    /\ base = 1
    /\ nxt = 1
    /\ tcp = "open"
    /\ reuse = {}
    /\ processSent(0, 0, "syn")
    /\ UNCHANGED <<nxt, tcp, reuse>>

\* A SYN with another initial number: a retry before any data was sent, which
\* stays close to the first one, or a later connection on the same port, whose
\* number may lie anywhere, also inside the stream of this one.
SendOtherSyn(d) ==
    /\ CanSend
    /\ Keys # {}
    /\ d <= SynSlack => base = 1 /\ nxt = 1 /\ tcp = "open" /\ reuse = {}
    /\ reuse' = IF d > SynSlack THEN reuse \cup {d} ELSE reuse
    /\ processSent(d, d, "syn")
    /\ UNCHANGED <<nxt, tcp>>

\* The first data of a later connection.
SendReused(n) ==
    /\ CanSend
    /\ \E d \in reuse : processSent(d + 1, d + 1 + n, "none")
    /\ UNCHANGED <<nxt, tcp, reuse>>

SendNew(n, flag) ==
    /\ Established
    /\ tcp = "open"
    /\ nxt + n <= base + MaxSeq
    /\ nxt' = nxt + n
    /\ tcp' = IF flag = "fin" THEN "fin" ELSE tcp
    /\ processSent(nxt, nxt + n, flag)
    /\ UNCHANGED reuse

Retransmit(s, n, flag) ==
    /\ Established
    /\ base <= s /\ s + n <= nxt
    /\ flag = "fin" => s + n = nxt /\ tcp = "fin"
    /\ processSent(s, s + n, flag)
    /\ UNCHANGED <<nxt, tcp, reuse>>

\* Redundant data bundling: old data, then new data, in one segment.
SendBundle(s, n) ==
    /\ AllowRDB
    /\ Established
    /\ tcp = "open"
    /\ base <= s /\ s < nxt /\ s + n > nxt
    /\ s + n <= base + MaxSeq
    /\ nxt' = s + n
    /\ processSent(s, s + n, "none")
    /\ UNCHANGED <<tcp, reuse>>

SendPureAck ==
    /\ Established
    /\ processSent(SndNxt, SndNxt, "none")
    /\ UNCHANGED <<nxt, tcp, reuse>>

SendFin ==
    /\ Established
    /\ tcp' = "fin"
    /\ processSent(nxt, nxt, "fin")
    /\ UNCHANGED <<nxt, reuse>>

SendRst ==
    /\ Established
    /\ tcp' = "rst"
    /\ processSent(SndNxt, SndNxt, "rst")
    /\ UNCHANGED <<nxt, reuse>>

\* A keep-alive probe repeats the number of the last byte, without data.
SendKeepAlive ==
    /\ AllowKeepAlive
    /\ Established
    /\ tcp = "open"
    /\ nxt > base
    /\ processSent(nxt - 1, nxt - 1, "none")
    /\ UNCHANGED <<nxt, tcp, reuse>>

\* The capture misses a segment with new data.
DropNew(n) ==
    /\ AllowDrop
    /\ Established
    /\ Keys # {}
    /\ tcp = "open"
    /\ nxt + n <= base + MaxSeq
    /\ nxt' = nxt + n
    /\ wire' = wire \cup OnWire([NoSeg EXCEPT !.seq = nxt, !.endSeq = nxt + n,
                                             !.tstamp_tcp = tstamp_tcp(clock + 1)])
    /\ UNCHANGED <<rmVars, conn, phase, clock, base, tcp, reuse, acks, ackNo, recvNo, arrived, dups>>

\* An acknowledgement is captured.  Its timestamp may be the one that a pure
\* ack of the sender echoes.
AckArrives(a, echo) ==
    /\ phase = "sent"
    /\ op = "idle"
    /\ Keys # {}
    /\ Len(acks) < MaxAcks
    /\ base <= a /\ a <= SndNxt
    /\ AllowReorder \/ \A i \in DOMAIN acks : acks[i].ack <= a
    /\ clock' = clock + 1
    /\ acks' = Append(acks, [ack |-> a, time |-> clock + 1, echo |-> echo])
    /\ UNCHANGED <<rmVars, conn, phase, base, nxt, tcp, reuse, ackNo, recvNo, wire, arrived, dups>>

-----------------------------------------------------------------------------
(* The passes of Dump::analyseSender and Dump::processRecvd. *)

StartAcks ==
    /\ phase = "sent"
    /\ op = "idle"
    /\ Keys # {}
    /\ phase' = "acks"
    /\ UNCHANGED <<rmVars, conn, clock, base, nxt, tcp, reuse, acks, ackNo, recvNo, wire, arrived, dups>>

processAcks ==
    /\ phase = "acks"
    /\ ackNo < Len(acks)
    /\ \E first \in Keys :
         CallAck(acks[ackNo + 1].ack, acks[ackNo + 1].time, acks[ackNo + 1].echo, first)
    /\ ackNo' = ackNo + 1
    /\ UNCHANGED <<conn, phase, clock, base, nxt, tcp, reuse, acks, recvNo, wire, arrived, dups>>

StartRecv ==
    /\ phase = "acks"
    /\ op = "idle"
    /\ ackNo = Len(acks)
    /\ phase' = "recv"
    /\ UNCHANGED <<rmVars, conn, clock, base, nxt, tcp, reuse, acks, ackNo, recvNo, wire, arrived, dups>>

\* The sender's trace has a segment without payload at offset s.
SentEmpty(s, flag) == s \in Keys \/ (flag = "none" /\ s - 1 \in Keys)

\* The bytes s .. e - 1 of a segment with the timestamp ts.
Piece(s, e, ts) == {[seq |-> x, ts |-> ts] : x \in s .. e - 1}

\* The network has a transmission of all of s .. e - 1 with the timestamp ts.
\* The receiver's capture cuts the stream anew: a segment arrives in parts, and
\* segments with the same timestamp as one (segmentation offload).
Delivers(s, e, ts) == Piece(s, e, ts) \subseteq wire

\* The network delivers bytes once more that have arrived.
Again(s, e, ts) == AllowDup /\ Piece(s, e, ts) \subseteq arrived

\* A segment of the receiver's trace: data, or one without payload.  The
\* timestamp of a pure ack is not read.
processRecvd(s, e, flag, ts) ==
    LET last == IF s = e THEN e + 1 ELSE e
    IN /\ phase = "recv"
       /\ recvNo < MaxRecv
       /\ \/ base <= s /\ s < e /\ e <= nxt /\ flag = "none"
             /\ (Delivers(s, e, ts) \/ Again(s, e, ts))
          \/ s = e /\ s \in {nxt, SndNxt} /\ flag = "none" /\ ts = 0
             /\ (AllowDrop \/ SentEmpty(s, flag))
          \/ s = e /\ s \in {nxt, SndNxt} /\ flag = "fin" /\ tcp = "fin"
             /\ Delivers(s, s + 1, ts)
          \/ s = e /\ s = 0 /\ base = 1 /\ flag = "syn" /\ Delivers(s, s + 1, ts)
       /\ clock' = clock + 1
       /\ wire' = wire \ Piece(s, last, ts)
       /\ dups' = IF Delivers(s, e, ts) THEN dups ELSE dups + (e - s)
       /\ arrived' = arrived \cup
                      {p \in Piece(s, last, ts) : \A a \in arrived : a.seq # p.seq}
       /\ insertReceivedRange([seq |-> s, endSeq |-> e, flag |-> flag, retrans |-> FALSE,
                               is_rdb |-> FALSE, rdb_end_seq |-> 0,
                               time |-> clock + 1, tstamp_tcp |-> ts])
       /\ recvNo' = recvNo + 1
       /\ UNCHANGED <<ranges, lastSeq, firstSeq, highestAcked, ack, conn,
                      phase, base, nxt, tcp, reuse, acks, ackNo>>

RangeManagerStep ==
    /\ insertByteRange \/ processAck
    /\ UNCHANGED <<conn, envVars>>

Trace ==
    \/ SendSyn \/ SendPureAck \/ SendFin \/ SendRst \/ SendKeepAlive
    \/ \E d \in SynOffsets : SendOtherSyn(d)
    \/ \E n \in 1 .. MaxPayload :
         \/ SendReused(n)
         \/ DropNew(n)
         \/ \E flag \in {"none", "fin"} :
              \/ SendNew(n, flag)
              \/ \E s \in 0 .. MaxSeq : Retransmit(s, n, flag)
         \/ \E s \in 0 .. MaxSeq : SendBundle(s, n)
    \/ \E a \in 0 .. MaxSeq + 2, echo \in BOOLEAN : AckArrives(a, echo)
    \/ \E s \in 0 .. MaxSeq + 1, n \in 0 .. MaxPayload, flag \in {"none", "syn", "fin"} :
         \E ts \in {0} \cup {p.ts : p \in wire \cup arrived} : processRecvd(s, s + n, flag, ts)
    \/ StartAcks \/ processAcks \/ StartRecv

Next == RangeManagerStep \/ Trace

Spec == Init /\ [][Next]_vars

\* The program is sequential: it does not stop in the middle of a call.
FairSpec == Spec /\ WF_vars(RangeManagerStep)

\* The types of the state: the map's keys and records, the counters of
\* registerSent and the arguments of the call in progress.  highestAcked and
\* the position of processAck are always keys of the map.
TypeOK ==
    /\ rmTypeOK
    /\ conn \in ConnCounters
    /\ phase \in {"sent", "acks", "recv"}
    /\ clock \in Nat
    /\ base \in {0, 1}
    /\ nxt \in Nat
    /\ tcp \in {"open", "fin", "rst"}
    /\ reuse \subseteq Nat
    /\ acks \in Seq([ack : Nat, time : Nat, echo : BOOLEAN])
    /\ ackNo \in Nat
    /\ recvNo \in Nat
    /\ wire \subseteq StampedBytes
    /\ arrived \subseteq StampedBytes
    /\ dups \in Nat

-----------------------------------------------------------------------------
(* Properties. *)

\* Two ranges never share a byte, in every state, also in the middle of a
\* call: the splits of insertByteRange and processAck keep the map a partition.
Disjoint == \A j, k \in Keys : j < k => ranges[j].endSeq <= k

Covers(k, x) == k <= x /\ x < ranges[k].endSeq

\* Between two calls the ranges hold every byte sent: "Byte-stream in ranges
\* not continuous" (validateContent) is not reported for a complete capture.
StreamCovered ==
    op = "idle" => \A x \in base .. nxt - 1 : \E k \in Keys : Covers(k, x)

-----------------------------------------------------------------------------
(* Why the ranges partition the stream, for a capture that misses nothing. *)

\* Nothing sent is missing from the trace, and every segment is one of the
\* connection's own, at a sequence number that TCP has not left behind.
CompleteCapture ==
    /\ ~AllowDrop
    /\ ~AllowKeepAlive
    /\ \A d \in SynOffsets : d <= SynSlack

\* A segment with payload is being registered.
Inserting == op = "insert" /\ SENT /\ ~ZeroLength

\* A range ends where it starts, or behind it and within the stream.
RangesInStream ==
    \A k \in Keys :
        /\ k <= ranges[k].endSeq
        /\ k < ranges[k].endSeq => ranges[k].endSeq <= nxt
        /\ k <= nxt + 1
        /\ tcp = "open" => k <= nxt

\* A byte that no range holds is one the current call has yet to register,
\* and lies behind every range.
Frontier ==
    op \notin Failures => \A x \in base .. nxt - 1 :
        \/ \E k \in Keys : Covers(k, x)
        \/ /\ Inserting
           /\ frame.start <= x /\ x < frame.end
           /\ \A k \in Keys : k <= x

\* Data is taken for new by its distance from lastSeq, so no range may reach
\* beyond it and it may not fall behind the stream.
LastSeqBound ==
    /\ \A k \in Keys : k < ranges[k].endSeq => ranges[k].endSeq <= lastSeq
    /\ \/ lastSeq >= nxt
       \/ op \in Failures
       \/ Inserting /\ seg.endSeq = nxt /\ seg.seq <= lastSeq
       \/ /\ phase = "sent" /\ base = 1 /\ nxt = 1 /\ Keys = {}
          /\ op = "insert" => seg.flag = "syn"

\* The arguments of the call in progress: a segment with payload lies in the
\* stream, and one without repeats the SYN or stands at the stream's end.
CallInStream ==
    op = "insert" =>
        /\ frame.end = seg.endSeq
        /\ seg.seq <= frame.start
        /\ SENT <=> phase = "sent"
        /\ ZeroLength <=> seg.seq = seg.endSeq
        /\ ~ZeroLength => base <= seg.seq /\ frame.start < frame.end /\ frame.end <= nxt
        /\ ZeroLength =>
             /\ frame.start = seg.seq
             /\ \/ seg.seq = nxt
                \/ seg.seq = nxt + 1 /\ tcp # "open"
                \/ seg.seq = 0 /\ base = 1 /\ seg.flag = "syn"
             /\ SENT /\ seg.flag = "syn" => nxt = 1

\* The inductive invariant behind Disjoint and StreamCovered.
PartitionInv ==
    /\ base <= nxt
    /\ ~conn.closed /\ reuse = {}
    /\ Disjoint
    /\ RangesInStream
    /\ Frontier
    /\ LastSeqBound
    /\ CallInStream

-----------------------------------------------------------------------------
(* Why the acknowledgements reach the bytes they cover, if in addition they *)
(* are captured in order.                                                   *)

InOrderCapture == CompleteCapture /\ ~AllowReorder

HasBytes(k) == k < ranges[k].endSeq

\* A range has been sent, and not in the future.
EverySent ==
    /\ \A k \in Keys :
         ranges[k].sent_tstamp_pcap # <<>> /\ getSendTime(ranges[k]) <= clock
    /\ op = "insert" => seg.time <= clock

\* The passes follow each other: no range is acked, and no ack read, before all
\* of the segments sent have been registered, beginning with the SYN.
PassesInOrder ==
    /\ op = "ack" => phase = "acks"
    /\ op = "insert" => phase # "acks"
    /\ phase = "sent" =>
         ackNo = 0 /\ highestAcked = NoKey /\ \A k \in Keys : ~ranges[k].acked
    /\ Keys = {} => phase = "sent" /\ acks = <<>>
    /\ base = 1 =>
         IF Keys = {} THEN op = "insert" => ZeroLength /\ frame.start = 0 /\ seg.flag = "syn"
         ELSE 0 \in Keys

\* The acks are in order, cover what was sent, and the last one read is the one
\* that processAck works on.
AcksInOrder ==
    /\ ackNo <= Len(acks)
    /\ \A i \in 1 .. Len(acks) :
         /\ acks[i].time <= clock
         /\ acks[i].ack <= nxt \/ (tcp # "open" /\ acks[i].ack <= nxt + 1)
         /\ \A j \in 1 .. i : acks[j].ack <= acks[i].ack
    /\ op = "ack" => /\ ackNo >= 1
                     /\ ack.ack = acks[ackNo].ack
                     /\ ack.time = acks[ackNo].time

\* What an ack covers was sent, and is in the map, before the ack was captured.
SentBeforeAck ==
    \A i \in 1 .. Len(acks) :
        /\ \A k \in Keys :
             (HasBytes(k) /\ k < acks[i].ack) \/ k < base =>
                getSendTime(ranges[k]) <= acks[i].time
        /\ op \notin Failures => \A x \in base .. nxt - 1 :
             x >= acks[i].ack \/ \E k \in Keys : Covers(k, x)

\* No range lies on both sides of the ack, and those in front of it are acked.
Settled(i) ==
    \A k \in Keys : HasBytes(k) =>
        k >= acks[i].ack \/ (ranges[k].endSeq <= acks[i].ack /\ ranges[k].acked)

\* An acked range has the time of the first ack that covers it.
AckedByFirst ==
    \A k \in Keys : HasBytes(k) /\ ranges[k].acked =>
        \E i \in 1 .. ackNo :
            /\ ranges[k].endSeq <= acks[i].ack
            /\ ranges[k].ackTime = acks[i].time
            /\ \A j \in 1 .. i - 1 : acks[j].ack < ranges[k].endSeq

\* processAck starts behind the ranges that are acked, and leaves none out.
AckLoop ==
    phase = "acks" =>
        /\ highestAcked # NoKey =>
             /\ \A k \in Keys : HasBytes(k) /\ k < highestAcked => ranges[k].acked
             /\ HasBytes(highestAcked) =>
                  \/ ranges[highestAcked].acked
                  \/ \E p \in Keys : HasBytes(p) /\ ranges[p].endSeq = highestAcked
        /\ op = "ack" =>
             /\ ack.it <= ack.ack
             /\ \A k \in Keys : HasBytes(k) /\ k < ack.it =>
                  ranges[k].acked /\ ranges[k].endSeq <= ack.ack
             /\ ack.it = ack.ack /\ HasBytes(ack.it) =>
                  \/ IsFirst(ack.it)
                  \/ \E p \in Keys : HasBytes(p) /\ ranges[p].endSeq = ack.it

\* The inductive invariant behind FirstAckTime and HistoryStable.
AckInv ==
    /\ EverySent
    /\ PassesInOrder
    /\ AcksInOrder
    /\ SentBeforeAck
    /\ \A i \in 1 .. ackNo : Settled(i) \/ (op = "ack" /\ i = ackNo)
    /\ AckedByFirst
    /\ AckLoop

-----------------------------------------------------------------------------
(* Why no assert fails, and every byte of a segment is counted once. *)

\* The traces that the program gets through: in order and complete, with TCP
\* timestamps, no segment of more bytes than the recursion may be deep, and the
\* raw number of the first packet not mistaken for an offset.
RegularTrace ==
    /\ InOrderCapture
    /\ TcpTimestamps
    /\ RecursionLevel >= MaxPayload
    /\ \A f \in FirstSeqs : f > MaxSeq

\* A call gets on with every recursion, and segments are short.
CallProgress ==
    /\ nxt <= base + MaxSeq
    /\ firstSeq > MaxSeq
    /\ Keys = {} => lastSeq = 0
    /\ op = "insert" => /\ frame.level <= frame.start - seg.seq
                        /\ seg.endSeq - seg.seq <= MaxPayload

\* Bytes, SYN and FIN carry a timestamp, and a range received has one.
Timestamped ==
    /\ \A p \in wire : p.ts # 0
    /\ \A p \in arrived : p.seq < nxt => p.ts # 0
    /\ phase # "recv" => arrived = {}
    /\ \A k \in Keys :
         ranges[k].data_received_count # 0 => ranges[k].received_tstamp_tcp # 0
    /\ op = "insert" /\ ~SENT /\ (~ZeroLength \/ seg.flag # "none") => seg.tstamp_tcp # 0

\* An empty range that may still be filled has counted no data, and a SYN, FIN
\* or RST is never counted for a byte.
EmptyUncounted ==
    /\ \A k \in Keys :
         /\ HasBytes(k) => base <= k
         /\ ~HasBytes(k) /\ base <= k /\ (tcp = "open" \/ k < nxt) =>
              ranges[k].data_sent_count = 0
         /\ phase = "sent" => ranges[k].data_received_count = 0
    /\ op = "insert" /\ ZeroLength /\ tcp = "open" =>
         seg.flag = "none" \/ (base = 1 /\ frame.start = 0)

\* The inductive invariant behind NoFailure and the refinement of ByteLedger.
CallInv ==
    /\ op \notin Failures
    /\ CallProgress
    /\ Timestamped
    /\ EmptyUncounted

-----------------------------------------------------------------------------
(* Further properties. *)

\* lastSeq, by which insertByteRange tells old data from new, is the end of the
\* stream until a FIN or RST is sent, and the last range ends there: the check
\* of validateContent ("lastSeq unaligned!"), which also lets lastSeq be one
\* higher, for a SYN.
LastSeqAligned ==
    op = "idle" /\ tcp = "open" /\ Keys # {} =>
        /\ lastSeq = nxt
        /\ \A k \in Keys : IsLast(k) => ranges[k].endSeq \in {lastSeq - 1, lastSeq}

\* validateContent: every byte sent was counted as new, bundled or resent.
TotalsConserved ==
    conn.totBytesSent = conn.totNewDataSent + conn.totRDBBytesSent
                          + conn.totRetransBytesSent

\* "Marking this connection as closed and ignore any packets in the new
\* connection" (registerSent, when the port number is used again): no byte of a
\* later connection gets into the ranges.
LaterBytesIgnored == \A k \in Keys : byte_count(k) # 0 => ranges[k].endSeq <= nxt

\* It is so if every later connection begins more than one behind the last byte
\* sent, whatever the capture lost: only such a SYN is sure to be noticed.
OwnBytesOnly == (\A d \in reuse : d > nxt + 1) => LaterBytesIgnored

\* No assert fails, no exception ends the program, and processAck does not
\* step in front of the first range.
NoFailure == op \notin Failures

\* "Register first ack time for all bytes" (processAck): a range with bytes
\* holds the time of the first acknowledgement that covers it.
FirstAckTime ==
    op = "idle" => \A k \in Keys :
        LET covering == {i \in 1 .. ackNo : acks[i].ack >= ranges[k].endSeq}
        IN byte_count(k) # 0 =>
             IF covering = {} THEN ~ranges[k].acked
             ELSE /\ ranges[k].acked
                  /\ \E i \in covering : /\ \A j \in covering : i <= j
                                         /\ ranges[k].ackTime = acks[i].time

\* The first send time and the ack time of a byte never change again, however
\* the range that holds it is split later.
HistoryStable ==
    [][\A k \in Keys, x \in 0 .. MaxSeq : Covers(k, x) =>
         \E j \in Keys' :
            /\ j <= x /\ x < ranges'[j].endSeq
            /\ getSendTime(ranges'[j]) = getSendTime(ranges[k])
            /\ ranges[k].acked =>
                 ranges'[j].acked /\ ranges'[j].ackTime = ranges[k].ackTime]_vars

\* Every call returns: insertByteRange's recursion and processAck's loop end.
CallsReturn == op \in {"insert", "ack"} ~> op \notin {"insert", "ack"}

=============================================================================
