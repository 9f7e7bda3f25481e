# analyseTCP: a verification project

analyseTCP reads packet captures of TCP connections (a trace taken at the
sender, optionally one taken at the receiver), rebuilds from them the stream of
bytes of each connection and prints statistics: bytes and packets sent,
retransmitted and bundled (redundant data bundling, RDB), loss, ack latency.
Everything it prints rests on one data structure, the map of *byte ranges* of a
connection, which every packet reads, splits and updates. This project models
how that map is built and checks that it says what the packets said.

Paths below are relative to the repository. The program is single-threaded; it
is modelled as it is built by default, without `DEBUG` and with asserts.

## 1. Inventory

| Component | State | Operations | Modelled in |
|---|---|---|---|
| Sequence numbers (`Connection.cc:17-114`, `util.h`, `RangeManager.cc:37-45`) | `firstSeq` | `getRelativeSequenceNumber`, `absolute_seq` | `SeqNum`, `SeqTracker` |
| Reference points of segments, acks, receiver trace and sojourn input (`Connection.cc:116-130`) | four pairs `lastLargest...Seq`, `lastLargest...SeqAbsolute` | `registerSent`, `processAcks`, `registerRecvd`, `calculateSojournTime` | `SeqTracker` |
| `ByteRange` (`ByteRange.h`, `ByteRange.cc`) | end, counters, lists of transmissions, lost list, times, flags | `increase_sent`, `increase_received`, `split`, `splitEnd`, `insertAckTime`, `matchReceivedType`, `addSegmentEnteredKernelTime`, `getSendAckTimeDiff`, `getSojournTimes` | `ByteRange`, `RangeStats`, `LossStats`, `Sojourn` |
| `RangeManager`: insertion (`RangeManager.cc:60-964`) | `ranges`, `lastSeq`, `firstSeq` | `insertSentRange`, `insertReceivedRange`, `insertByteRange` | `RangeManager` |
| `RangeManager`: acks (`RangeManager.cc:966-1183`) | `highestAckedByteRangeIt` | `processAck` | `RangeManager` |
| `Connection` (`Connection.cc:145-306`) | totals per connection, `closed` | `registerSent`, `registerRange` | `Connection` |
| `Dump` (`Dump.cc`) | the connections, the pass over the files | `analyseSender`, `processSent`, `processAcks`, `processRecvd`, `calculateSojournTime` | `Connection`, `Sojourn` |
| Totals (`RangeManager.cc:1602-1760`, `Connection.cc:423-536`) | sums over the ranges | `calculateRealLoss`, `getNumUniqueBytes`, `addConnStats` | `RangeStats`, `LossStats` |
| `validateContent` (`RangeManager.cc:1317-1422`) | none, prints warnings | | `RangeStats` |
| Analysis interval (`Connection.cc:339-421`) | `analyse_range_start/last/end` | `setAnalyseRangeInterval` | `RangeStats` |
| Sojourn insertion (`Dump.cc:749-836`, the sojourn branches of `insertByteRange`) | `sojourn_tstamps` of each range | `calculateSojournTime` | `Sojourn` |
| Loss by interval (`RangeManager.cc:2006-2099`) | sums per interval | `calculateLossGroupedByInterval` | `LossStats` |
| Per-packet statistics (`RangeManager.cc:1185-1310`, `statistics_common.cc`) | `packet_stats`, `pifs` | `genStats` | `PacketStats` |
| Clock drift, latency variation | quotients in floating point | `calculateClockDrift`, ... | no: out of TLC's reach |
| Output, options, pcap, header parsing, analyseDASH, vendored cxxtest | | | no: I/O, parsing, third party |

**Interaction.** `Dump::analyseSender` reads the sender trace twice. In the
first pass every captured segment goes through `processSent`: the raw number is
made an offset, `Connection::registerSent` classifies the segment (new data,
bundle, retransmission, SYN retry, reused port) and counts it, and
`RangeManager::insertSentRange` registers it in the map. In the second pass
every acknowledgement goes through `processAcks` to `processAck`, which walks
the finished map. `processRecvd` then registers the receiver's trace in the same
map, and `calculateSojournTime` attributes the writes of the application to its
ranges. The statistics are functions of the finished map. The components share
the map, `firstSeq`, `lastSeq` and the classification (`retrans`, `is_rdb`) that
`registerSent` writes into the segment.

**What is hard here.** The code has no threads; its difficulty is in the
sequence of packets. Whatever order the network and the capture produce is an
input: retransmissions cut differently from the originals, bundles of old and
new data, empty segments at a number that later holds data, SYN retries with
another initial number, a port reused for another connection, keep-alives,
packets missing from the capture, acks out of order, and 32 bit numbers that
wrap. `insertByteRange` handles a segment by a chain of recursive calls, each of
which splits or updates one range, and which branch it takes depends on
`lastSeq`, a value another function maintains. `processAck` keeps an iterator
between calls and is run against ranges that were sent after the ack.
`PROJECT.json` lists these places under `hazards`, each with the properties
that cover it.

**What makes each part correct.** Sequence numbers: every byte gets its true
offset. The map: ranges are disjoint and leave no byte out, every segment counts
each of its bytes exactly once, and what was recorded about a byte never
changes when its range is split. Acks: a byte holds the time of the first ack
that covers it. Totals: what the ranges add up to is what was counted packet by
packet. Receiver: what is reported lost is what did not arrive. Writes: a byte
has the time of the write that carried it, or none. Everything: each call ends.

## 2. Modules

| Module | Content |
|---|---|
| `SeqNum` | The number arithmetic, for a word of `W` values (2^32 in the program). |
| `SeqTracker` | A stream of any length whose inputs are converted one by one, against one of the four reference points, each of which moves by a rule of its own. |
| `ByteRange` | The record of a range and its methods. Counters wrap at `CounterMod` (256). One list of transmissions stands for `sent_tstamp_pcap`, `tstamps_tcp` and `rdb_tstamps_tcp`, which the program always changes together. |
| `RangeManager` | The map, `insertByteRange` (one step per call of the recursion) and `processAck` (one step per turn of its loop). |
| `Connection` | `registerSent`, the three passes, and the environment: the sending TCP, the capture, the acks, the receiver trace. All safety properties of the map. |
| `RangeStats` | Totals, warnings, latency and the analysis interval as functions of the map. |
| `LossStats` | Which transmission arrived first, bytes lost, loss by interval. |
| `PacketStats` | The entries of `genStats`, packets in flight. |
| `Sojourn` | The writes of an application and INSERT_SOJOURN of `insertByteRange` (one step per call). |
| `ByteLedger` | Abstract specification: how often each byte was sent and received; a segment is credited from its first byte to its last, in pieces. |
| `LedgerMapping` | The refinement mapping from `Connection` to `ByteLedger`: a byte has the counts of the range that holds it. |
| `MCSeqTracker`, `MCConnection`, `MCSojourn` | The instances for TLC; `MCSojourn` adds the writes to `MCConnection`. |
| `SeqTrackerProofs` | Theorems about the conversion of sequence numbers. |
| `ConnectionProofs` | Types, totals and reused ports, in every environment. |
| `PartitionProofs` | The ranges partition the stream; what each step does to the times and counts of a byte (lemmas). |
| `CallProofs` | Ack times and history; no failure; the refinement of `ByteLedger`. |
| `SumProofs` | Sums over finite sets (lemmas). |
| `StatsProofs` | `lastSeq`, `validateContent`, latencies, totals. |
| `LossProofs` | The receiver's trace: which transmission arrived first. |
| `SojournProofs` | The writes of the application. |

`RangeManager` extends `ByteRange`, `Connection` extends `RangeManager`,
`RangeStats`, `LedgerMapping` and `Sojourn` extend `Connection`, `LossStats`
extends `RangeStats`, `PacketStats` extends `LossStats`. The proof modules about
`Connection` extend each other in the order of the table, from `ConnectionProofs`
to `CallProofs`, which `StatsProofs` and `SojournProofs` extend together with
`SumProofs`; `LossProofs` extends `StatsProofs` and `LossStats`.

**State and code.** `ranges` is `map<seq64_t, ByteRange*>`, keyed by `startSeq`;
`op`, `frame` and `seg` are the call of `insertByteRange` in progress with its
arguments, `ack` the local variables of `processAck`. The disjuncts of
`insertByteRange` are the branches of the C++ function: `InsertZeroLength` and
`UpdateZeroLength` (no payload), `SplitHost` (starts inside a range),
`InsertNew` (starts in no range), `FillEmpty`, `SpanRange`, `SplitTail`,
`UpdateRange` (starts where a range starts), and the failures. Those of
`processAck` are `AckLast`, `AckMore`, `AckSplit` and `AckOld`. The step that
leaves the outermost call also does the rest of `insertSentRange`, so `lastSeq`
is updated in the same action. A failed assert, the exception at
`RECURSION_LEVEL` and an iterator moved in front of the map are states of `op`
from which nothing follows.

**The environment** (external code) is TCP's sending side: new data, arbitrary
retransmissions within what was sent, bundles, pure acks, FIN, RST, SYN retries
(`SynOffsets` up to `SynSlack`, before any data), later connections on the port
(`SynOffsets` beyond it, at any time, behind the stream of this one or inside
it, each with its SYN and its first data), and with `AllowKeepAlive`,
`AllowDrop`, `AllowReorder` the cases of their names. `Bases` says whether the
capture begins with the SYN (1) or in the middle of the stream (0). Offsets 0
and 1 are no `SynOffsets`: a SYN there is an ordinary retry or indistinguishable
from the first byte. Not in the environment: a later connection whose number is
within `SynSlack` of the first one, and acks of a later connection.

A packet carries a TCP timestamp that ticks every `TsTick` capture times; with a
tick of 1 every transmission has its own. `wire` holds each transmission of each
byte until a segment of the receiver's trace delivers it, whole or cut anew and
in any order, so the bytes left in it at the end are the lost ones; `arrived`
keeps the timestamp with which a byte arrived first, and `dups` counts the bytes
that the network delivered again (`AllowDup`). The application writes its bytes
in order, each write not after the first of its bytes is sent, and the last
write may be in the trace only in part.

**Left out of the modelled functions**, because no modelled property depends on
it or because it cannot be reached: debug output; SACK blocks, window and
duplicate-ack counting and the return value of `processAck` (`SeqTracker` lets
it be either); `in_sequence` (only read by the latency variation); the hit and
miss counters of bundles; a SYN with payload (an assert); the branch of `FillEmpty`
for a gap it cannot meet; `RangeManager.cc:1111-1115` and `1159-1175`, which the
conditions before them exclude; RST segments in the receiver trace; the assert
on `byte_count` reaching 65535. A received time that `split` leaves
uninitialised is the value `Uninit`.

## 3. Runs

`tlc -config X.cfg M` in this directory. `CHECK_DEADLOCK FALSE` throughout: a
trace ends, and the program with it.

| Run | Config | Shows |
|---|---|---|
| `seq` | `MCSeqTracker.cfg` | Offsets of segments sent and received and of acks are exact for every first number, over 2 1/2 turns of a 16-value number space, with inputs up to 5 away from the reference point, as long as no input starts at the last raw number or is refused; the program only ends at an offset beyond its limit; the printed numbers are those of the packets. |
| `send` | `MCSend.cfg` | All traces of four sent packets, four bytes, payloads up to three, with bundles and SYN retries: partition of the stream, `lastSeq`, conservation of the totals, agreement of range totals and packet counters, and why (`TallyInv`), what `--analyse-duration` keeps, no warning, one statistics entry per packet, stable history, refinement of the ledger. |
| `acks` | `MCAcks.cfg` | Three packets and two in-order acks at any time and on any byte: the invariant of `processAck` that section 4 proves inductive (`AckInv`), first ack times, latencies of data never negative, packets in flight, history, every call returns; counters wrap at 2, so that tests of a counter against 0 meet a wrapped one. |
| `recv` | `MCRecv.cfg`, module `MCSojourn` | Three packets sent, then two received in other cuts, out of order or twice, or any writes of the application: nothing fails, and why (`CallInv`), each byte and packet is counted once, the transmission matched is the one that arrived, the loss is what did not arrive, a write's time reaches its own bytes only. |
| `faults` | `MCFaults.cfg` | Missed packets, keep-alives, reordered acks and later connections on the port, behind the stream or inside it: no byte of one that begins more than one behind the stream gets in, and every call ends whatever gets in. |

Why the bounds are enough: a range needs three bytes to be split in the middle,
so payload 3 in a stream of 4 bytes gives every relation of two intervals
(inside, overlapping either end, adjacent, equal, spanning); with three or four
packets a third one meets the result of a split, and the recursion goes over up
to three ranges. `acks` and `faults` use payload 2, where an ack or a
retransmission still cuts a segment in two. In `faults` the recursion limit is 2
instead of 1500, so that reaching it is part of the run, and `SynSlack` is 1
instead of 10, so that a later SYN may lie in a stream of two bytes or near its
end. Packets are `TickUsec` microseconds apart: 1.5 seconds in `send`, so that
the code's rounding to whole seconds matters. `seq` uses `W = 16`
with window and payload below half a turn, as TCP requires, and a limit of 37
for the offsets (9999999999 in the program). The writes in `recv` are read
against ranges that the sender's trace made, splits included; a receiver's trace
read before them would only split ranges further.

**Fairness.** `FairSpec` adds weak fairness of `RangeManagerStep` only: the
program is sequential and does not stop in the middle of a call. Nothing is
assumed of packets or of the passes. `CallsReturn` is the only liveness
property.

**Disagreements** (runs that TLC must refute; `findings` quotes the lines):

| Run | What it shows |
|---|---|
| `seq_off_by_one` | A segment at raw number 2^32 - 1 is placed a whole turn too high (`wrap_index += 1`), and so is all that follows. |
| `sojourn_offset` | The reference point of the sojourn input starts at 0 and never moves. The first write converts, but once the stream has gone beyond raw number 2^31, or has wrapped, writes fail the assert of the conversion. (`Sojourn` begins behind the conversion.) |
| `reordered_ack` | A late ack inside the highest acked range overwrites its ack time. |
| `old_ack` | A late ack of a SYN that was sent twice steps in front of the first range. |
| `negative_latency` | A segment without data sent after the ack of the FIN gets the time of that ack; the latency is negative, which an assert excludes. |
| `missed_reuse` | A later connection whose SYN lies inside the old stream is not recognised (the test is only made behind `lastLargestEndSeq + 1`), and its data is registered. |
| `keep_alive` | A keep-alive lowers `lastSeq`, so that a later retransmission is taken for new data and gets a range that overlaps another; the redundant bytes no longer agree. |

Further facts the models brought out: beyond 2^31 bytes, retransmissions of the
trace's own bytes are refused as older than the trace (`OffsetsExact` excludes
them); a bundle that splits a range counts its old bytes as redundant twice
(`RedundantBytesAgreeUnbundled`); with bundles the one-way delay is measured
from another transmission than the one that arrived, because an index into
`tstamps_tcp` is used in `sent_tstamp_pcap` (`DelayFromMatchUnbundled`); `split`
does not copy the lost list, so the loss by interval is sound but leaves out the
part that was split off (`IntervalLossSound`), and it leaves the received time
uninitialised; a pure ack whose number later holds data counts as lost data;
bytes that the network delivers twice are subtracted from the loss, whose
unsigned total then may wrap (`LostBytesExact`); ranges without payload behind
the first data are counted off the packets in flight but never on (`PifsExact`);
the rest of a range in which a write starts, if the write goes on behind it,
gets no sojourn time, nor do the second part of a split range and the new data
of a bundle (`SojournAttribution`); one write beyond the last range ends the
sojourn input of all connections; the test "is this lost packet the same packet
as for the previous range" (`RangeManager.cc:1725`) compares a range with
itself, which has no effect as `lost_packets` is never read. After a FIN, a bare
FIN sent again gets a range in front of a pure ack sent earlier, so the map is
no longer in order of send times (`DurationExact` is stated for an open
connection); a bare FIN sent again, or a RST after data with FIN, leaves
`lastSeq` unaligned (`LastSeqAligned`, likewise); a FIN behind a pure ack at the
same number counts as a retransmission; a FIN on a segment that fills an empty
range is not counted; after a keep-alive new data starts behind `lastSeq` and
does not set it right again, and `validateContent` warns although nothing is
missing; `--analyse-duration` keeps what was sent up to a second later than the
usage text says, as it compares whole seconds (`DurationExact`); a relative
offset is compared with a raw number (`RangeManager.cc:728`), so that a received
segment can fail the assert about the SYN-ACK if the first raw number is not
beyond the stream's offsets (`NoFailure`); with packets missing from the capture
ranges may overlap; bundles make the packet totals differ from the dump
(`PacketsAccounted` excludes them); if the first range is the only one with
data, its bytes are not unique bytes.

Every property has a mutant: a definition of the model changed the way a bug
would change the code, under which TLC refutes the property.

## 4. Proofs

`tlapm M.tla` for the eight `*Proofs` modules. The theorems hold for all values
of the constants that satisfy the named assumptions: any word size, stream
length, number of packets, payload, counter width and recursion limit. Some
need a hypothesis on the environment, also a formula of `Connection`:

- `CompleteCapture`: no missed packet, no keep-alive, no reused port. Without
  it ranges may overlap (section 3, and the run `keep_alive`).
- `InOrderCapture`: also, acks are captured in order. The runs `reordered_ack`
  and `old_ack` drop only this, and TLC refutes `FirstAckTime` and `NoFailure`.
- `RegularTrace`: also, packets carry TCP timestamps, no segment has more bytes
  than `RECURSION_LEVEL` (1500), and the first raw number is beyond the stream's
  offsets (section 3).
- `ShortTrace`: fewer packets sent, and fewer received, than a counter of a
  range has values (256 in the program). In a longer trace the counters of a
  range may wrap, which is what `uint8_t` makes of them, and the totals are then
  off. A bound on the packets that reach one range would do; this one is simpler.
- `MaxRecv # 0`: `Connection` records what is on the wire only if a receiver's
  trace may be read, and the theorems about writes compare with the wire.

The constants of the run `recv` satisfy all of these, those of `send` all but
the last.

The theorems:

- `SeqTrackerProofs`. `RelativeOffsetExact`: if the true offset is less than
  half a turn from the reference point, does not start at the last raw number
  and is not refused, `getRelativeSequenceNumber` returns it, or fails its
  assert if it is beyond the limit. The argument:
  the position of the reference point and the (signed) distance to the segment
  add up to the position of the segment, and dividing by `W` gives its turn.
  `OffsetsAlwaysExact` follows along the trace, for the three kinds of input
  whose reference point moves. `OffsetsExact` is not inductive by itself:
  the 64 bit arithmetic only stays exact while the reference point is not far
  beyond the limit, so `TrackInv` adds that a running program's reference point
  is at most a payload beyond it. `AbsoluteSeqAlwaysInverse`:
  the raw number printed for an offset is the packet's, from the fact that an
  offset computed is congruent to the true one modulo `W` whatever turn was
  chosen. `TypeCorrect`.
- `ConnectionProofs`. `TypeCorrect` and `TotalsAlwaysConserved` from
  `CountersInv`, which adds to both that the last segment with payload did not
  start behind the largest end seen: without it the old part of a bundle, which
  is recognised by that start, could be negative. It also says that the largest
  end seen is in the stream until a later connection appears. They hold for
  every environment, missed packets and reused ports included. They rest on a
  lemma for each step of the range manager, which keeps the types and keeps
  `highestAcked` and the position of `processAck` on keys of the map.
  `OwnBytesAlways`: no byte of a later connection on the port gets into the
  ranges, with any loss, keep-alive and reordering, if the SYN of every later
  connection lies more than one behind the stream. The run `missed_reuse` drops
  only this condition, and TLC refutes the conclusion. `OwnBytesOnly` speaks of
  ranges only; `OwnInv` adds that the call in progress stays within the old
  stream, and that after the reuse the connection is marked closed and the
  largest end seen is in the old stream, which is what makes `registerSent`
  recognise the SYN and ignore the later numbers, whatever packets the capture
  missed.
- `PartitionProofs` (`CompleteCapture`). `PartitionHolds`, and from it
  `RangesAlwaysDisjoint` and `StreamAlwaysCovered`.
  `Disjoint` is not inductive: a call decides from `lastSeq` whether its segment
  is new. `PartitionInv` therefore says as well that `lastSeq` is beyond every
  range and at the stream's end except for the segment being registered
  (`LastSeqBound`), that ranges lie in the stream (`RangesInStream`), that a
  byte without a range is one the current call has yet to reach, behind all
  ranges (`Frontier`), and what the arguments of the call are (`CallInStream`).
  `Frontier` gives `StreamCovered` between calls. TLC checks `PartitionInv` in
  the run `send`.
  The module also has a lemma for each branch of `insertByteRange`: every range
  after it is a part of one before it, with the same times, and with the counts
  of that one or one more (`Registers`), or is opened at the end of the stream
  (`Opens`). The later theorems about bytes follow from these and not from the
  branches.
- `CallProofs`, acks (`InOrderCapture`). `AcksHold`: `AckInv` is inductive together with
  `PartitionInv`. From it `FirstAckAlwaysRegistered`, and `HistoryAlwaysStable`
  for steps. `FirstAckTime` speaks of the state between acks; the loop starts at
  `highestAckedByteRangeIt` and never looks at the ranges in front of it, so
  `AckInv` has to say that those are acked (`AckLoop`), that each ack read so far
  split the ranges at its end (`Settled`), and that what an ack covers was sent
  before it and is in the map (`SentBeforeAck`), without which the test of send
  times (`RangeManager.cc:1034`) would leave bytes out. No counter occurs in the
  argument, so it holds when `packet_sent_count` wraps.
- `CallProofs`, calls (`RegularTrace`). `CallsHold`: `CallInv` is inductive together with
  `AckInv`; `RegularTraceSucceeds` is its first conjunct: neither an assert, nor
  the recursion limit, nor an iterator in front of the map. Each recursion has
  moved on by at least a byte (`CallProgress`), so that a segment of at most
  `RECURSION_LEVEL` bytes does not reach the limit; what was received has a
  timestamp (`Timestamped`). `RegularTraceRefinesLedger`: initial states map to
  initial states, and each step to `Begin`, `Credit` or a stutter of
  `ByteLedger`. Splits must keep the counts, a byte must have one holder
  (`Disjoint`), and an empty range that data may fill must have counted nothing
  (`EmptyUncounted`), as its count becomes that of bytes.
- `StatsProofs`. `LastSeqAlwaysAligned` and `ValidateAlwaysSilent`
  (`CompleteCapture`), from `AlignInv`: `lastSeq` is not beyond an open stream and
  no segment without payload is about to move it there, and a capture that
  begins with a SYN has a range for it. `LatencyNeverNegative`
  (`InOrderCapture`), from `AckInv` and the fact that a range without ack has no
  ack time (`Timeless`).
- `StatsProofs`, the totals (`RegularTrace`, `ShortTrace`). `TalliesHold`:
  `TallyInv` is inductive together with `CallInv`. From it
  `BytesAlwaysAccounted` (bytes and unique bytes of the ranges are those counted
  packet by packet), `PacketsAlwaysAccounted` and `PacketsAlwaysAdjusted`,
  `RecvdPacketsAlwaysAccounted` and `RedundantBytesAlwaysAgree`. A total agrees
  between calls only; during a call it lacks the bytes the call has not reached
  (`TotalsPending`). A step changes one or two summands by the bytes it passes,
  so the sum has to be taken apart at those keys (`SumProofs`, by induction on
  the size of the set through the least counterexample), and a split has to
  leave it as it is. That the bytes are passed exactly once needs that
  `registerSent` knows the end of the stream (`LargestSeen`), so that a
  retransmission meets ranges only and new data none (`SegmentClassified`); that
  a range without bytes that data fills has counted no packet, and that the
  counters of a range with bytes are below the number of packets and so do not
  wrap (`Tallied`).
- `LossProofs` (`RegularTrace`, `ShortTrace`). `ArrivalsHold`: `ArrivalInv` is
  inductive together with `TallyInv`. From it `ReceivedAlwaysMatched` and
  `DelayAlwaysFromMatch`. Both properties speak of what a range has kept; that
  it is right needs the bytes in between. Each byte in the network has a
  transmission with its timestamp in the range that holds it, or gets it from
  the packet being registered (`TransmissionKnown`), so that a timestamp that
  arrives is in the sender's lists. A range keeps the timestamp of its first
  segment only, so the bytes of a range received must have arrived together
  (`RangeArrived`), and a segment that meets a range not received must be the
  first with its bytes (`SegmentArrived`, `ArrivalKnown`). The 8 bit counter must
  not wrap, or a range received would look as if it were not: a range counts no
  more segments than the receiver's trace has. For the delay, without bundles
  every entry of the one list is in the other (`Regular`), so an index in one is
  an index in the other. TLC checks `ArrivalInv` with the constants of `recv`.
- `SojournProofs`. `SojournReadsOnly`: reading the writes is a stutter of
  `Connection`, so every theorem above holds with them as well.
  `SojournTypeCorrect`. `SojournAlwaysStopsAtEnd` (`CompleteCapture`, and no
  write of more bytes than `RECURSION_LEVEL`), from `LookupInv`: writes follow
  each other, and the recursion over the ranges of a write goes on from the end
  of a range. `SojournAlwaysAttributed` and
  `SojournNeverNegative` (`RegularTrace`, `MaxRecv # 0`), from `SojInv`: a part
  of a range lies in the write whose time it has (`PartsKnown`), and no write is
  later than a packet with its bytes or ones behind them (`WrittenBeforeSent`).
  The second follows from `WireInv`, about the sender's trace alone: each packet
  that a range lists stands for a transmission of every byte of the range,
  whatever splits there were (`PacketsOnWire`), and no byte was sent before the
  ones in front of it (`SentInOrder`). TLC checks `WireInv` and `SojInv` with the
  constants of `recv`.

Only model-checked, and why:

- `CallsReturn` needs fairness. `CallProgress` is the safety part of it for
  `insertByteRange`.
- `DurationExact`: the interval is found by walking the map in order of keys.
  `PacketStatsExact` and `PifsExact` walk it too, and are stated about sequences
  built on the way. What such a walk computes needs induction over data.
- `LostBytesExact` and `IntervalLossSound` compare sums over the ranges with the
  number of bytes left in the network, which would have to be followed step by
  step as `TotalsPending` follows the totals; `IntervalLossSound` also counts
  entries of the lost lists, of which each segment takes out the first match.

## 5. Not modelled

- Latency variation and clock drift (`RangeManager.cc:1808-1966`): quotients in
  floating point of times on two clocks. The integer part they start from, which
  transmission a delay is measured from, is in `LossStats`.
- `--analyse-end` (`Connection.cc:369-386`): `rit.base()` is the range behind the
  one found, so one range more is analysed than the usage text says.
- Percentiles (`statistics_common.cc:249-260`): an index in floating point; it is
  counted from 1 and used from 0, so the 99th percentile of fewer than 100
  values is read behind the end of the vector.
- `Statistics.cc`, `minicsv.h`, `color_print`: formatting and files.
- Options, keys, header and option parsing, pcap filters: no protocol state.
- The map of connections in `Dump`: connections do not share state, except that
  one of them ends the sojourn input of all (above).
- SACK blocks, the window, duplicate acks, throughput samples, averages and
  deviations: stored or printed, nothing else depends on them.
- `analyseDASH` sets options and calls the same `Dump`; `tests` holds a unit
  test of the conversion and a vendored framework.

## 6. Plan

Done: sequence numbers with all four reference points; byte ranges, insertion,
acks, the connection and its passes; sojourn insertion; totals, loss, loss by
interval, packets in flight, warnings and the interval; the proofs
above. Next, in this order:

1. A theorem about the loss: `LostBytesExact`.
2. How far `NoFailure` goes without TCP timestamps or with reordered acks.
3. Totals over an analysis interval, and an interval that ends before it
   starts.
4. Inter-transmission times; duplicate acks and the receiver window of
   `processAck`.
