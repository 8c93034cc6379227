------------------------------- MODULE Packets -------------------------------
(***************************************************************************)
(* The wire formats: the payloads of src/network/payloads.rs, the messages *)
(* of the two-phase commit (src/network/consensus.rs), the telemetry       *)
(* snapshot (src/telemetry/mod.rs), and the shards of                      *)
(* src/network/io_uring.rs.                                                *)
(*                                                                         *)
(* A layout gives, as two independent readings of the code, what the       *)
(* encoder writes after the tag (widths, in order) and where the decoder   *)
(* reads (offset and width of each field).  A byte has Base values, so     *)
(* that the 8-byte numbers stay in TLC's range; tags are plain numbers.    *)
(***************************************************************************)
EXTENDS Integers, FiniteSets, SequencesExt

CONSTANTS
  Base,     \* values of a byte (256)
  Seeds,    \* bound: the patterns of field values that are sent
  Lengths   \* bound: the numbers of waypoints or locks that are sent

ASSUME BaseAssumption == Base \in Nat /\ Base > 9 /\ Seeds \subseteq Nat /\ Lengths \subseteq Nat

None == [kind |-> "none"]

-----------------------------------------------------------------------------
(* Layouts.                                                                *)

\* The number of values of a field of width bytes.
Power[width \in 0 .. 8] == IF width = 0 THEN 1 ELSE Base * Power[width - 1]

NoItem == [writes |-> <<>>, reads |-> <<>>, size |-> 0]

Plain(tag, writes, reads, least) ==
  [tag |-> tag, writes |-> writes, reads |-> reads, least |-> least, pad |-> 0,
   most |-> [i \in 1 .. Len(writes) |-> Power[writes[i]] - 1],
   count |-> 0, from |-> 0, item |-> NoItem, strict |-> FALSE]

\* A list of items: count is the field that counts them, from the offset of
\* the first; a strict decoder refuses data that end before the last.
Listed(layout, count, from, item, strict) ==
  [layout EXCEPT !.count = count, !.from = from, !.item = item, !.strict = strict]

WireWaypoint ==
  [writes |-> <<2, 4, 4>>, reads |-> <<<<0, 2>>, <<2, 4>>, <<6, 4>>>>, size |-> 10]
CellLockRequest ==
  [writes |-> <<2, 4, 4>>, reads |-> <<<<0, 2>>, <<2, 4>>, <<6, 4>>>>, size |-> 10]

\* agent_id, seq_no, waypoints (the heading is not written)
IntentPayload ==
  Listed(Plain(1, <<1, 2, 1>>, <<<<1, 1>>, <<2, 2>>, <<4, 1>>>>, 5),
         3, 5, WireWaypoint, TRUE)
\* task_id, pickup, dropoff, priority, deadline, manager_id, bid_window
TaskCfpPayload ==
  [Plain(2, <<2, 2, 2, 1, 4, 1, 2>>,
         <<<<1, 2>>, <<3, 2>>, <<5, 2>>, <<7, 1>>, <<8, 4>>, <<12, 1>>, <<13, 2>>>>, 16)
   EXCEPT !.pad = 22]
\* task_id, agent_id, utility, estimated_ticks, battery_pct, queue_depth
TaskBidPayload ==
  [Plain(3, <<2, 1, 2, 2, 1, 1>>,
         <<<<1, 2>>, <<3, 1>>, <<4, 2>>, <<6, 2>>, <<8, 1>>, <<9, 1>>>>, 10)
   EXCEPT !.pad = 16]
\* reporter_id, blocked_cell, detected_tick
EdgeBlockedPayload == Plain(4, <<1, 2, 4>>, <<<<1, 1>>, <<2, 2>>, <<4, 4>>>>, 8)
\* task_id, agent_id, pickup, dropoff
TaskAwardPayload ==
  Plain(5, <<2, 1, 2, 2>>, <<<<1, 2>>, <<3, 1>>, <<4, 2>>, <<6, 2>>>>, 8)
\* agent_id, cell, heading, stop_tick, v_current
IntentBrakePayload ==
  Plain(6, <<1, 2, 1, 4, 2>>,
        <<<<1, 1>>, <<2, 2>>, <<4, 1>>, <<5, 4>>, <<9, 2>>>>, 11)

\* agent_id, lamport_ts, lock count, sent_tick, locks
PreparePayload ==
  Listed(Plain(16, <<1, 8, 1, 4>>, <<<<1, 1>>, <<2, 8>>, <<10, 1>>, <<11, 4>>>>, 16),
         3, 15, CellLockRequest, FALSE)
\* txn agent, txn timestamp, responder_id, lamport_ts, accepted (written as 0
\* or 1; the reader takes any other byte for 1)
AckPromise ==
  [Plain(17, <<1, 8, 1, 8, 1>>,
         <<<<1, 1>>, <<2, 8>>, <<10, 1>>, <<11, 8>>, <<19, 1>>>>, 20)
   EXCEPT !.most[5] = 1]
\* txn agent, txn timestamp, lamport_ts
CommitPayload == Plain(18, <<1, 8, 8>>, <<<<1, 1>>, <<2, 8>>, <<10, 8>>>>, 18)
AbortPayload == Plain(19, <<1, 8, 8>>, <<<<1, 1>>, <<2, 8>>, <<10, 8>>>>, 18)

\* agent_id, tick, state, cell, heading, x, y, theta, battery, yield_count,
\* task_id (all ones for none), plan_attempts; velocities are not written.
TelemetrySnapshot ==
  [Plain(16, <<1, 4, 1, 2, 1, 4, 4, 4, 1, 1, 2, 1>>,
         <<<<1, 1>>, <<2, 4>>, <<6, 1>>, <<7, 2>>, <<9, 1>>, <<10, 4>>, <<14, 4>>,
           <<18, 4>>, <<22, 1>>, <<23, 1>>, <<24, 2>>, <<26, 1>>>>, 32)
   EXCEPT !.pad = 32, !.most[3] = 9, !.most[5] = 3]

Layouts ==
  [INTENT |-> IntentPayload, TASK_CFP |-> TaskCfpPayload, TASK_BID |-> TaskBidPayload,
   EDGE_BLOCKED |-> EdgeBlockedPayload, TASK_AWARD |-> TaskAwardPayload,
   INTENT_BRAKE |-> IntentBrakePayload, PREPARE |-> PreparePayload,
   ACK_PROMISE |-> AckPromise, COMMIT |-> CommitPayload, ABORT |-> AbortPayload,
   TELEMETRY |-> TelemetrySnapshot]
Kind == DOMAIN Layouts

-----------------------------------------------------------------------------
(* Encoding and decoding.                                                  *)

ToLE(v, width) == [i \in 1 .. width |-> (v \div Power[i - 1]) % Base]
FromLE(data, at, width) ==
  LET upto[i \in 0 .. width] == IF i = 0 THEN 0 ELSE upto[i - 1] + data[at + i] * Power[i - 1]
  IN  upto[width]

Put(values, widths) ==
  FlattenSeq([i \in 1 .. Len(widths) |-> ToLE(values[i], widths[i])])
Get(data, at, reads) ==
  [i \in 1 .. Len(reads) |-> FromLE(data, at + reads[i][1], reads[i][2])]

Zeros(n) == [i \in 1 .. n |-> 0]
Padded(data, length) == data \o Zeros(length - Len(data))

\* How many items are written, and what the count says: an INTENT writes all
\* and counts them modulo a byte, a PREPARE stops at the largest byte.
Written(layout, n) == IF layout.strict \/ n < Base THEN n ELSE Base - 1
Count(layout, n) == Written(layout, n) % Base

\* to_bytes() of a packet [kind, fields, items]
ToBytes(p) ==
  LET layout == Layouts[p.kind]
      n == Len(p.items)
      fields == IF layout.count = 0 THEN p.fields
                ELSE [p.fields EXCEPT ![layout.count] = Count(layout, n)]
      items == [i \in 1 .. Written(layout, n) |-> Put(p.items[i], layout.item.writes)]
      data == <<layout.tag>> \o Put(fields, layout.writes) \o FlattenSeq(items)
  IN IF Len(data) < layout.pad THEN Padded(data, layout.pad) ELSE data

\* The items the count announces and the data hold.
ItemsIn(layout, data, count) ==
  IF layout.count = 0 THEN <<>>
  ELSE LET size == layout.item.size
           held == IF Len(data) < layout.from THEN 0
                   ELSE (Len(data) - layout.from) \div size
           n == IF count < held THEN count ELSE held
       IN [i \in 1 .. n |-> Get(data, layout.from + (i - 1) * size, layout.item.reads)]

\* from_bytes() of one kind: None for another tag, for data that are too
\* short, for a value no enum has, and, strictly, for a list cut short.
FromBytes(kind, data) ==
  LET layout == Layouts[kind]
  IN IF Len(data) < layout.least \/ data[1] # layout.tag THEN None
     ELSE LET fields == Get(data, 0, layout.reads)
              count == IF layout.count = 0 THEN 0 ELSE fields[layout.count]
              items == ItemsIn(layout, data, count)
          IN IF \/ \E i \in DOMAIN fields : fields[i] > layout.most[i]
                \/ layout.strict /\ Len(items) < count
             THEN None
             ELSE [kind |-> kind, fields |-> fields, items |-> items]

-----------------------------------------------------------------------------
(* Forward error correction: four data shards and two of parity.  The      *)
(* Reed-Solomon library restores every data shard from any four shards.    *)

DataShards == 4
ParityShards == 2

ShardSizeBug(data) == Len(data) \div DataShards
ShardSize(data) == (Len(data) + DataShards - 1) \div DataShards

\* encode_payload_fec: the data, in DataShards pieces padded with zeros.
FecEncode(data) ==
  LET size == ShardSize(data)
  IN [i \in 1 .. DataShards |-> SubSeq(Padded(data, DataShards * size),
                                       (i - 1) * size + 1, i * size)]
\* decode_payload_fec: the data shards in a row, with their padding.
FecDecode(shards) == FlattenSeq(shards)

-----------------------------------------------------------------------------
(* A packet on its way.                                                    *)

\* Telling values for a field, the largest among them.
Sample(seed, i, most) ==
  IF seed = 1 THEN most ELSE (seed * 101 + seed * i * 7) % (most + 1)

PacketOf(kind, seed, n) ==
  LET layout == Layouts[kind]
  IN [kind |-> kind,
      fields |-> [i \in 1 .. Len(layout.writes) |->
                    IF i = layout.count THEN Count(layout, n)
                    ELSE Sample(seed, i, layout.most[i])],
      items |-> [j \in 1 .. n |-> [i \in 1 .. Len(layout.item.writes) |->
                    Sample(seed, i + j, Power[layout.item.writes[i]] - 1)]]]

VARIABLES
  packet,    \* the packet sent, or None
  received,  \* what the receiver makes of it, or None
  carrier    \* "none" before it arrives, "udp", "cut" or "fec"

packetVars == <<packet, received, carrier>>

PacketsInit == packet = None /\ received = None /\ carrier = "none"

Emit(kind) ==
  /\ packet = None
  /\ \E seed \in Seeds, n \in IF Layouts[kind].count = 0 THEN {0} ELSE Lengths :
       packet' = PacketOf(kind, seed, n)
  /\ UNCHANGED <<received, carrier>>

\* A datagram, read into a buffer that may be shorter: the rest is cut off.
ReceiveDatagram ==
  /\ packet # None /\ carrier = "none"
  /\ LET data == ToBytes(packet)
     IN \E room \in 0 .. Len(data) :
          /\ carrier' = IF room = Len(data) THEN "udp" ELSE "cut"
          /\ received' = FromBytes(packet.kind, SubSeq(data, 1, room))
  /\ UNCHANGED packet

\* As shards, some of which get lost: too many, or they are restored.
ReceiveShards ==
  /\ packet # None /\ carrier = "none"
  /\ \E missing \in 0 .. DataShards + ParityShards :
       IF missing =< ParityShards
       THEN /\ carrier' = "fec"
            /\ received' = FromBytes(packet.kind, FecDecode(FecEncode(ToBytes(packet))))
       ELSE carrier' = "cut" /\ received' = None
  /\ UNCHANGED packet

PacketsNext == (\E kind \in Kind : Emit(kind)) \/ ReceiveDatagram \/ ReceiveShards

PacketsSpec == PacketsInit /\ [][PacketsNext]_packetVars

-----------------------------------------------------------------------------
\* The kinds whose tag a decoder of the other accepts.
SameTag == {"PREPARE", "TELEMETRY"}

Fits(p) == Len(p.items) < Base
Bare(p) == p.kind = "PREPARE" /\ p.items = <<>>

\* What is read is what was written.  A packet whose list fits a byte's count
\* arrives as it was sent, in a datagram and through shards with their padding;
\* only a PREPARE without locks is one byte too short for its own decoder.
\* Read into too short a buffer, it arrives as it was sent or not at all, but
\* for a PREPARE and for a list that does not fit, which may lose their end.
\* No decoder takes another kind for its own, except for one tag used twice.
WireExact ==
  /\ carrier \in {"udp", "fec"} /\ Fits(packet) /\ ~(carrier = "udp" /\ Bare(packet))
       => received = packet
  /\ received # None =>
       /\ received.kind = packet.kind /\ received.fields = packet.fields
       /\ IsPrefix(received.items, packet.items)
       /\ packet.kind # "PREPARE" /\ Fits(packet) => received = packet
  /\ packet # None => \A kind \in Kind \ {packet.kind} :
       FromBytes(kind, ToBytes(packet)) # None => {kind, packet.kind} = SameTag
=============================================================================
