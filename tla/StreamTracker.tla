------------------------------ MODULE StreamTracker ------------------------------
(* Inspection of TCP streams by one packet worker: the bounded reassembly of   *)
(* tcp_stream.c (jg_tcp_stream_tracker_add for DNS over TCP,                   *)
(* jg_tcp_stream_tracker_add_raw for TLS) with the part of dataplane_worker.c  *)
(* that evaluates what it emits (process_stream, process_tls_stream).  A       *)
(* segment is accepted or dropped as a whole; accepted segments reach the      *)
(* server while their bytes may still be waiting in the tracker.               *)
(*                                                                             *)
(* A client sends the bytes of a stream, cut, repeated and reordered in any way, *)
(* now and then with an altered byte.  A message is a two-cell length and a    *)
(* body; a TLS ClientHello is modelled by the same shape, and only the first   *)
(* one of a connection is inspected.                                           *)
EXTENDS Integers, Sequences, SequencesExt, FiniteSets, FiniteSetsExt

CONSTANTS
  Keys,               \* flows: addresses, ports and VLANs (stream_key)
  SourceOf,           \* [Keys -> sources], the part max_flows_per_source counts
  MaxFlows, MaxFlowsPerSource,
  Window,             \* max_buffered_bytes
  MaxRanges,          \* max_out_of_order_segments
  MinMessage,         \* DNS_HEADER_SIZE
  MaxMessage,         \* max_dns_message_size
  MaxMessages,        \* max_messages_per_packet
  IdleTimeout, ConnectionTimeout,
  Modulus,            \* 2^32
  Radix,              \* 2^8, of the two-cell length
  Streams,            \* [Keys -> sets of byte sequences a client may send]; bound:
                      \* shorter than half of the sequence numbers
  Altered,            \* the value of an altered byte
  AlteredAt,          \* bound: the offsets at which a byte may be altered
  BlockedBodies,      \* bodies the policy blocks
  MalformedBodies,    \* bodies jg_dns_parse_query or parse_client_hello refuses
  Isns,               \* initial sequence numbers
  SegmentSizes,       \* bound: payload sizes of segments
  MaxSynData,         \* bound: longest payload of a SYN
  MaxReconnects,      \* bound: connections given up for another
  Protocols           \* subset of {"dns", "tls"}

None == -1
Slots == 1 .. MaxFlows
Bytes == 0 .. Radix - 1

ASSUME LimitsValid ==
  /\ {MaxFlows, Window, MaxMessages, Modulus, Radix} \subseteq Nat \ {0}
  /\ {MinMessage, MaxMessage, MaxSynData} \cup SegmentSizes \subseteq Nat
  /\ MaxFlowsPerSource \in 1 .. MaxFlows
  /\ MaxRanges \in 1 .. Window /\ MaxMessage + 2 <= Window
  /\ IdleTimeout \in 1 .. ConnectionTimeout
  /\ Modulus % 2 = 0 /\ Isns \subseteq 0 .. Modulus - 1
  /\ \A k \in Keys : Streams[k] \subseteq Seq(Bytes)
  /\ \A k \in Keys : \A stream \in Streams[k] :
       MaxSynData <= Len(stream) /\ Len(stream) < Modulus \div 2
  /\ Altered \in Bytes
  /\ Protocols \subseteq {"dns", "tls"}

VARIABLES
  protocol,      \* which of the two trackers of the worker is looked at
  entries,       \* [Slots -> struct stream_entry with its buffer]
  parsers,       \* [Slots -> struct jg_tls_client_hello_parser]
  conn,          \* [Keys -> the client's connection: isn, stream, begun]
  reconnects     \* how many connections were given up

vars == <<protocol, entries, parsers, conn, reconnects>>

-----------------------------------------------------------------------------
(* The tracker's table. *)

Blank == [i \in 0 .. Window - 1 |-> None]

(* The last four fields are the model's own: whether the flow has been       *)
(* followed since the first SYN of its connection and, if so, the bytes      *)
(* emitted, the bytes that have reached the server by their position, and    *)
(* whether all segments came unaltered and in order.                         *)
Unused == [key |-> None, base |-> 0, buffer |-> Blank, rejected |-> FALSE,
           idle |-> 0, age |-> 0,
           tracked |-> FALSE, seen |-> <<>>, arrived |-> <<>>, orderly |-> FALSE]

Fresh(k, seq, whole) ==
  [Unused EXCEPT !.key = k, !.base = seq, !.idle = IdleTimeout, !.age = ConnectionTimeout,
                 !.tracked = whole, !.orderly = whole]

(* reject_flow: the entry stays, without its bytes and with a fresh deadline. *)
Rejected(e) ==
  [e EXCEPT !.rejected = TRUE, !.buffer = Blank,
            !.idle = IdleTimeout, !.age = ConnectionTimeout]

Expired(e) == e.key # None /\ (e.idle = 0 \/ e.age = 0)

(* expire_flows runs before every other use of the table. *)
Live == [s \in Slots |-> IF Expired(entries[s]) THEN Unused ELSE entries[s]]

Free(s) == entries[s].key = None \/ Expired(entries[s])

Existing(k) == {s \in Slots : entries[s].key = k /\ ~Free(s)}

(* Mutant of Room: the quota of a source is not looked at. *)
RoomWithoutQuota(k) == \E s \in Slots : Free(s)

(* A free slot (find_flow) and the quota of the source (source_flow_count). *)
Room(k) ==
  /\ \E s \in Slots : Free(s)
  /\ Cardinality({s \in Slots : ~Free(s) /\ SourceOf[entries[s].key] = SourceOf[k]})
       < MaxFlowsPerSource

FirstFree == Min({s \in Slots : Free(s)})

HasBytes(e) == e.buffer # Blank

Present(e) == {i \in DOMAIN e.buffer : e.buffer[i] # None}

RangeCount(e) == Cardinality({i \in Present(e) : i - 1 \notin Present(e)})

ContiguousSize(e) == CHOOSE n \in 0 .. Window : n \notin Present(e) /\ 0 .. n - 1 \subseteq Present(e)

Contiguous(e) == [i \in 1 .. ContiguousSize(e) |-> e.buffer[i - 1]]

ConsumePrefix(e, n) ==
  [e EXCEPT !.base = (@ + n) % Modulus,
            !.buffer = [i \in DOMAIN Blank |-> IF i + n < Window THEN @[i + n] ELSE None],
            !.seen = IF e.tracked THEN @ \o SubSeq(Contiguous(e), 1, n) ELSE @]

(* What a FIN leaves: nothing, or a refusal when bytes are still missing. *)
AfterFin(e) == IF HasBytes(e) THEN Rejected(e) ELSE Unused

-----------------------------------------------------------------------------
(* Length-prefixed messages. *)

SizeAt(bytes, c) == bytes[c + 1] * Radix + bytes[c + 2]

BadSize(n) == n < MinMessage \/ n > MaxMessage

(* starts[i]: where the i-th message of a stream begins; the last element is *)
(* where the first message that is incomplete or of a bad size begins.       *)
Starts(bytes) ==
  LET next[c \in 0 .. Len(bytes)] ==
        IF \/ Len(bytes) - c < 2 \/ BadSize(SizeAt(bytes, c))
           \/ Len(bytes) - c < 2 + SizeAt(bytes, c)
        THEN <<c>>
        ELSE <<c>> \o next[c + 2 + SizeAt(bytes, c)]
  IN next[0]

Bodies(bytes) ==
  LET starts == Starts(bytes)
  IN [i \in 1 .. Len(starts) - 1 |-> SubSeq(bytes, starts[i] + 3, starts[i + 1])]

EndsBadly(bytes) ==
  LET c == Last(Starts(bytes)) IN Len(bytes) - c >= 2 /\ BadSize(SizeAt(bytes, c))

Refused(body) == body \in BlockedBodies \cup MalformedBodies

(* What jg_tls_client_hello_parser_feed makes of the bytes so far. *)
HelloResult(bytes) ==
  CASE Len(bytes) < 2 -> "more"
    [] Len(bytes) >= 2 /\ BadSize(SizeAt(bytes, 0)) -> "malformed"
    [] Len(bytes) >= 2 /\ ~BadSize(SizeAt(bytes, 0)) ->
         IF Bodies(bytes) = <<>> THEN "more"
         ELSE IF Head(Bodies(bytes)) \in MalformedBodies THEN "malformed" ELSE "complete"

InitialParser == [got |-> <<>>, terminal |-> "more"]

-----------------------------------------------------------------------------
(* Segments.  Data starts at offset pos of the client's stream, whose first   *)
(* byte has the sequence number isn + 1; a SYN may carry data.                *)

Cuts(stream) ==
  {[pos |-> c[1], data |-> SubSeq(stream, c[1] + 1, c[1] + c[2])] :
     c \in {d \in (0 .. Len(stream)) \X SegmentSizes : d[1] + d[2] <= Len(stream)}}

(* Altered bytes come alone, a SYN carries at most MaxSynData bytes; a SYN is *)
(* sent at the start of the stream, a FIN at its end.                        *)
Segments == [stream \in UNION {Streams[k] : k \in Keys} |->
  LET cuts    == Cuts(stream) \cup {[pos |-> Len(stream), data |-> <<>>]}
      altered == {[c EXCEPT !.data = <<Altered>>] : c \in {d \in cuts : Len(d.data) = 1 /\ d.pos \in AlteredAt}}
  IN {[pos |-> c.pos, data |-> c.data, syn |-> FALSE, fin |-> FALSE] : c \in cuts \cup altered}
     \cup {[pos |-> 0, data |-> SubSeq(stream, 1, n), syn |-> TRUE, fin |-> FALSE] : n \in 0 .. MaxSynData}
     \cup {[pos |-> c.pos, data |-> c.data, syn |-> FALSE, fin |-> TRUE] :
             c \in {d \in cuts : d.pos + Len(d.data) = Len(stream)}}]

SeqNumber(k, pos) == (conn[k].isn + 1 + pos) % Modulus

Reached(e) ==
  CHOOSE n \in 0 .. Cardinality(DOMAIN e.arrived) :
    n \notin DOMAIN e.arrived /\ 0 .. n - 1 \subseteq DOMAIN e.arrived

(* What the server can read: the bytes without a gap before them. *)
Readable(e) == [i \in 1 .. Reached(e) |-> e.arrived[i - 1]]

(* The server keeps the first copy of each byte it gets. *)
Forwarded(e, g) ==
  IF e.tracked
  THEN [e EXCEPT !.arrived =
         [p \in DOMAIN @ \cup (g.pos .. g.pos + Len(g.data) - 1) |->
            IF p \in DOMAIN @ THEN @[p] ELSE g.data[p - g.pos + 1]]]
  ELSE e

InOrder(stream, e, g) ==
  /\ g.data = SubSeq(stream, g.pos + 1, g.pos + Len(g.data))
  /\ g.pos <= Reached(e)

-----------------------------------------------------------------------------
(* The flow a segment belongs to.  A SYN replaces an existing entry, in place. *)

NewFlow(k, g) == Existing(k) = {} \/ g.syn

HasFlow(k, g) ==
  IF NewFlow(k, g) THEN (g.data # <<>> \/ g.syn) /\ (Existing(k) # {} \/ Room(k))
  ELSE ~entries[Min(Existing(k))].rejected

SlotFor(k) == IF Existing(k) # {} THEN Min(Existing(k)) ELSE FirstFree

EntryFor(k, g) ==
  LET e == IF NewFlow(k, g) THEN Fresh(k, SeqNumber(k, g.pos), g.syn /\ ~conn[k].begun)
           ELSE [entries[SlotFor(k)] EXCEPT !.idle = IdleTimeout]
  IN [e EXCEPT !.orderly = @ /\ InOrder(conn[k].stream, e, g)]

(* Mutant of OffsetIn: the distance is not taken modulo 2^32. *)
OffsetInUnwrapped(e, seq) == seq - e.base

(* The 32-bit distance of a segment from the base, as a signed number. *)
OffsetIn(e, seq) ==
  LET distance == (seq - e.base) % Modulus
  IN IF distance < Modulus \div 2 THEN distance ELSE distance - Modulus

(* The segment's bytes that were not consumed before: [at, bytes]. *)
NewPart(k, e, g) ==
  LET at == OffsetIn(e, SeqNumber(k, g.pos))
  IN [at |-> Max({at, 0}),
      bytes |-> IF at < 0 THEN SubSeq(g.data, 1 - at, Len(g.data)) ELSE g.data]

Conflicts(e, new) ==
  \E i \in 1 .. Len(new.bytes) : e.buffer[new.at + i - 1] \notin {None, new.bytes[i]}

Filled(e, new) ==
  [e EXCEPT !.buffer = [i \in DOMAIN @ |->
     IF i \in new.at .. new.at + Len(new.bytes) - 1 THEN new.bytes[i - new.at + 1] ELSE @[i]]]

(* emit_messages refuses a bad length and too many messages. *)
Unframed(bytes) ==
  protocol = "dns" /\ (EndsBadly(bytes) \/ Len(Bodies(bytes)) > MaxMessages)

(* Mutant of Acceptable: a segment that fills the window is refused. *)
AcceptableShort(e, new) ==
  /\ new.at + Len(new.bytes) < Window
  /\ ~Conflicts(e, new)
  /\ RangeCount(Filled(e, new)) <= MaxRanges
  /\ ~Unframed(Contiguous(Filled(e, new)))

Acceptable(e, new) ==
  /\ new.at + Len(new.bytes) <= Window
  /\ ~Conflicts(e, new)
  /\ RangeCount(Filled(e, new)) <= MaxRanges
  /\ ~Unframed(Contiguous(Filled(e, new)))

(* What the tracker takes out of the buffer: whole messages, or all it can. *)
Consumable(bytes) == IF protocol = "dns" THEN Last(Starts(bytes)) ELSE Len(bytes)

Feed(parser, bytes) ==
  IF parser.terminal # "more" THEN parser
  ELSE LET got == parser.got \o bytes IN [got |-> got, terminal |-> HelloResult(got)]

(* Mutant of Judgement: only the first message of a segment is evaluated. *)
JudgementOfFirst(parser, bytes) ==
  LET bodies == IF protocol = "dns" THEN Bodies(bytes) ELSE Bodies(Feed(parser, bytes).got)
  IN IF bodies # <<>> /\ Head(bodies) \in BlockedBodies /\ parser.terminal = "more"
     THEN "reject" ELSE "accept"

(* The evaluation of what was emitted.  A blocked message rejects the flow; a *)
(* DNS message that does not parse is dropped with its segment only: the code *)
(* returns -EINVAL from reset_blocked_stream before it rejects the flow.      *)
Judgement(parser, bytes) ==
  LET bodies == Bodies(bytes)
      first  == SelectInSeq(bodies, Refused)
      after  == Feed(parser, bytes)
  IN IF protocol = "dns"
     THEN IF first = 0 THEN "accept"
          ELSE IF bodies[first] \in BlockedBodies THEN "reject" ELSE "drop"
     ELSE IF /\ parser.terminal = "more"
             /\ \/ after.terminal = "malformed"
                \/ after.terminal = "complete" /\ Head(Bodies(after.got)) \in BlockedBodies
          THEN "reject" ELSE "accept"

-----------------------------------------------------------------------------
(* Effects. *)

(* The model stops following a flow: its client has given it up, or bytes were *)
(* consumed whose segment never reached the server.                            *)
Unfollowed(e) ==
  [e EXCEPT !.tracked = FALSE, !.orderly = FALSE, !.seen = <<>>, !.arrived = <<>>]

Ends(g, e) == IF g.fin THEN AfterFin(e) ELSE e

Store(k, e) == entries' = [Live EXCEPT ![SlotFor(k)] = e]

Begin(k) == conn' = [conn EXCEPT ![k].begun = TRUE]

(* process_tls_stream resets the parser of a slot for a new flow, and again *)
(* after a FIN.                                                             *)
ParserFor(k, g) == IF NewFlow(k, g) THEN InitialParser ELSE parsers[SlotFor(k)]

SetParser(k, parser) ==
  parsers' = IF protocol = "tls" THEN [parsers EXCEPT ![SlotFor(k)] = parser] ELSE parsers

FinParser(g, parser) == IF g.fin THEN InitialParser ELSE parser

(* jg_tcp_stream_tracker_reject_flow: a flow its FIN has just cleared gets a *)
(* new entry, in the first free slot.                                        *)
RejectFlow(k, g, e) ==
  IF g.fin /\ ~HasBytes(e)
  THEN LET table == [Live EXCEPT ![SlotFor(k)] = Unused]
           s     == Min({i \in Slots : table[i].key = None})
       IN [table EXCEPT ![s] = [Rejected(e) EXCEPT !.base = SeqNumber(k, g.pos)]]
  ELSE [Live EXCEPT ![SlotFor(k)] = Rejected(e)]

-----------------------------------------------------------------------------
Init ==
  /\ protocol \in Protocols
  /\ entries = [s \in Slots |-> Unused]
  /\ parsers = [s \in Slots |-> InitialParser] /\ reconnects = 0
  /\ \E isn \in Isns, streams \in [Keys -> UNION {Streams[k] : k \in Keys}] :
       /\ \A k \in Keys : streams[k] \in Streams[k]
       /\ conn = [k \in Keys |-> [isn |-> isn, stream |-> streams[k], begun |-> FALSE]]

(* A client gives up its connection and opens another. *)
Reconnect(k) ==
  /\ conn[k].begun /\ reconnects < MaxReconnects /\ reconnects' = reconnects + 1
  /\ \E isn \in Isns, stream \in Streams[k] :
       conn' = [conn EXCEPT ![k] =
                  [isn |-> isn, stream |-> stream, begun |-> FALSE]]
  /\ entries' = [s \in Slots |->
       IF entries[s].key = k THEN Unfollowed(entries[s]) ELSE entries[s]]
  /\ UNCHANGED <<protocol, parsers>>

(* RST: the flow is forgotten, even a rejected one. *)
ResetSegment(k) ==
  /\ entries' = [s \in Slots |-> IF s \in Existing(k) THEN Unused ELSE Live[s]]
  /\ Begin(k)
  /\ UNCHANGED <<protocol, parsers, reconnects>>

(* A segment of a rejected flow, or of a new one there is no slot for. *)
Drop(k, g) ==
  /\ ~HasFlow(k, g) /\ (Existing(k) # {} \/ g.data # <<>> \/ g.syn)
  /\ entries' = Live
  /\ UNCHANGED <<protocol, parsers, conn, reconnects>>

(* An acknowledgement or a FIN of a flow that is not tracked. *)
Unrelated(k, g) ==
  /\ Existing(k) = {} /\ g.data = <<>> /\ ~g.syn
  /\ entries' = Live /\ Begin(k)
  /\ UNCHANGED <<protocol, parsers, reconnects>>

(* A segment without new data: bare flags, or bytes consumed before. *)
NothingNew(k, g, e) ==
  /\ Store(k, Ends(g, Forwarded(e, g))) /\ Begin(k)
  /\ SetParser(k, FinParser(g, ParserFor(k, g)))

(* Data out of the window, contradictory, too scattered or badly framed. *)
Refuse(k, g, e) ==
  /\ Store(k, Rejected(e)) /\ SetParser(k, ParserFor(k, g))
  /\ UNCHANGED conn

(* Data that completes nothing waits in the buffer and is forwarded. *)
Buffer(k, g, e) ==
  /\ Consumable(Contiguous(e)) = 0
  /\ Store(k, Ends(g, Forwarded(e, g))) /\ Begin(k)
  /\ SetParser(k, FinParser(g, ParserFor(k, g)))

(* Whole messages, or the next bytes of a TLS stream, are evaluated.  If they *)
(* pass the segment is forwarded, else the one that completed them is dropped. *)
Inspect(k, g, e) ==
  LET size    == Consumable(Contiguous(e))
      emitted == SubSeq(Contiguous(e), 1, size)
      rest    == ConsumePrefix(e, size)
      judged  == Judgement(ParserFor(k, g), emitted)
  IN /\ size > 0
     /\ IF judged = "accept"
        THEN Store(k, Ends(g, Forwarded(rest, g))) /\ Begin(k)
        ELSE /\ entries' = IF judged = "reject" THEN RejectFlow(k, g, rest)
                           ELSE [Live EXCEPT ![SlotFor(k)] = Ends(g, Unfollowed(rest))]
             /\ UNCHANGED conn
     /\ SetParser(k, FinParser(g, Feed(ParserFor(k, g), emitted)))

(* One segment of a flow that is or will be in the table. *)
FlowSegment(k, g) ==
  LET e   == EntryFor(k, g)
      new == NewPart(k, e, g)
      old == g.data = <<>> \/ OffsetIn(e, SeqNumber(k, g.pos)) + Len(g.data) <= 0
  IN /\ HasFlow(k, g)
     /\ \/ old /\ NothingNew(k, g, e)
        \/ ~old /\ ~Acceptable(e, new) /\ Refuse(k, g, e)
        \/ ~old /\ Acceptable(e, new)
             /\ (Buffer(k, g, Filled(e, new)) \/ Inspect(k, g, Filled(e, new)))
     /\ UNCHANGED <<protocol, reconnects>>

(* Time passes for every entry. *)
Tick ==
  /\ \E s \in Slots : entries[s].key # None /\ ~Expired(entries[s])
  /\ entries' = [s \in Slots |->
       [entries[s] EXCEPT !.idle = Max({@ - 1, 0}), !.age = Max({@ - 1, 0})]]
  /\ UNCHANGED <<protocol, parsers, conn, reconnects>>

Next ==
  \/ \E k \in Keys :
       \/ Reconnect(k)
       \/ ResetSegment(k)
       \/ \E g \in Segments[conn[k].stream] : Drop(k, g) \/ Unrelated(k, g) \/ FlowSegment(k, g)
  \/ Tick

Spec == Init /\ [][Next]_vars

-----------------------------------------------------------------------------
Tracked == {s \in Slots : entries[s].tracked}

(* Types, and the limits on flows, on the flows of a source and on deadlines. *)
TypeOK ==
  /\ protocol \in Protocols
  /\ \A s \in Slots :
       /\ entries[s].key \in Keys \cup {None} /\ entries[s].base \in 0 .. Modulus - 1
       /\ entries[s].buffer \in [DOMAIN Blank -> Bytes \cup {None}]
       /\ entries[s].idle \in 0 .. IdleTimeout /\ entries[s].age \in 0 .. ConnectionTimeout
       /\ entries[s].rejected => ~HasBytes(entries[s])
       /\ parsers[s].terminal \in {"more", "complete", "malformed"}
       /\ entries[s].key # None =>
            /\ Cardinality({i \in Slots : entries[i].key = entries[s].key}) = 1
            /\ Cardinality({i \in Slots : entries[i].key # None
                              /\ SourceOf[entries[i].key] = SourceOf[entries[s].key]})
                 <= MaxFlowsPerSource

(* What is inspected is what the server reads: on a flow followed from its   *)
(* first SYN the bytes emitted so far are the first bytes that reached the   *)
(* server, each once and in order across the wrap of the sequence numbers;   *)
(* the buffer holds what else has reached it; and the ClientHello parser of  *)
(* the slot was fed exactly these bytes and none of a flow that had the slot *)
(* before (docs/packet-path.md: segmentation, retransmission and bounded     *)
(* out-of-order data).                                                       *)
InspectionFollowsStream ==
  \A s \in Tracked :
    LET e == entries[s]
        n == Len(e.seen)
    IN ~e.rejected =>
         /\ e.base = SeqNumber(e.key, n)
         /\ n <= Reached(e) /\ e.seen = SubSeq(Readable(e), 1, n)
         /\ \A i \in DOMAIN e.buffer :
              e.buffer[i] = IF n + i \in DOMAIN e.arrived THEN e.arrived[n + i] ELSE None
         /\ protocol = "tls" /\ parsers[s].terminal = "more" => parsers[s].got = e.seen

(* No message that is refused reaches the server whole, by whichever segment *)
(* or retransmission it is completed, as long as the flow is followed.  TLS  *)
(* is inspected up to the end of the first message.                          *)
NothingRefusedPasses ==
  \A s \in Tracked :
    LET bodies == Bodies(Readable(entries[s]))
    IN \A i \in DOMAIN bodies : Refused(bodies[i]) => protocol = "tls" /\ i > 1

(* A connection whose segments come unaltered and in order, however they are *)
(* cut and repeated, is rejected only for a message that is refused.         *)
OrderlyStreamsPass ==
  \A s \in Tracked :
    entries[s].orderly /\ entries[s].rejected =>
      \E i \in DOMAIN Bodies(entries[s].seen) : Refused(Bodies(entries[s].seen)[i])

===================================================================================
