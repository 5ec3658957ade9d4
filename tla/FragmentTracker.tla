---------------------------- MODULE FragmentTracker ----------------------------
(* Reassembly of fragmented IP datagrams by one packet worker: the bounded     *)
(* table of fragment.c (jg_fragment_tracker_add) with process_fragment of      *)
(* dataplane_worker.c, which evaluates a datagram once its fragments are       *)
(* there.  A fragment that completes nothing is accepted and reaches the host  *)
(* at once; what completes a blocked datagram is dropped.                      *)
(*                                                                             *)
(* A sender cuts the payloads of a datagram id in any way, repeats, reorders   *)
(* and mixes the pieces.  The host keeps the fragments that reach it for no    *)
(* longer than the tracker does.                                               *)
EXTENDS Integers, Sequences, SequencesExt, FiniteSets, FiniteSetsExt

CONSTANTS
  Datagrams,          \* addresses, VLANs, protocol and identification (build_key)
  SenderOf,           \* [Datagrams -> sources]
  MaxDatagrams, MaxDatagramsPerSource,
  MaxFragments,       \* max_fragments_per_datagram
  MaxBytes,           \* max_bytes_per_datagram
  Unit,               \* 8, the granularity of offsets
  FragmentTimeout,
  PieceSizes,         \* bound: sizes of fragments
  Payloads,           \* [Datagrams -> sets of payloads a sender may cut up]
  BlockedPayloads     \* payloads jg_dataplane_evaluate refuses

Slot == 1 .. MaxDatagrams

ASSUME FragmentLimitsValid ==
  /\ {MaxDatagrams, MaxFragments, MaxBytes, Unit, FragmentTimeout} \subseteq Nat \ {0}
  /\ MaxDatagramsPerSource \in 1 .. MaxDatagrams
  /\ 0 \notin Datagrams
  /\ \A d \in Datagrams : Payloads[d] \subseteq Seq(Nat)

VARIABLES
  datagrams,     \* [Slot -> struct fragment_entry with its intervals and bytes]
  collected      \* [Datagrams -> what the host holds, what became of the datagram
                 \*  and how long that matters, and whether more of it came after it was blocked]

fragmentVars == <<datagrams, collected>>

-----------------------------------------------------------------------------
(* Fragments *)

Pieces(payload) ==
  {[offset |-> c[1], bytes |-> SubSeq(payload, c[1] + 1, c[2]), more |-> c[3]] :
     c \in {d \in (0 .. Len(payload)) \X (0 .. Len(payload)) \X BOOLEAN :
              d[1] % Unit = 0 /\ d[2] - d[1] \in PieceSizes}}

(* Any pieces of the payloads, the ends that say they are not the last and the *)
(* middles that say they are included.                                         *)
FragmentsOf == [d \in Datagrams |-> UNION {Pieces(p) : p \in Payloads[d]}]

End(f) == f.offset + Len(f.bytes)

Malformed(f) == f.bytes = <<>> \/ (f.more /\ Len(f.bytes) % Unit # 0)

(* entry_complete, of any set of fragments that do not overlap *)
Covers(fragments) ==
  \E last \in fragments :
    /\ ~last.more
    /\ \A i \in 0 .. End(last) - 1 : \E f \in fragments : i >= f.offset /\ i < End(f)
    /\ \A f \in fragments : End(f) <= End(last)

Assembled(fragments) ==
  [i \in 1 .. Max({End(f) : f \in fragments}) |->
     LET f == CHOOSE g \in fragments : i > g.offset /\ i <= End(g)
     IN f.bytes[i - f.offset]]

-----------------------------------------------------------------------------
(* The table *)

NoEntry == [key |-> 0, fragments |-> {}, rejected |-> FALSE, left |-> 0]

NewEntry(d) == [NoEntry EXCEPT !.key = d, !.left = FragmentTimeout]

(* reject_entry: the key is kept, without its bytes, until a fresh timeout. *)
RejectedEntry(d) == [NewEntry(d) EXCEPT !.rejected = TRUE]

(* expire_entries comes before everything else. *)
Current ==
  [s \in Slot |-> IF datagrams[s].left = 0 THEN NoEntry ELSE datagrams[s]]

Holding(d) == {s \in Slot : Current[s].key = d}

(* A free slot and the quota of the source. *)
RoomFor(d) ==
  /\ \E s \in Slot : Current[s].key = 0
  /\ Cardinality({s \in Slot : Current[s].key # 0
                    /\ SenderOf[Current[s].key] = SenderOf[d]}) < MaxDatagramsPerSource

Place(d) ==
  IF Holding(d) # {} THEN Min(Holding(d)) ELSE Min({s \in Slot : Current[s].key = 0})

Entry(d) == IF Holding(d) # {} THEN Current[Place(d)] ELSE NewEntry(d)

(* Mutant of InspectIntervals: a fragment that begins where another one does   *)
(* is taken for its duplicate.                                                 *)
InspectIntervalsByOffset(e, f) ==
  IF \E g \in e.fragments : g.offset = f.offset THEN "duplicate"
  ELSE IF \E g \in e.fragments : f.offset < End(g) /\ g.offset < End(f) THEN "overlap"
  ELSE "stored"

InspectIntervals(e, f) ==
  IF f \in e.fragments THEN "duplicate"
  ELSE IF \E g \in e.fragments : f.offset < End(g) /\ g.offset < End(f) THEN "overlap"
  ELSE "stored"

(* A last fragment is known, and this one goes past it or names another end. *)
ContradictsEnd(e, f) ==
  \E g \in e.fragments : ~g.more /\ (End(f) > End(g) \/ (~f.more /\ End(f) # End(g)))

(* What jg_fragment_tracker_add says of a fragment, in the order of its checks; *)
(* "full" is JG_FRAGMENT_EXHAUSTED for want of a slot.                          *)
AddResult(d, f) ==
  LET e == Entry(d)
  IN CASE Holding(d) # {} /\ e.rejected -> "rejected"
       [] OTHER ->
          IF Malformed(f) THEN "malformed"
          ELSE IF End(f) > MaxBytes THEN "exhausted"
          ELSE IF Holding(d) = {} /\ ~RoomFor(d) THEN "full"
          ELSE IF ContradictsEnd(e, f) THEN "overlap"
          ELSE IF InspectIntervals(e, f) # "stored" THEN InspectIntervals(e, f)
          ELSE IF Cardinality(e.fragments) >= MaxFragments THEN "exhausted"
          ELSE IF Covers(e.fragments \cup {f}) THEN "complete" ELSE "stored"

Put(d, e) == datagrams' = [Current EXCEPT ![Place(d)] = e]

-----------------------------------------------------------------------------
Nothing == [got |-> {}, left |-> 0, ended |-> "no", again |-> FALSE]

FragmentInit ==
  /\ datagrams = [s \in Slot |-> NoEntry]
  /\ collected = [d \in Datagrams |-> Nothing]

(* The host gets the fragment. *)
Gathered(c, f) ==
  LET held == IF c.ended = "passed" THEN Nothing ELSE c
  IN [held EXCEPT !.got = @ \cup {f}, !.again = @ \/ held.ended = "blocked"]

Reach(d, f) == collected' = [collected EXCEPT ![d] = Gathered(@, f)]

(* process_fragment drops the fragment; an entry there is becomes a refusal,   *)
(* unless there was no room or it was one before.                              *)
DropFragment(d, f) ==
  /\ AddResult(d, f) \in {"rejected", "malformed", "exhausted", "full", "overlap"}
  /\ IF Holding(d) = {} \/ AddResult(d, f) \in {"rejected", "full"}
     THEN datagrams' = Current ELSE Put(d, RejectedEntry(d))
  /\ UNCHANGED collected

(* Retained, with a fresh deadline. *)
StoreFragment(d, f) ==
  /\ AddResult(d, f) = "stored"
  /\ Put(d, [Entry(d) EXCEPT !.fragments = @ \cup {f}, !.left = FragmentTimeout])
  /\ Reach(d, f)

(* A duplicate leaves the entry and its deadline alone. *)
RepeatFragment(d, f) ==
  /\ AddResult(d, f) = "duplicate"
  /\ datagrams' = Current
  /\ Reach(d, f)

(* The datagram is there: the entry is given up, jg_fragment_build_frame makes *)
(* a frame of it, and jg_dataplane_evaluate decides on this fragment.          *)
CompleteFragment(d, f) ==
  /\ AddResult(d, f) = "complete"
  /\ Put(d, NoEntry)
  /\ LET blocked == Assembled(Entry(d).fragments \cup {f}) \in BlockedPayloads
     IN collected' = [collected EXCEPT ![d] =
          [(IF blocked THEN @ ELSE Gathered(@, f)) EXCEPT
             !.ended = IF blocked THEN "blocked" ELSE "passed", !.left = FragmentTimeout]]

(* Time passes.  The host gives a datagram up with the tracker, or a timeout   *)
(* after it was completed.                                                     *)
FragmentTick ==
  /\ datagrams' = [s \in Slot |-> [Current[s] EXCEPT !.left = IF @ = 0 THEN 0 ELSE @ - 1]]
  /\ collected' = [d \in Datagrams |->
       LET left == IF Holding(d) # {} THEN Entry(d).left ELSE collected[d].left
       IN IF left <= 1 THEN Nothing
          ELSE IF Holding(d) # {} THEN collected[d] ELSE [collected[d] EXCEPT !.left = @ - 1]]

FragmentNext ==
  \/ \E d \in Datagrams : \E f \in FragmentsOf[d] :
       DropFragment(d, f) \/ StoreFragment(d, f) \/ RepeatFragment(d, f) \/ CompleteFragment(d, f)
  \/ FragmentTick

-----------------------------------------------------------------------------
(* The payloads a host may make of fragments that overlap in any way; it       *)
(* refuses a last fragment that ends before another one.                       *)
Readings(fragments) ==
  {p \in UNION {[1 .. n -> UNION {Range(f.bytes) : f \in fragments}] :
                  n \in {End(f) : f \in {g \in fragments : ~g.more}}} :
     /\ \A f \in fragments : End(f) <= Len(p)
     /\ \A i \in DOMAIN p : \E f \in fragments :
          i > f.offset /\ i <= End(f) /\ p[i] = f.bytes[i - f.offset]}

(* Whatever the host can assemble of the fragments that were let through, and  *)
(* whichever copy of a byte it prefers, is no blocked payload, however the     *)
(* datagram was cut, mixed with another, repeated, refused for want of room or *)
(* timed out in between (inspect_intervals and the rejections of               *)
(* jg_fragment_tracker_add), as long as no fragment comes after the datagram   *)
(* was blocked: a completed entry is not remembered.                           *)
NothingBlockedIsAssembled ==
  \A d \in Datagrams :
    ~collected[d].again => Readings(collected[d].got) \cap BlockedPayloads = {}
================================================================================
