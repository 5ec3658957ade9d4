------------------------ MODULE DataplaneWorkerProofs ------------------------
(***************************************************************************)
(* Proofs about the trackers of a packet worker, for every set of flows    *)
(* and datagrams, every payload and every limit.                           *)
(***************************************************************************)
EXTENDS DataplaneWorker, FiniteSetTheorems, SequenceTheorems, WellFoundedInduction, TLAPS

-----------------------------------------------------------------------------
(* The fragment tracker *)

EntryFields == {"key", "fragments", "rejected", "left"}
CollectedFields == {"got", "left", "ended", "again"}

(* No two fragments have a byte in common. *)
Disjoint(fragments) ==
  \A f, g \in fragments : f # g => ~(f.offset < End(g) /\ g.offset < End(f))

IsFragment(f) == f.offset \in Nat /\ End(f) \in Nat

IsEntry(e) ==
  /\ e = [field \in EntryFields |-> e[field]]
  /\ e.key \in Datagrams /\ e.left \in Nat \ {0}
  /\ \A f \in e.fragments : IsFragment(f)
  /\ Disjoint(e.fragments)

(* expire_entries leaves no trace of an entry; a datagram has one at most. *)
TableInv ==
  /\ \A s \in Slot : Current[s] = NoEntry \/ IsEntry(Current[s])
  /\ \A s, t \in Slot : Current[s].key = Current[t].key /\ Current[s].key # 0 => s = t

IsCollected(c) ==
  /\ c = [field \in CollectedFields |-> c[field]]
  /\ c.again \in BOOLEAN /\ c.ended \in {"no", "passed", "blocked"}

(* The host has the fragments of the entry, unless it is one of a datagram *)
(* that was blocked before; without an entry it has what was completed.    *)
HostInv ==
  \A d \in Datagrams :
    /\ IsCollected(collected[d])
    /\ Holding(d) # {} =>
         collected[d].ended # "passed" /\ (collected[d].again \/ collected[d].ended = "no")
    /\ \A s \in Holding(d) :
         Current[s].rejected = FALSE =>
           collected[d].again \/ collected[d].got = Current[s].fragments
    /\ Holding(d) = {} /\ collected[d].ended = "no" =>
         collected[d].got = {} /\ ~collected[d].again

FragmentInv ==
  /\ TableInv
  /\ collected = [d \in Datagrams |-> collected[d]] /\ HostInv
  /\ NothingBlockedIsAssembled

(* A set of numbers that is not empty has a least member. *)
LEMMA LeastNumber ==
  ASSUME NEW N \in SUBSET Nat, N # {}
  PROVE  \E n \in N : \A m \in N : n <= m
  <1>1. PICK n \in N : \A m \in N : ~ (<<m, n>> \in OpToRel(<, Nat))
    BY WFMin, NatLessThanWellFounded
  <1>2. \A m \in N : ~ (m < n)
    BY <1>1 DEF OpToRel
  <1>3. QED
    BY <1>2

LEMMA MinIs ==
  ASSUME NEW S, S \subseteq Slot, S # {}
  PROVE  Min(S) \in S
  <1>1. S \in SUBSET Nat
    BY DEF Slot
  <1>2. \E n \in S : \A m \in S : n <= m
    BY <1>1, LeastNumber
  <1>3. QED
    BY <1>2 DEF Min

(* The pieces of a payload begin and end at offsets of it. *)
LEMMA PiecesAreFragments ==
  ASSUME NEW d \in Datagrams, NEW f \in FragmentsOf[d]
  PROVE  IsFragment(f)
  <1>1. PICK p \in Payloads[d] : f \in Pieces(p)
    BY DEF FragmentsOf
  <1>2. p \in Seq(Nat)
    BY <1>1, FragmentLimitsValid
  <1>3. PICK c \in (0 .. Len(p)) \X (0 .. Len(p)) \X BOOLEAN :
          f = [offset |-> c[1], bytes |-> SubSeq(p, c[1] + 1, c[2]), more |-> c[3]]
    BY <1>1 DEF Pieces
  <1>4. c[1] \in Nat /\ c[2] \in Nat /\ c[1] <= Len(p) /\ c[2] <= Len(p) /\ Len(p) \in Nat
    BY <1>2, <1>3
  <1>5. f.offset = c[1] /\ f.bytes = SubSeq(p, c[1] + 1, c[2])
    BY <1>3
  <1>6. SubSeq(p, c[1] + 1, c[2]) \in Seq(Nat)
    BY <1>2, <1>4
  <1>7. Len(f.bytes) \in Nat
    BY <1>5, <1>6
  <1>8. f.offset \in Nat
    BY <1>4, <1>5
  <1>9. QED
    BY <1>7, <1>8 DEF IsFragment, End

-----------------------------------------------------------------------------
(* What a host can make of fragments *)

(* Nothing of fragments that do not cover a datagram. *)
LEMMA NoReading ==
  ASSUME NEW F, \A f \in F : IsFragment(f), ~Covers(F)
  PROVE  Readings(F) = {}
  <1> SUFFICES ASSUME NEW p \in Readings(F) PROVE FALSE
    OBVIOUS
  <1>1. PICK n \in {End(f) : f \in {g \in F : ~g.more}} :
          p \in [1 .. n -> UNION {Range(f.bytes) : f \in F}]
    BY DEF Readings
  <1>2. PICK last \in F : ~last.more /\ n = End(last)
    BY <1>1
  <1>3. n \in Nat /\ Len(p) = n /\ DOMAIN p = 1 .. n
    BY <1>1, <1>2 DEF IsFragment
  <1>4. /\ \A f \in F : End(f) <= n
        /\ \A i \in 1 .. n : \E f \in F : i > f.offset /\ i <= End(f)
    BY <1>3 DEF Readings
  <1>5. ASSUME NEW i \in 0 .. End(last) - 1
        PROVE  \E f \in F : i >= f.offset /\ i < End(f)
    <2>1. i + 1 \in 1 .. n /\ i \in Nat
      BY <1>2, <1>3
    <2>2. PICK f \in F : i + 1 > f.offset /\ i + 1 <= End(f)
      BY <1>4, <2>1
    <2>3. QED
      BY <2>1, <2>2 DEF IsFragment
  <1>6. Covers(F)
    BY <1>2, <1>4, <1>5 DEF Covers
  <1>7. QED
    BY <1>6

(* One payload of fragments that do not overlap. *)
LEMMA OneReading ==
  ASSUME NEW F, \A f \in F : IsFragment(f), Disjoint(F)
  PROVE  Readings(F) \subseteq {Assembled(F)}
  <1> SUFFICES ASSUME NEW p \in Readings(F) PROVE p = Assembled(F)
    OBVIOUS
  <1>1. PICK n \in {End(f) : f \in {g \in F : ~g.more}} :
          p \in [1 .. n -> UNION {Range(f.bytes) : f \in F}]
    BY DEF Readings
  <1>2. PICK last \in F : ~last.more /\ n = End(last)
    BY <1>1
  <1>3. n \in Nat /\ Len(p) = n /\ DOMAIN p = 1 .. n
    BY <1>1, <1>2 DEF IsFragment
  <1>4. /\ \A f \in F : End(f) <= n
        /\ \A i \in 1 .. n : \E f \in F :
             i > f.offset /\ i <= End(f) /\ p[i] = f.bytes[i - f.offset]
    BY <1>3 DEF Readings
  <1>5. Max({End(f) : f \in F}) = n
    <2>1. PICK ends : ends = {End(f) : f \in F}
      OBVIOUS
    <2>2. n \in ends /\ \A e \in ends : e \in Nat /\ n >= e
      BY <1>2, <1>3, <1>4, <2>1 DEF IsFragment
    <2>3. Max(ends) \in ends /\ \A e \in ends : Max(ends) >= e
      BY <2>2 DEF Max
    <2>4. PICK m : m = Max(ends)
      OBVIOUS
    <2>5. m \in Nat /\ m >= n /\ n >= m
      BY <2>2, <2>3, <2>4
    <2>6. m = n
      BY <1>3, <2>5
    <2>7. QED
      BY <2>1, <2>4, <2>6
  <1> DEFINE chosen(i) == CHOOSE g \in F : i > g.offset /\ i <= End(g)
  <1>6. ASSUME NEW i \in 1 .. n
        PROVE  p[i] = chosen(i).bytes[i - chosen(i).offset]
    <2>1. PICK f \in F : i > f.offset /\ i <= End(f) /\ p[i] = f.bytes[i - f.offset]
      BY <1>4
    <2>2. chosen(i) \in F /\ i > chosen(i).offset /\ i <= End(chosen(i))
      BY <2>1
    <2> HIDE DEF chosen
    <2>3. PICK g : g = chosen(i)
      OBVIOUS
    <2>4. f.offset \in Nat /\ End(f) \in Nat /\ g.offset \in Nat /\ End(g) \in Nat
      BY <2>1, <2>2, <2>3 DEF IsFragment
    <2>5. f.offset < End(g) /\ g.offset < End(f)
      BY <1>3, <2>1, <2>2, <2>3, <2>4
    <2>6. f = g
      BY <2>1, <2>2, <2>3, <2>5 DEF Disjoint
    <2>7. QED
      BY <2>1, <2>3, <2>6
  <1>7. Assembled(F) = [i \in 1 .. n |-> chosen(i).bytes[i - chosen(i).offset]]
    BY <1>5 DEF Assembled
  <1> HIDE DEF chosen
  <1>8. QED
    BY <1>1, <1>6, <1>7

-----------------------------------------------------------------------------
(* The table *)

(* Where a datagram is, or would be. *)
LEMMA PlaceIs ==
  ASSUME TableInv, NEW d \in Datagrams
  PROVE  /\ Holding(d) # {} => /\ Place(d) \in Slot /\ Current[Place(d)].key = d
                               /\ IsEntry(Current[Place(d)]) /\ Holding(d) = {Place(d)}
         /\ RoomFor(d) /\ Holding(d) = {} => Place(d) \in Slot /\ Current[Place(d)].key = 0
  <1>1. Holding(d) \subseteq Slot /\ d # 0
    BY FragmentLimitsValid DEF Holding
  <1>2. ASSUME Holding(d) # {}
        PROVE  /\ Place(d) \in Slot /\ Current[Place(d)].key = d
               /\ IsEntry(Current[Place(d)]) /\ Holding(d) = {Place(d)}
    <2>1. Place(d) \in Holding(d)
      BY <1>1, <1>2, MinIs DEF Place
    <2>2. Place(d) \in Slot /\ Current[Place(d)].key = d
      BY <2>1 DEF Holding
    <2>3. IsEntry(Current[Place(d)])
      BY <1>1, <2>2 DEF TableInv, NoEntry
    <2>4. \A s \in Holding(d) : s = Place(d)
      BY <1>1, <2>2 DEF TableInv, Holding
    <2>5. QED
      BY <2>1, <2>2, <2>3, <2>4
  <1>3. ASSUME RoomFor(d), Holding(d) = {}
        PROVE  Place(d) \in Slot /\ Current[Place(d)].key = 0
    <2>1. PICK free : free = {s \in Slot : Current[s].key = 0}
      OBVIOUS
    <2>2. free # {} /\ free \subseteq Slot
      BY <1>3, <2>1 DEF RoomFor
    <2>3. Min(free) \in free
      BY <2>2, MinIs
    <2>4. QED
      BY <1>3, <2>1, <2>3 DEF Place
  <1>4. QED
    BY <1>2, <1>3

(* A slot that has no time left is free. *)
LEMMA CurrentIs ==
  /\ Current = [s \in Slot |-> Current[s]]
  /\ \A s \in Slot : Current[s].left = 0 => Current[s] = NoEntry
  BY DEF Current, NoEntry

LEMMA KeptIs ==
  ASSUME datagrams' = Current
  PROVE  Current' = Current
  BY CurrentIs DEF Current

LEMMA PutIs ==
  ASSUME NEW d, NEW e, Put(d, e), Place(d) \in Slot, e.left = 0 => e = NoEntry
  PROVE  /\ Current' = [s \in Slot |-> Current'[s]]
         /\ Current'[Place(d)] = e
         /\ \A s \in Slot : s # Place(d) => Current'[s] = Current[s]
  <1>1. PICK p, table : p = Place(d) /\ table = Current
    OBVIOUS
  <1>2. datagrams' = [table EXCEPT ![p] = e]
    BY <1>1 DEF Put
  <1>3. table = [s \in Slot |-> table[s]]
        /\ \A s \in Slot : table[s].left = 0 => table[s] = NoEntry
    BY <1>1, CurrentIs
  <1>4. datagrams'[p] = e /\ \A s \in Slot : s # p => datagrams'[s] = table[s]
    BY <1>1, <1>2, <1>3
  <1>5. Current' = [s \in Slot |-> IF datagrams'[s].left = 0 THEN NoEntry ELSE datagrams'[s]]
    BY DEF Current, NoEntry
  <1>6. QED
    BY <1>1, <1>3, <1>4, <1>5

(* An entry of a datagram that has no other is put in its place. *)
LEMMA PutPreservesTable ==
  ASSUME TableInv, NEW d \in Datagrams, NEW e, Put(d, e), Place(d) \in Slot,
         Holding(d) = {} \/ Holding(d) = {Place(d)},
         Holding(d) = {} => Current[Place(d)].key = 0,
         e = NoEntry \/ (IsEntry(e) /\ e.key = d)
  PROVE  /\ TableInv'
         /\ Current'[Place(d)] = e
         /\ e = NoEntry => Holding(d)' = {}
         /\ e # NoEntry => Holding(d)' = {Place(d)}
         /\ \A c \in Datagrams : c # d =>
              Holding(c)' = Holding(c) /\ \A s \in Holding(c) : Current'[s] = Current[s]
  <1>0. d # 0 /\ NoEntry.key = 0 /\ 0 \notin Datagrams
    BY FragmentLimitsValid DEF NoEntry
  <1>1. e.left = 0 => e = NoEntry
    BY DEF IsEntry
  <1>2. PICK p : p = Place(d)
    OBVIOUS
  <1>3. /\ Current'[p] = e
        /\ \A s \in Slot : s # p => Current'[s] = Current[s]
    BY <1>1, <1>2, PutIs
  <1>4. \A s \in Slot : s # p => Current[s].key # d
    BY <1>2 DEF Holding
  <1>5. TableInv'
    <2>1. \A s \in Slot : Current'[s] = NoEntry \/ IsEntry(Current'[s])
      BY <1>2, <1>3 DEF TableInv
    <2>2. ASSUME NEW s \in Slot, NEW t \in Slot, Current'[s].key = Current'[t].key,
                 Current'[s].key # 0
          PROVE  s = t
      <3>1. e = NoEntry \/ e.key = d
        OBVIOUS
      <3>2. QED
        BY <1>0, <1>3, <1>4, <2>2, <3>1 DEF TableInv
    <2>3. QED
      BY <2>1, <2>2 DEF TableInv, IsEntry
  <1>6. ASSUME e = NoEntry PROVE Holding(d)' = {}
    BY <1>0, <1>2, <1>3, <1>4, <1>6 DEF Holding
  <1>7. ASSUME e # NoEntry PROVE Holding(d)' = {p}
    BY <1>0, <1>2, <1>3, <1>4, <1>7 DEF Holding
  <1>8. ASSUME NEW c \in Datagrams, c # d
        PROVE  Holding(c)' = Holding(c) /\ \A s \in Holding(c) : Current'[s] = Current[s]
    <2>1. Current[p].key # c /\ Current'[p].key # c
      BY <1>0, <1>2, <1>3, <1>8 DEF Holding
    <2>2. \A s \in Slot : Current'[s].key = c <=> Current[s].key = c
      BY <1>3, <2>1
    <2>3. QED
      BY <1>3, <2>1, <2>2 DEF Holding
  <1>9. QED
    BY <1>2, <1>3, <1>5, <1>6, <1>7, <1>8

(* What follows from the verdict of jg_fragment_tracker_add. *)
LEMMA AddedIs ==
  ASSUME TableInv, NEW d \in Datagrams, NEW f \in FragmentsOf[d],
         AddResult(d, f) \in {"stored", "complete"}
  PROVE  /\ Place(d) \in Slot
         /\ Holding(d) = {} \/ Holding(d) = {Place(d)}
         /\ Holding(d) = {} => Current[Place(d)].key = 0
         /\ Holding(d) # {} => Entry(d) = Current[Place(d)] /\ ~Entry(d).rejected
         /\ Holding(d) = {} => Entry(d).fragments = {}
         /\ Disjoint(Entry(d).fragments \cup {f})
         /\ \A g \in Entry(d).fragments \cup {f} : IsFragment(g)
         /\ Entry(d) = [field \in EntryFields |-> Entry(d)[field]]
         /\ Entry(d).key = d
         /\ AddResult(d, f) = "stored" => ~Covers(Entry(d).fragments \cup {f})
  <1>1. PICK e : e = Entry(d)
    OBVIOUS
  <1>2. /\ Holding(d) # {} => ~e.rejected
        /\ Holding(d) = {} => RoomFor(d)
        /\ InspectIntervals(e, f) = "stored"
        /\ AddResult(d, f) = "stored" => ~Covers(e.fragments \cup {f})
    BY <1>1 DEF AddResult, InspectIntervals
  <1>3. \A g \in e.fragments : ~(f.offset < End(g) /\ g.offset < End(f))
    BY <1>2 DEF InspectIntervals
  <1>4. /\ Place(d) \in Slot
        /\ Holding(d) = {} \/ Holding(d) = {Place(d)}
        /\ Holding(d) = {} => Current[Place(d)].key = 0
    BY <1>2, PlaceIs
  <1>5. /\ e = [field \in EntryFields |-> e[field]] /\ e.key = d /\ Disjoint(e.fragments)
        /\ \A g \in e.fragments : IsFragment(g)
        /\ Holding(d) = {} => e.fragments = {}
        /\ Holding(d) # {} => e = Current[Place(d)]
    <2>1. CASE Holding(d) # {}
      <3>1. e = Current[Place(d)]
        BY <1>1, <2>1 DEF Entry
      <3>2. QED
        BY <2>1, <3>1, PlaceIs DEF IsEntry
    <2>2. CASE Holding(d) = {}
      <3>1. e = [NoEntry EXCEPT !.key = d, !.left = FragmentTimeout]
        BY <1>1, <2>2 DEF Entry, NewEntry
      <3>2. e = [field \in EntryFields |-> e[field]] /\ e.key = d /\ e.fragments = {}
        BY <3>1 DEF NoEntry, EntryFields
      <3>3. QED
        BY <2>2, <3>2 DEF Disjoint
    <2>3. QED
      BY <2>1, <2>2
  <1>6. IsFragment(f)
    BY PiecesAreFragments
  <1>7. Disjoint(e.fragments \cup {f})
    BY <1>3, <1>5 DEF Disjoint
  <1>8. QED
    BY <1>1, <1>2, <1>4, <1>5, <1>6, <1>7

-----------------------------------------------------------------------------
(* Steps *)

(* The host gets a fragment: one of a new datagram after one that passed.  *)
LEMMA GatheredIs ==
  ASSUME NEW c, IsCollected(c), NEW f, NEW g, g = Gathered(c, f)
  PROVE  /\ IsCollected(g)
         /\ c.ended = "passed" => g.got = {f} /\ g.ended = "no" /\ ~g.again
         /\ c.ended # "passed" => /\ g.got = c.got \cup {f} /\ g.ended = c.ended
                                  /\ g.again <=> c.again \/ c.ended = "blocked"
  <1>1. PICK base : base = IF c.ended = "passed" THEN Nothing ELSE c
    OBVIOUS
  <1>2. base = [field \in CollectedFields |-> base[field]]
    BY <1>1 DEF IsCollected, Nothing, CollectedFields
  <1>3. base.again \in BOOLEAN
    BY <1>1 DEF IsCollected, Nothing
  <1>4. PICK again \in BOOLEAN : again = (base.again \/ base.ended = "blocked")
    OBVIOUS
  <1>5. PICK got : got = base.got \cup {f}
    OBVIOUS
  <1>6. g = [base EXCEPT !.got = got, !.again = again]
    BY <1>1, <1>2, <1>4, <1>5 DEF Gathered, CollectedFields
  <1>7. /\ g = [field \in CollectedFields |-> g[field]]
        /\ g.got = got /\ g.again = again /\ g.ended = base.ended
    BY <1>2, <1>6 DEF CollectedFields
  <1>8. IsCollected(g)
    <2>1. g.ended \in {"no", "passed", "blocked"}
      BY <1>1, <1>7 DEF IsCollected, Nothing
    <2>2. QED
      BY <1>4, <1>7, <2>1 DEF IsCollected
  <1>9. CASE c.ended = "passed"
    <2>1. base.got = {} /\ base.ended = "no" /\ base.again = FALSE
      BY <1>1, <1>9 DEF Nothing
    <2>2. again = FALSE
      BY <1>4, <2>1
    <2>3. QED
      BY <1>5, <1>7, <1>8, <1>9, <2>1, <2>2
  <1>10. CASE c.ended # "passed"
    BY <1>1, <1>4, <1>5, <1>7, <1>8, <1>10
  <1>11. QED
    BY <1>9, <1>10

(* A step that changes the entry of one datagram. *)
LEMMA PutPreserves ==
  ASSUME FragmentInv, NEW d \in Datagrams, NEW e, Put(d, e), Place(d) \in Slot,
         Holding(d) = {} \/ Holding(d) = {Place(d)},
         Holding(d) = {} => Current[Place(d)].key = 0,
         e = NoEntry \/ (IsEntry(e) /\ e.key = d),
         NEW c, IsCollected(c), collected' = [collected EXCEPT ![d] = c],
         e # NoEntry => /\ c.ended # "passed" /\ (c.again \/ c.ended = "no")
                        /\ e.rejected = FALSE => c.again \/ c.got = e.fragments,
         e = NoEntry => c.ended # "no",
         ~c.again => Readings(c.got) \cap BlockedPayloads = {}
  PROVE  FragmentInv'
  <1>1. PICK p : p = Place(d)
    OBVIOUS
  <1>2. /\ TableInv'
        /\ Current'[p] = e
        /\ e = NoEntry => Holding(d)' = {}
        /\ e # NoEntry => Holding(d)' = {p}
        /\ \A b \in Datagrams : b # d =>
             Holding(b)' = Holding(b) /\ \A s \in Holding(b) : Current'[s] = Current[s]
    BY <1>1, PutPreservesTable DEF FragmentInv
  <1>3. /\ collected' = [b \in Datagrams |-> collected'[b]]
        /\ collected'[d] = c /\ \A b \in Datagrams : b # d => collected'[b] = collected[b]
    BY DEF FragmentInv
  <1>4. HostInv'
    <2> SUFFICES ASSUME NEW b \in Datagrams
                 PROVE  /\ IsCollected(collected'[b])
                        /\ Holding(b)' # {} =>
                             /\ collected'[b].ended # "passed"
                             /\ collected'[b].again \/ collected'[b].ended = "no"
                        /\ \A s \in Holding(b)' :
                             Current'[s].rejected = FALSE =>
                               collected'[b].again \/ collected'[b].got = Current'[s].fragments
                        /\ Holding(b)' = {} /\ collected'[b].ended = "no" =>
                             collected'[b].got = {} /\ ~collected'[b].again
      BY DEF HostInv, IsCollected
    <2>1. CASE b = d
      BY <1>2, <1>3, <2>1
    <2>2. CASE b # d
      BY <1>2, <1>3, <2>2 DEF FragmentInv, HostInv
    <2>3. QED
      BY <2>1, <2>2
  <1>5. NothingBlockedIsAssembled'
    BY <1>3 DEF FragmentInv, NothingBlockedIsAssembled
  <1>6. QED
    BY <1>2, <1>3, <1>4, <1>5 DEF FragmentInv

(* Only expire_entries touches the table. *)
LEMMA KeepPreserves ==
  ASSUME FragmentInv, datagrams' = Current \/ datagrams' = datagrams, UNCHANGED collected
  PROVE  FragmentInv'
  <1>1. Current' = Current /\ collected' = collected
    <2>1. CASE datagrams' = Current
      BY <2>1, KeptIs
    <2>2. CASE datagrams' = datagrams
      BY <2>2 DEF Current
    <2>3. QED
      BY <2>1, <2>2
  <1>2. \A d : Holding(d)' = Holding(d)
    BY <1>1 DEF Holding
  <1>3. TableInv'
    BY <1>1 DEF FragmentInv, TableInv, IsEntry
  <1>4. HostInv'
    BY <1>1, <1>2 DEF FragmentInv, HostInv, IsCollected
  <1>5. NothingBlockedIsAssembled'
    BY <1>1 DEF FragmentInv, NothingBlockedIsAssembled, Readings, End
  <1>6. QED
    BY <1>1, <1>3, <1>4, <1>5 DEF FragmentInv

(* A datagram is refused from now on. *)
LEMMA DropPreserves ==
  ASSUME FragmentInv, NEW d \in Datagrams, NEW f, DropFragment(d, f)
  PROVE  FragmentInv'
  <1>1. CASE datagrams' = Current
    BY <1>1, KeepPreserves DEF DropFragment
  <1>2. CASE Holding(d) # {} /\ Put(d, RejectedEntry(d))
    <2>1. PICK e : e = RejectedEntry(d)
      OBVIOUS
    <2>2. /\ e = [field \in EntryFields |-> e[field]]
          /\ e.key = d /\ e.left = FragmentTimeout /\ e.fragments = {} /\ e.rejected = TRUE
      BY <2>1 DEF RejectedEntry, NewEntry, NoEntry, EntryFields
    <2>3. IsEntry(e) /\ e # NoEntry /\ e.rejected # FALSE
      <3>1. e.rejected # FALSE
        BY <2>2, Zenon
      <3>2. e # NoEntry
        BY <2>2, FragmentLimitsValid DEF NoEntry
      <3>3. FragmentTimeout \in Nat \ {0}
        BY FragmentLimitsValid
      <3>4. IsEntry(e)
        BY <2>2, <3>3 DEF IsEntry, Disjoint
      <3>5. QED
        BY <3>1, <3>2, <3>4
    <2>4. Place(d) \in Slot /\ Holding(d) = {Place(d)}
      BY <1>2, PlaceIs DEF FragmentInv
    <2>5. PICK c : c = collected[d]
      OBVIOUS
    <2>6. IsCollected(c) /\ c.ended # "passed" /\ (c.again \/ c.ended = "no")
      BY <1>2, <2>5 DEF FragmentInv, HostInv
    <2>7. ~c.again => Readings(c.got) \cap BlockedPayloads = {}
      BY <2>5 DEF FragmentInv, NothingBlockedIsAssembled
    <2>8. collected' = [collected EXCEPT ![d] = c]
      BY <2>5 DEF DropFragment, FragmentInv
    <2>9. QED
      BY <1>2, <2>1, <2>2, <2>3, <2>4, <2>6, <2>7, <2>8, PutPreserves
  <1>3. QED
    BY <1>1, <1>2 DEF DropFragment

LEMMA StorePreserves ==
  ASSUME FragmentInv, NEW d \in Datagrams, NEW f \in FragmentsOf[d], StoreFragment(d, f)
  PROVE  FragmentInv'
  <1>1. PICK base, F, e : /\ base = Entry(d) /\ F = base.fragments \cup {f}
                          /\ e = [base EXCEPT !.fragments = F, !.left = FragmentTimeout]
    OBVIOUS
  <1>2. /\ Place(d) \in Slot
        /\ Holding(d) = {} \/ Holding(d) = {Place(d)}
        /\ Holding(d) = {} => Current[Place(d)].key = 0
        /\ Holding(d) # {} => base = Current[Place(d)] /\ ~base.rejected
        /\ Holding(d) = {} => base.fragments = {}
        /\ Disjoint(F)
        /\ \A g \in F : IsFragment(g)
        /\ base = [field \in EntryFields |-> base[field]] /\ base.key = d
        /\ ~Covers(F)
    BY <1>1, AddedIs DEF StoreFragment, FragmentInv
  <1>3. /\ e = [field \in EntryFields |-> e[field]]
        /\ e.key = d /\ e.left = FragmentTimeout /\ e.fragments = F
    BY <1>1, <1>2 DEF EntryFields
  <1>4. IsEntry(e) /\ e # NoEntry
    BY <1>2, <1>3, FragmentLimitsValid DEF IsEntry, NoEntry
  <1>5. Put(d, e)
    BY <1>1, <1>2 DEF StoreFragment, EntryFields
  <1>6. PICK c, g : c = collected[d] /\ g = Gathered(c, f)
    OBVIOUS
  <1>7. collected' = [collected EXCEPT ![d] = g]
    BY <1>6 DEF StoreFragment, Reach
  <1>8. IsCollected(c)
    BY <1>6 DEF FragmentInv, HostInv
  <1>9. /\ IsCollected(g)
        /\ c.ended = "passed" => g.got = {f} /\ g.ended = "no" /\ ~g.again
        /\ c.ended # "passed" => /\ g.got = c.got \cup {f} /\ g.ended = c.ended
                                 /\ g.again <=> c.again \/ c.ended = "blocked"
    BY <1>6, <1>8, GatheredIs
  <1>10. g.ended # "passed" /\ (g.again \/ g.ended = "no") /\ (g.again \/ g.got = F)
    <2>1. CASE Holding(d) # {}
      <3>1. c.ended # "passed" /\ (c.again \/ c.ended = "no")
        BY <1>6, <2>1 DEF FragmentInv, HostInv
      <3>2. base = Current[Place(d)] /\ ~base.rejected /\ Holding(d) = {Place(d)}
        BY <1>2, <2>1
      <3>3. c.again \/ c.got = base.fragments
        BY <1>6, <3>2 DEF FragmentInv, HostInv
      <3>4. QED
        BY <1>1, <1>9, <3>1, <3>3
    <2>2. CASE Holding(d) = {}
      <3>1. F = {f}
        BY <1>1, <1>2, <2>2
      <3>2. c.ended = "no" => c.got = {} /\ ~c.again
        BY <1>6, <2>2 DEF FragmentInv, HostInv
      <3>3. c.ended \in {"no", "passed", "blocked"}
        BY <1>6 DEF FragmentInv, HostInv, IsCollected
      <3>4. QED
        BY <1>9, <3>1, <3>2, <3>3
    <2>3. QED
      BY <2>1, <2>2
  <1>11. Readings(F) = {}
    BY <1>2, NoReading
  <1>12. ~g.again => Readings(g.got) \cap BlockedPayloads = {}
    BY <1>10, <1>11
  <1>13. QED
    BY <1>2, <1>3, <1>4, <1>5, <1>7, <1>9, <1>10, <1>12, PutPreserves

(* A duplicate: the host has it. *)
LEMMA RepeatPreserves ==
  ASSUME FragmentInv, NEW d \in Datagrams, NEW f, RepeatFragment(d, f)
  PROVE  FragmentInv'
  <1>1. PICK e : e = Entry(d)
    OBVIOUS
  <1>2. (Holding(d) # {} => ~e.rejected) /\ f \in e.fragments
    BY <1>1 DEF RepeatFragment, AddResult, InspectIntervals
  <1>3. Holding(d) # {}
    BY <1>1, <1>2 DEF Entry, NewEntry, NoEntry
  <1>4. e = Current[Place(d)] /\ Holding(d) = {Place(d)}
    BY <1>1, <1>3, PlaceIs DEF Entry, FragmentInv
  <1>5. PICK c, g : c = collected[d] /\ g = Gathered(c, f)
    OBVIOUS
  <1>6. /\ IsCollected(c) /\ c.ended # "passed" /\ (c.again \/ c.ended = "no")
        /\ c.again \/ c.got = e.fragments
    BY <1>2, <1>3, <1>4, <1>5 DEF FragmentInv, HostInv
  <1>7. /\ IsCollected(g) /\ g.got = c.got \cup {f} /\ g.ended = c.ended
        /\ g.again <=> c.again \/ c.ended = "blocked"
    BY <1>5, <1>6, GatheredIs
  <1>8. g.again \/ (~c.again /\ g.got = c.got)
    BY <1>2, <1>6, <1>7
  <1>9. Current' = Current
    BY KeptIs DEF RepeatFragment
  <1>10. \A b : Holding(b)' = Holding(b)
    BY <1>9 DEF Holding
  <1>11. TableInv'
    BY <1>9 DEF FragmentInv, TableInv, IsEntry
  <1>12. /\ collected' = [b \in Datagrams |-> collected'[b]]
         /\ collected'[d] = g /\ \A b \in Datagrams : b # d => collected'[b] = collected[b]
    BY <1>5 DEF RepeatFragment, Reach, FragmentInv
  <1>13. HostInv'
    <2> SUFFICES ASSUME NEW b \in Datagrams
                 PROVE  /\ IsCollected(collected'[b])
                        /\ Holding(b) # {} =>
                             /\ collected'[b].ended # "passed"
                             /\ collected'[b].again \/ collected'[b].ended = "no"
                        /\ \A s \in Holding(b) :
                             Current[s].rejected = FALSE =>
                               collected'[b].again \/ collected'[b].got = Current[s].fragments
                        /\ Holding(b) = {} /\ collected'[b].ended = "no" =>
                             collected'[b].got = {} /\ ~collected'[b].again
      BY <1>9, <1>10 DEF HostInv, IsCollected
    <2>1. CASE b = d
      BY <1>3, <1>4, <1>6, <1>7, <1>8, <1>12, <2>1
    <2>2. CASE b # d
      BY <1>12, <2>2 DEF FragmentInv, HostInv
    <2>3. QED
      BY <2>1, <2>2
  <1>14. NothingBlockedIsAssembled'
    BY <1>5, <1>8, <1>12 DEF FragmentInv, NothingBlockedIsAssembled
  <1>15. QED
    BY <1>11, <1>12, <1>13, <1>14 DEF FragmentInv

(* What is completed is evaluated: the host can make nothing else of it.   *)
LEMMA CompletePreserves ==
  ASSUME FragmentInv, NEW d \in Datagrams, NEW f \in FragmentsOf[d], CompleteFragment(d, f)
  PROVE  FragmentInv'
  <1>1. PICK base, F : base = Entry(d) /\ F = base.fragments \cup {f}
    OBVIOUS
  <1>2. /\ Place(d) \in Slot
        /\ Holding(d) = {} \/ Holding(d) = {Place(d)}
        /\ Holding(d) = {} => Current[Place(d)].key = 0
        /\ Holding(d) # {} => base = Current[Place(d)] /\ ~base.rejected
        /\ Holding(d) = {} => base.fragments = {}
        /\ Disjoint(F)
        /\ \A g \in F : IsFragment(g)
    BY <1>1, AddedIs DEF CompleteFragment, FragmentInv
  <1>3. Put(d, NoEntry)
    BY DEF CompleteFragment
  <1>4. PICK c, g, next :
          /\ c = collected[d] /\ g = Gathered(c, f)
          /\ next = IF Assembled(F) \in BlockedPayloads
                    THEN [c EXCEPT !.ended = "blocked", !.left = FragmentTimeout]
                    ELSE [g EXCEPT !.ended = "passed", !.left = FragmentTimeout]
    OBVIOUS
  <1>5. collected' = [collected EXCEPT ![d] = next]
    <2>1. CASE Assembled(F) \in BlockedPayloads
      BY <1>1, <1>4, <2>1 DEF CompleteFragment
    <2>2. CASE Assembled(F) \notin BlockedPayloads
      BY <1>1, <1>4, <2>2 DEF CompleteFragment
    <2>3. QED
      BY <2>1, <2>2
  <1>6. IsCollected(c) /\ (~c.again => Readings(c.got) \cap BlockedPayloads = {})
    BY <1>4 DEF FragmentInv, HostInv, NothingBlockedIsAssembled
  <1>7. /\ IsCollected(g)
        /\ c.ended = "passed" => g.got = {f} /\ g.ended = "no" /\ ~g.again
        /\ c.ended # "passed" => /\ g.got = c.got \cup {f} /\ g.ended = c.ended
                                 /\ g.again <=> c.again \/ c.ended = "blocked"
    BY <1>4, <1>6, GatheredIs
  <1>8. /\ IsCollected(next) /\ next.ended # "no"
        /\ ~next.again => Readings(next.got) \cap BlockedPayloads = {}
    <2>1. CASE Assembled(F) \in BlockedPayloads
      <3>1. next = [c EXCEPT !.ended = "blocked", !.left = FragmentTimeout]
        BY <1>4, <2>1
      <3>2. /\ next = [field \in CollectedFields |-> next[field]]
            /\ next.ended = "blocked" /\ next.again = c.again /\ next.got = c.got
        BY <1>6, <3>1 DEF IsCollected, CollectedFields
      <3>3. QED
        BY <1>6, <3>2 DEF IsCollected
    <2>2. CASE Assembled(F) \notin BlockedPayloads
      <3>1. next = [g EXCEPT !.ended = "passed", !.left = FragmentTimeout]
        BY <1>4, <2>2
      <3>2. /\ next = [field \in CollectedFields |-> next[field]]
            /\ next.ended = "passed" /\ next.again = g.again /\ next.got = g.got
        BY <1>7, <3>1 DEF IsCollected, CollectedFields
      <3>3. g.again \/ g.got = F
        <4>1. CASE Holding(d) # {}
          <5>1. c.ended # "passed"
            BY <1>4, <4>1 DEF FragmentInv, HostInv
          <5>2. base = Current[Place(d)] /\ ~base.rejected /\ Holding(d) = {Place(d)}
            BY <1>2, <4>1
          <5>3. c.again \/ c.got = base.fragments
            BY <1>4, <5>2 DEF FragmentInv, HostInv
          <5>4. QED
            BY <1>1, <1>7, <5>1, <5>3
        <4>2. CASE Holding(d) = {}
          <5>1. F = {f}
            BY <1>1, <1>2, <4>2
          <5>2. c.ended = "no" => c.got = {}
            BY <1>4, <4>2 DEF FragmentInv, HostInv
          <5>3. c.ended \in {"no", "passed", "blocked"}
            BY <1>6 DEF IsCollected
          <5>4. QED
            BY <1>7, <5>1, <5>2, <5>3
        <4>3. QED
          BY <4>1, <4>2
      <3>4. Readings(F) \cap BlockedPayloads = {}
        BY <1>2, <2>2, OneReading
      <3>5. QED
        BY <1>7, <3>2, <3>3, <3>4 DEF IsCollected
    <2>3. QED
      BY <2>1, <2>2
  <1>9. QED
    BY <1>2, <1>3, <1>5, <1>8, PutPreserves

(* Time passes: an entry and what the host has of its datagram go together. *)
LEMMA TickPreserves == FragmentInv /\ FragmentTick => FragmentInv'
  <1> SUFFICES ASSUME FragmentInv, FragmentTick PROVE FragmentInv'
    OBVIOUS
  <1>1. PICK table : table = Current
    OBVIOUS
  <1>2. \A s \in Slot : table[s] = NoEntry \/ IsEntry(table[s])
    BY <1>1 DEF FragmentInv, TableInv
  <1>3. datagrams' = [s \in Slot |-> [table[s] EXCEPT !.left = IF @ = 0 THEN 0 ELSE @ - 1]]
    BY <1>1 DEF FragmentTick
  <1>4. Current' = [s \in Slot |-> IF datagrams'[s].left = 0 THEN NoEntry ELSE datagrams'[s]]
    BY DEF Current, NoEntry
  <1>5. ASSUME NEW s \in Slot
        PROVE  /\ table[s] = NoEntry => Current'[s] = NoEntry
               /\ table[s] # NoEntry /\ table[s].left = 1 => Current'[s] = NoEntry
               /\ table[s] # NoEntry /\ table[s].left # 1 =>
                    /\ IsEntry(Current'[s]) /\ Current'[s].key = table[s].key
                    /\ Current'[s].rejected = table[s].rejected
                    /\ Current'[s].fragments = table[s].fragments
    <2>1. PICK e, after :
            e = table[s] /\ after = [e EXCEPT !.left = IF e.left = 0 THEN 0 ELSE e.left - 1]
      OBVIOUS
    <2>2. Current'[s] = IF after.left = 0 THEN NoEntry ELSE after
      BY <1>3, <1>4, <2>1
    <2>3. CASE e = NoEntry
      BY <2>1, <2>2, <2>3 DEF NoEntry
    <2>4. CASE e # NoEntry
      <3>1. IsEntry(e)
        BY <1>2, <2>1, <2>4
      <3>2. /\ e = [field \in EntryFields |-> e[field]] /\ e.left \in Nat \ {0}
        BY <3>1 DEF IsEntry
      <3>3. PICK left : left = e.left - 1
        OBVIOUS
      <3>4. after = [e EXCEPT !.left = left]
        BY <2>1, <3>2, <3>3
      <3>5. /\ after = [field \in EntryFields |-> after[field]]
            /\ after.left = left /\ after.key = e.key /\ after.rejected = e.rejected
            /\ after.fragments = e.fragments
        BY <3>2, <3>4 DEF EntryFields
      <3>6. CASE e.left = 1
        BY <2>1, <2>2, <2>4, <3>3, <3>5, <3>6
      <3>7. CASE e.left # 1
        <4>1. left \in Nat \ {0}
          BY <3>2, <3>3, <3>7
        <4>2. Current'[s] = after
          BY <2>2, <3>5, <4>1
        <4>3. IsEntry(after)
          BY <3>1, <3>5, <4>1 DEF IsEntry
        <4>4. QED
          BY <2>1, <2>4, <3>5, <3>7, <4>2, <4>3
      <3>8. QED
        BY <3>6, <3>7
    <2>5. QED
      BY <2>3, <2>4
  <1>6. NoEntry.key = 0 /\ 0 \notin Datagrams
    BY FragmentLimitsValid DEF NoEntry
  <1>7. TableInv'
    <2>1. \A s \in Slot : Current'[s] = NoEntry \/ IsEntry(Current'[s])
      BY <1>2, <1>5
    <2>2. \A s \in Slot : Current'[s].key # 0 => Current'[s].key = table[s].key
      BY <1>2, <1>5, <1>6
    <2>3. \A s, t \in Slot : Current'[s].key = Current'[t].key /\ Current'[s].key # 0 => s = t
      BY <1>1, <2>2 DEF FragmentInv, TableInv
    <2>4. QED
      BY <2>1, <2>3 DEF TableInv, IsEntry
  <1>8. ASSUME NEW d \in Datagrams
        PROVE  /\ Holding(d)' \subseteq Holding(d)
               /\ Holding(d) # {} =>
                    IF Entry(d).left <= 1 THEN Holding(d)' = {}
                    ELSE /\ Holding(d)' = Holding(d)
                         /\ \A s \in Holding(d) :
                              /\ Current'[s].rejected = Current[s].rejected
                              /\ Current'[s].fragments = Current[s].fragments
    <2>1. \A s \in Slot : Current'[s].key = d => table[s].key = d
      BY <1>2, <1>5, <1>6
    <2>2. Holding(d)' \subseteq Holding(d)
      BY <1>1, <2>1 DEF Holding
    <2>3. ASSUME Holding(d) # {}
          PROVE  IF Entry(d).left <= 1 THEN Holding(d)' = {}
                 ELSE /\ Holding(d)' = Holding(d)
                      /\ \A s \in Holding(d) :
                           /\ Current'[s].rejected = Current[s].rejected
                           /\ Current'[s].fragments = Current[s].fragments
      <3>1. PICK p : p = Place(d)
        OBVIOUS
      <3>2. p \in Slot /\ Holding(d) = {p} /\ Entry(d) = table[p] /\ table[p].key = d
            /\ IsEntry(table[p])
        BY <1>1, <2>3, <3>1, PlaceIs DEF FragmentInv, Entry
      <3>3. table[p].left \in Nat \ {0} /\ table[p] # NoEntry
        BY <1>6, <3>2 DEF IsEntry
      <3>4. CASE table[p].left <= 1
        <4>1. Current'[p] = NoEntry
          BY <1>5, <3>2, <3>3, <3>4
        <4>2. p \notin Holding(d)'
          BY <1>6, <4>1 DEF Holding
        <4>3. QED
          BY <2>2, <3>2, <3>4, <4>2
      <3>5. CASE ~(table[p].left <= 1)
        <4>1. /\ Current'[p].key = d /\ Current'[p].rejected = table[p].rejected
              /\ Current'[p].fragments = table[p].fragments
          BY <1>5, <3>2, <3>3, <3>5
        <4>2. p \in Holding(d)'
          BY <3>2, <4>1 DEF Holding
        <4>3. QED
          BY <1>1, <2>2, <3>2, <3>5, <4>1, <4>2
      <3>6. QED
        BY <3>4, <3>5
    <2>4. QED
      BY <2>2, <2>3
  <1>9. ASSUME NEW d \in Datagrams
        PROVE  /\ collected'[d] = Nothing \/
                  /\ IsCollected(collected'[d])
                  /\ collected'[d].got = collected[d].got
                  /\ collected'[d].ended = collected[d].ended
                  /\ collected'[d].again = collected[d].again
               /\ Holding(d) # {} /\ Entry(d).left <= 1 => collected'[d] = Nothing
               /\ Holding(d) # {} /\ ~(Entry(d).left <= 1) => collected'[d] = collected[d]
    <2>1. PICK c, left :
            c = collected[d] /\ left = IF Holding(d) # {} THEN Entry(d).left ELSE c.left
      OBVIOUS
    <2>2. collected'[d] = IF left <= 1 THEN Nothing
                          ELSE IF Holding(d) # {} THEN c ELSE [c EXCEPT !.left = c.left - 1]
      BY <2>1 DEF FragmentTick
    <2>3. IsCollected(c)
      BY <2>1 DEF FragmentInv, HostInv
    <2>4. PICK later, less : less = c.left - 1 /\ later = [c EXCEPT !.left = less]
      OBVIOUS
    <2>5. /\ later = [field \in CollectedFields |-> later[field]]
          /\ later.got = c.got /\ later.ended = c.ended /\ later.again = c.again
      BY <2>3, <2>4 DEF IsCollected, CollectedFields
    <2>6. IsCollected(later)
      BY <2>3, <2>5 DEF IsCollected
    <2>7. QED
      BY <2>1, <2>2, <2>3, <2>4, <2>5, <2>6
  <1>10. IsCollected(Nothing) /\ Nothing.got = {} /\ Nothing.ended = "no" /\ ~Nothing.again
    BY DEF IsCollected, Nothing, CollectedFields
  <1>11. HostInv'
    <2> SUFFICES ASSUME NEW d \in Datagrams
                 PROVE  /\ IsCollected(collected'[d])
                        /\ Holding(d)' # {} =>
                             /\ collected'[d].ended # "passed"
                             /\ collected'[d].again \/ collected'[d].ended = "no"
                        /\ \A s \in Holding(d)' :
                             Current'[s].rejected = FALSE =>
                               collected'[d].again \/ collected'[d].got = Current'[s].fragments
                        /\ Holding(d)' = {} /\ collected'[d].ended = "no" =>
                             collected'[d].got = {} /\ ~collected'[d].again
      BY DEF HostInv, IsCollected
    <2>1. IsCollected(collected'[d])
      BY <1>9, <1>10 DEF FragmentInv, HostInv
    <2>2. CASE Holding(d) = {}
      <3>1. Holding(d)' = {}
        BY <1>8, <2>2
      <3>2. collected[d].ended = "no" => collected[d].got = {} /\ ~collected[d].again
        BY <2>2 DEF FragmentInv, HostInv
      <3>3. QED
        BY <1>9, <1>10, <2>1, <3>1, <3>2
    <2>3. CASE Holding(d) # {} /\ Entry(d).left <= 1
      BY <1>8, <1>9, <1>10, <2>1, <2>3
    <2>4. CASE Holding(d) # {} /\ ~(Entry(d).left <= 1)
      BY <1>8, <1>9, <2>1, <2>4 DEF FragmentInv, HostInv
    <2>5. QED
      BY <2>2, <2>3, <2>4
  <1>12. NothingBlockedIsAssembled'
    <2>1. Readings({}) = {}
      BY DEF Readings
    <2>2. QED
      BY <1>9, <1>10, <2>1 DEF FragmentInv, NothingBlockedIsAssembled
  <1>13. collected' = [d \in Datagrams |-> collected'[d]]
    BY DEF FragmentTick
  <1>14. QED
    BY <1>7, <1>11, <1>12, <1>13 DEF FragmentInv

LEMMA FragmentInitInv == FragmentInit => FragmentInv
  <1> SUFFICES ASSUME FragmentInit PROVE FragmentInv
    OBVIOUS
  <1>1. Current = [s \in Slot |-> NoEntry]
    BY DEF FragmentInit, Current
  <1>2. TableInv
    BY <1>1 DEF TableInv, NoEntry
  <1>3. \A d \in Datagrams : Holding(d) = {}
    BY <1>1, FragmentLimitsValid DEF Holding, NoEntry
  <1>4. IsCollected(Nothing) /\ Nothing.got = {} /\ ~Nothing.again
    BY DEF IsCollected, Nothing, CollectedFields
  <1>5. \A d \in Datagrams : collected[d] = Nothing
    BY DEF FragmentInit
  <1>6. HostInv
    BY <1>3, <1>4, <1>5 DEF HostInv
  <1>7. Readings({}) = {}
    BY DEF Readings
  <1>8. NothingBlockedIsAssembled
    BY <1>4, <1>5, <1>7 DEF NothingBlockedIsAssembled
  <1>9. QED
    BY <1>2, <1>6, <1>8 DEF FragmentInv, FragmentInit

LEMMA FragmentNextInv == FragmentInv /\ FragmentNext => FragmentInv'
  <1> SUFFICES ASSUME FragmentInv, FragmentNext PROVE FragmentInv'
    OBVIOUS
  <1>1. CASE FragmentTick
    BY <1>1, TickPreserves
  <1>2. ASSUME NEW d \in Datagrams, NEW f \in FragmentsOf[d],
               DropFragment(d, f) \/ StoreFragment(d, f) \/ RepeatFragment(d, f)
                 \/ CompleteFragment(d, f)
        PROVE  FragmentInv'
    BY <1>2, DropPreserves, StorePreserves, RepeatPreserves, CompletePreserves
  <1>3. QED
    BY <1>1, <1>2 DEF FragmentNext

(* Whatever a host can assemble of the fragments that a worker let through *)
(* is no blocked payload, for every way to cut, mix, repeat and delay the  *)
(* fragments and every limit of the table (jg_fragment_tracker_add,        *)
(* process_fragment).                                                      *)
THEOREM WorkerAssemblesNothingBlocked == WorkerSpec => []NothingBlockedIsAssembled
  <1>1. WorkerInit => FragmentInv
    BY FragmentInitInv DEF WorkerInit
  <1>2. FragmentInv /\ [Process]_workerVars => FragmentInv'
    <2> SUFFICES ASSUME FragmentInv, [Process]_workerVars PROVE FragmentInv'
      OBVIOUS
    <2>1. CASE FragmentNext
      BY <2>1, FragmentNextInv
    <2>2. CASE UNCHANGED fragmentVars
      BY <2>2, KeepPreserves DEF fragmentVars
    <2>3. QED
      BY <2>1, <2>2 DEF Process, workerVars
  <1>3. FragmentInv => NothingBlockedIsAssembled
    BY DEF FragmentInv
  <1>4. QED
    BY <1>1, <1>2, <1>3, PTL DEF WorkerSpec

-----------------------------------------------------------------------------
(* The stream trackers *)

FlowFields ==
  {"key", "base", "buffer", "rejected", "idle", "age", "tracked", "seen", "arrived", "orderly"}

IsFlow(e) ==
  /\ e = [field \in FlowFields |-> e[field]]
  /\ e.tracked \in BOOLEAN /\ e.rejected \in BOOLEAN
  /\ e.tracked => e.key \in Keys

(* The bytes that have reached the server, by their position. *)
HasArrived(e, stream) ==
  /\ e.seen \in Seq(Bytes)
  /\ DOMAIN e.arrived \subseteq 0 .. Len(stream) - 1
  /\ e.arrived = [p \in DOMAIN e.arrived |-> e.arrived[p]]
  /\ \A p \in DOMAIN e.arrived : e.arrived[p] \in Bytes

(* A flow that is inspected, of a connection with these numbers: what was  *)
(* emitted and what is in the window is what has reached the server.       *)
Inspected(e, isn, stream) ==
  LET n == Len(e.seen)
  IN /\ e.base = (isn + 1 + n) % Modulus
     /\ \A i \in 1 .. n : i - 1 \in DOMAIN e.arrived /\ e.seen[i] = e.arrived[i - 1]
     /\ \A p \in DOMAIN e.arrived : p < n + Window
     /\ e.buffer = [i \in 0 .. Window - 1 |->
                      IF n + i \in DOMAIN e.arrived THEN e.arrived[n + i] ELSE None]

ConnectionInv ==
  /\ protocol \in Protocols
  /\ conn = [k \in Keys |-> conn[k]]
  /\ \A k \in Keys :
       /\ conn[k] = [isn |-> conn[k].isn, stream |-> conn[k].stream, begun |-> conn[k].begun]
       /\ conn[k].isn \in Isns /\ conn[k].stream \in Streams[k]

(* A flow of the connections c. *)
FlowInv(e, c) ==
  /\ IsFlow(e)
  /\ e.tracked =>
       /\ HasArrived(e, c[e.key].stream)
       /\ ~e.rejected => Inspected(e, c[e.key].isn, c[e.key].stream)

(* The ClientHello parser of a slot was fed what was emitted. *)
ParserInv(e, parser, proto) ==
  e.tracked /\ ~e.rejected /\ proto = "tls" /\ parser.terminal = "more" =>
    parser.got = e.seen

(* No whole message begins here. *)
Stops(bytes, c) ==
  \/ Len(bytes) - c < 2 \/ BadSize(SizeAt(bytes, c))
  \/ Len(bytes) - c < 2 + SizeAt(bytes, c)

After(bytes, c) == c + 2 + SizeAt(bytes, c)

(* No message that is refused, up to where the protocol is inspected. *)
Clean(bytes, proto) ==
  \A i \in DOMAIN Bodies(bytes) : Refused(Bodies(bytes)[i]) => proto = "tls" /\ i > 1

(* Whole messages end where no whole message begins in what follows. *)
WholeMessages(bytes) == Last(Starts(bytes)) = Len(bytes)

(* What was emitted is clean, and what waits in the window completes nothing. *)
CleanInv(e, parser, proto) ==
  e.tracked =>
    /\ e.rejected => Clean(Readable(e), proto)
    /\ ~e.rejected /\ proto = "dns" =>
         Clean(e.seen, proto) /\ WholeMessages(e.seen) /\ Stops(Contiguous(e), 0)
    /\ ~e.rejected /\ proto = "tls" =>
         /\ e.buffer[0] = None
         /\ parser.terminal = "more" => Bodies(e.seen) = <<>>
         /\ parser.terminal # "more" =>
              Len(Bodies(e.seen)) >= 1 /\ ~Refused(Bodies(e.seen)[1])

SlotInv(e, parser, c, proto) ==
  FlowInv(e, c) /\ ParserInv(e, parser, proto) /\ CleanInv(e, parser, proto)

StreamInv ==
  /\ ConnectionInv
  /\ entries = [s \in Slots |-> entries[s]]
  /\ parsers = [s \in Slots |-> parsers[s]]
  /\ \A s \in Slots : SlotInv(entries[s], parsers[s], conn, protocol)

-----------------------------------------------------------------------------
(* Sequence numbers *)

LEMMA DivMod ==
  ASSUME NEW M \in Nat \ {0}, NEW x \in Int
  PROVE  x % M \in 0 .. M - 1 /\ x \div M \in Int /\ x = M * (x \div M) + (x % M)
  OBVIOUS

LEMMA Distribute ==
  ASSUME NEW a \in Int, NEW b \in Int, NEW c \in Int
  PROVE  a * (b + c) = a * b + a * c /\ a * (b - c) = a * b - a * c /\ a * b \in Int
  OBVIOUS

LEMMA Multiple ==
  ASSUME NEW M \in Nat \ {0}, NEW z \in Int
  PROVE  (z >= 1 => M * z >= M) /\ (z <= -1 => M * z <= -M)
  OBVIOUS

(* A remainder is known by its range. *)
LEMMA ModUnique ==
  ASSUME NEW M \in Nat \ {0}, NEW x \in Int, NEW q \in Int, NEW r \in 0 .. M - 1,
         x = M * q + r
  PROVE  x % M = r
  <1>1. PICK p, t : p = x \div M /\ t = x % M
    OBVIOUS
  <1>2. p \in Int /\ t \in 0 .. M - 1 /\ x = M * p + t
    BY <1>1, DivMod
  <1>3. PICK mp, mq : mp = M * p /\ mq = M * q
    OBVIOUS
  <1>4. mp \in Int /\ mq \in Int /\ M \in Int
    BY <1>2, <1>3, Distribute
  <1>5. PICK z \in Int : z = p - q
    BY <1>2
  <1>6. M * z = mp - mq
    BY <1>2, <1>3, <1>4, <1>5, Distribute
  <1>7. mp - mq = r - t
    BY <1>2, <1>3, <1>4
  <1>8. r - t < M /\ r - t > -M
    BY <1>2
  <1>9. (z >= 1 => M * z >= M) /\ (z <= -1 => M * z <= -M)
    BY Multiple
  <1>10. z = 0
    BY <1>6, <1>7, <1>8, <1>9
  <1>11. p = q
    BY <1>2, <1>5, <1>10
  <1>12. t = r
    BY <1>2, <1>3, <1>4, <1>7, <1>11
  <1>13. QED
    BY <1>1, <1>12

LEMMA ModAdd ==
  ASSUME NEW M \in Nat \ {0}, NEW a \in Int, NEW b \in Int
  PROVE  ((a % M) + b) % M = (a + b) % M
  <1>1. PICK p, t : p = a \div M /\ t = a % M
    OBVIOUS
  <1>2. p \in Int /\ t \in 0 .. M - 1 /\ a = M * p + t
    BY <1>1, DivMod
  <1>3. t + b \in Int
    BY <1>2
  <1>4. PICK q, r : q = (t + b) \div M /\ r = (t + b) % M
    OBVIOUS
  <1>5. q \in Int /\ r \in 0 .. M - 1 /\ t + b = M * q + r
    BY <1>3, <1>4, DivMod
  <1>6. M \in Int /\ M * p \in Int /\ M * q \in Int /\ M * (p + q) = M * p + M * q
    BY <1>2, <1>5, Distribute
  <1>7. a + b = M * (p + q) + r
    BY <1>2, <1>5, <1>6
  <1>8. p + q \in Int /\ a + b \in Int
    BY <1>2, <1>5
  <1>9. (a + b) % M = r
    BY <1>5, <1>7, <1>8, ModUnique
  <1>10. QED
    BY <1>1, <1>4, <1>9

(* The constants of the trackers. *)
LEMMA LimitsAre ==
  /\ Window \in Nat \ {0} /\ Modulus \in Nat \ {0} /\ Radix \in Nat \ {0}
  /\ MaxFlows \in Nat \ {0} /\ MinMessage \in Nat /\ MaxMessage \in Nat /\ MaxSynData \in Nat
  /\ SegmentSizes \subseteq Nat /\ Altered \in Bytes
  BY LimitsValid

(* The distance of two positions of a stream, from their sequence numbers. *)
LEMMA OffsetIs ==
  ASSUME NEW isn \in Nat, NEW pos \in Nat, NEW n \in Nat,
         pos < Modulus \div 2, n < Modulus \div 2,
         NEW e, e.base = (isn + 1 + n) % Modulus,
         NEW number, number = (isn + 1 + pos) % Modulus
  PROVE  OffsetIn(e, number) = pos - n
  <1>1. PICK M, H, base : M = Modulus /\ H = Modulus \div 2 /\ base = e.base
    OBVIOUS
  <1>2. M \in Nat \ {0} /\ H \in Nat /\ M = 2 * H
    BY <1>1, LimitsAre, LimitsValid
  <1>3. PICK a, b : a = isn + 1 + pos /\ b = isn + 1 + n
    OBVIOUS
  <1>4. a \in Int /\ b \in Int /\ a - b = pos - n
    BY <1>3
  <1>5. PICK p, q : p = a \div M /\ q = b \div M
    OBVIOUS
  <1>6. /\ p \in Int /\ number \in 0 .. M - 1 /\ a = M * p + number
        /\ q \in Int /\ base \in 0 .. M - 1 /\ b = M * q + base
    <2>1. number = a % M /\ base = b % M
      BY <1>1, <1>3
    <2>2. p \in Int /\ number \in 0 .. M - 1 /\ a = M * p + number
      BY <1>2, <1>4, <1>5, <2>1, DivMod
    <2>3. q \in Int /\ base \in 0 .. M - 1 /\ b = M * q + base
      BY <1>2, <1>4, <1>5, <2>1, DivMod
    <2>4. QED
      BY <2>2, <2>3
  <1>7. PICK z \in Int : z = q - p
    BY <1>6
  <1>8. M \in Int /\ M * p \in Int /\ M * q \in Int /\ M * z = M * q - M * p
    BY <1>2, <1>6, <1>7, Distribute
  <1>9. number - base \in Int /\ number - base = M * z + (pos - n)
    <2>1. PICK mp, mq, mz : mp = M * p /\ mq = M * q /\ mz = M * z
      OBVIOUS
    <2>2. mp \in Int /\ mq \in Int /\ mz = mq - mp /\ a = mp + number /\ b = mq + base
      BY <1>6, <1>8, <2>1
    <2>3. number - base \in Int /\ number - base = mz + (pos - n)
      BY <1>4, <1>6, <2>2
    <2>4. QED
      BY <2>1, <2>3
  <1>10. PICK distance : distance = (number - base) % M
    OBVIOUS
  <1>11. OffsetIn(e, number) = IF distance < H THEN distance ELSE distance - M
    BY <1>1, <1>10 DEF OffsetIn
  <1>12. CASE pos >= n
    <2>1. pos - n \in 0 .. M - 1 /\ pos - n < H
      BY <1>1, <1>2, <1>12
    <2>2. distance = pos - n
      BY <1>2, <1>9, <1>10, <2>1, ModUnique
    <2>3. QED
      BY <1>11, <2>1, <2>2
  <1>13. CASE pos < n
    <2>1. PICK r : r = pos - n + M
      OBVIOUS
    <2>2. r \in 0 .. M - 1 /\ ~(r < H) /\ r - M = pos - n
      BY <1>1, <1>2, <1>13, <2>1
    <2>3. PICK y : y = z - 1
      OBVIOUS
    <2>4. y \in Int /\ M * y = M * z - M * 1 /\ M * z \in Int
      BY <1>2, <1>7, <2>3, Distribute
    <2>5. number - base = M * y + r
      <3>1. PICK mz, my : mz = M * z /\ my = M * y
        OBVIOUS
      <3>2. my = mz - M /\ mz \in Int /\ number - base = mz + (pos - n)
        BY <1>2, <1>9, <2>4, <3>1
      <3>3. number - base = my + r
        BY <1>2, <2>1, <3>2
      <3>4. QED
        BY <3>1, <3>3
    <2>6. distance = r
      <3>1. PICK x : x = number - base
        OBVIOUS
      <3>2. x \in Int /\ x = M * y + r /\ distance = x % M
        BY <1>9, <1>10, <2>5, <3>1
      <3>3. QED
        BY <1>2, <2>2, <2>4, <3>2, ModUnique
    <2>7. QED
      BY <1>11, <2>2, <2>6
  <1>14. QED
    BY <1>12, <1>13

(* The base moves with the bytes that are consumed. *)
LEMMA BaseAdvances ==
  ASSUME NEW isn \in Nat, NEW n \in Nat, NEW size \in Nat
  PROVE  (((isn + 1 + n) % Modulus) + size) % Modulus = (isn + 1 + (n + size)) % Modulus
  <1>1. isn + 1 + n \in Int /\ size \in Int /\ Modulus \in Nat \ {0}
    BY LimitsAre
  <1>2. (((isn + 1 + n) % Modulus) + size) % Modulus = ((isn + 1 + n) + size) % Modulus
    BY <1>1, ModAdd
  <1>3. (isn + 1 + n) + size = isn + 1 + (n + size)
    OBVIOUS
  <1>4. QED
    BY <1>2, <1>3

-----------------------------------------------------------------------------
(* Segments *)

(* A segment is a part of the stream, or a byte in the place of one. *)
LEMMA SegmentIs ==
  ASSUME NEW k \in Keys, NEW stream \in Streams[k], NEW g \in Segments[stream]
  PROVE  /\ stream \in Seq(Bytes) /\ Len(stream) \in Nat /\ Len(stream) < Modulus \div 2
         /\ g.pos \in Nat /\ g.data \in Seq(Bytes) /\ Len(g.data) \in Nat
         /\ g.pos + Len(g.data) <= Len(stream)
         /\ g.syn \in BOOLEAN /\ g.fin \in BOOLEAN
         /\ g.syn => g.pos = 0
  <1>1. stream \in Seq(Bytes) /\ Len(stream) \in Nat /\ MaxSynData <= Len(stream)
        /\ Len(stream) < Modulus \div 2
    BY LimitsValid
  <1> DEFINE cuts == Cuts(stream) \cup {[pos |-> Len(stream), data |-> <<>>]}
             altered == {[c EXCEPT !.data = <<Altered>>] :
                           c \in {d \in cuts : Len(d.data) = 1 /\ d.pos \in AlteredAt}}
  <1>2. ASSUME NEW c \in cuts
        PROVE  /\ c = [pos |-> c.pos, data |-> c.data]
               /\ c.pos \in Nat /\ c.data \in Seq(Bytes) /\ c.pos + Len(c.data) <= Len(stream)
    <2>1. CASE c = [pos |-> Len(stream), data |-> <<>>]
      BY <1>1, <2>1
    <2>2. CASE c \in Cuts(stream)
      <3>1. PICK x \in (0 .. Len(stream)) \X SegmentSizes :
              /\ x[1] + x[2] <= Len(stream)
              /\ c = [pos |-> x[1], data |-> SubSeq(stream, x[1] + 1, x[1] + x[2])]
        BY <2>2 DEF Cuts
      <3>2. PICK a, b : a = x[1] /\ b = x[2]
        OBVIOUS
      <3>3. a \in Nat /\ b \in Nat /\ a + b <= Len(stream)
        <4>1. a \in 0 .. Len(stream) /\ b \in SegmentSizes /\ a + b <= Len(stream)
          BY <3>1, <3>2
        <4>2. SegmentSizes \subseteq Nat
          BY LimitsAre
        <4>3. QED
          BY <1>1, <4>1, <4>2
      <3>4. c.pos = a /\ c.data = SubSeq(stream, a + 1, a + b) /\ c = [pos |-> c.pos, data |-> c.data]
        BY <3>1, <3>2
      <3>5. SubSeq(stream, a + 1, a + b) \in Seq(Bytes) /\ Len(SubSeq(stream, a + 1, a + b)) = b
        BY <1>1, <3>3
      <3>6. QED
        BY <1>1, <3>3, <3>4, <3>5
    <2>3. QED
      BY <2>1, <2>2
  <1>3. ASSUME NEW c \in altered
        PROVE  /\ c.pos \in Nat /\ c.data \in Seq(Bytes) /\ c.pos + Len(c.data) <= Len(stream)
    <2>1. PICK x \in cuts : Len(x.data) = 1 /\ c = [x EXCEPT !.data = <<Altered>>]
      OBVIOUS
    <2> HIDE DEF cuts, altered
    <2>2. /\ x = [pos |-> x.pos, data |-> x.data]
          /\ x.pos \in Nat /\ x.data \in Seq(Bytes) /\ x.pos + Len(x.data) <= Len(stream)
      BY <1>2
    <2>3. c.pos = x.pos /\ c.data = <<Altered>>
      BY <2>1, <2>2
    <2>4. <<Altered>> \in Seq(Bytes) /\ Len(<<Altered>>) = 1
      BY LimitsAre
    <2>5. QED
      BY <2>1, <2>2, <2>3, <2>4
  <1>4. Segments[stream] =
          {[pos |-> c.pos, data |-> c.data, syn |-> FALSE, fin |-> FALSE] : c \in cuts \cup altered}
          \cup {[pos |-> 0, data |-> SubSeq(stream, 1, n), syn |-> TRUE, fin |-> FALSE] :
                  n \in 0 .. MaxSynData}
          \cup {[pos |-> c.pos, data |-> c.data, syn |-> FALSE, fin |-> TRUE] :
                  c \in {d \in cuts : d.pos + Len(d.data) = Len(stream)}}
    BY DEF Segments
  <1> HIDE DEF cuts, altered
  <1>5. CASE g \in {[pos |-> c.pos, data |-> c.data, syn |-> FALSE, fin |-> FALSE] :
                      c \in cuts \cup altered}
    <2>1. PICK c \in cuts \cup altered :
            g = [pos |-> c.pos, data |-> c.data, syn |-> FALSE, fin |-> FALSE]
      BY <1>5
    <2>2. c.pos \in Nat /\ c.data \in Seq(Bytes) /\ c.pos + Len(c.data) <= Len(stream)
      BY <1>2, <1>3, <2>1
    <2>3. g.pos = c.pos /\ g.data = c.data
      BY <2>1
    <2>4. g.syn = FALSE /\ g.fin = FALSE
      BY <2>1
    <2>5. /\ g.pos \in Nat /\ g.data \in Seq(Bytes) /\ Len(g.data) \in Nat
          /\ g.pos + Len(g.data) <= Len(stream)
      BY <1>1, <2>2, <2>3
    <2>6. g.syn \in BOOLEAN /\ g.fin \in BOOLEAN /\ (g.syn => g.pos = 0)
      BY <2>4, Zenon
    <2>7. QED
      BY <1>1, <2>5, <2>6
  <1>6. CASE g \in {[pos |-> 0, data |-> SubSeq(stream, 1, n), syn |-> TRUE, fin |-> FALSE] :
                      n \in 0 .. MaxSynData}
    <2>1. PICK n \in 0 .. MaxSynData :
            g = [pos |-> 0, data |-> SubSeq(stream, 1, n), syn |-> TRUE, fin |-> FALSE]
      BY <1>6
    <2>2. n \in Nat /\ n <= Len(stream)
      BY <1>1, <2>1, LimitsAre
    <2>3. SubSeq(stream, 1, n) \in Seq(Bytes) /\ Len(SubSeq(stream, 1, n)) = n
      BY <1>1, <2>2
    <2>4. g.pos = 0 /\ g.data = SubSeq(stream, 1, n)
      BY <2>1
    <2>5. g.syn = TRUE /\ g.fin = FALSE
      BY <2>1
    <2>6. /\ g.pos \in Nat /\ g.data \in Seq(Bytes) /\ Len(g.data) \in Nat
          /\ g.pos + Len(g.data) <= Len(stream)
      BY <1>1, <2>2, <2>3, <2>4
    <2>7. g.syn \in BOOLEAN /\ g.fin \in BOOLEAN /\ (g.syn => g.pos = 0)
      BY <2>4, <2>5, Zenon
    <2>8. QED
      BY <1>1, <2>6, <2>7
  <1>7. CASE g \in {[pos |-> c.pos, data |-> c.data, syn |-> FALSE, fin |-> TRUE] :
                      c \in {d \in cuts : d.pos + Len(d.data) = Len(stream)}}
    <2>1. PICK c \in cuts :
            g = [pos |-> c.pos, data |-> c.data, syn |-> FALSE, fin |-> TRUE]
      BY <1>7
    <2>2. c.pos \in Nat /\ c.data \in Seq(Bytes) /\ c.pos + Len(c.data) <= Len(stream)
      BY <1>2, <2>1
    <2>3. g.pos = c.pos /\ g.data = c.data
      BY <2>1
    <2>4. g.syn = FALSE /\ g.fin = TRUE
      BY <2>1
    <2>5. /\ g.pos \in Nat /\ g.data \in Seq(Bytes) /\ Len(g.data) \in Nat
          /\ g.pos + Len(g.data) <= Len(stream)
      BY <1>1, <2>2, <2>3
    <2>6. g.syn \in BOOLEAN /\ g.fin \in BOOLEAN /\ (g.syn => g.pos = 0)
      BY <2>4, Zenon
    <2>7. QED
      BY <1>1, <2>5, <2>6
  <1>8. QED
    BY <1>4, <1>5, <1>6, <1>7

-----------------------------------------------------------------------------
(* Messages *)

LEMMA AfterIs ==
  ASSUME NEW bytes \in Seq(Bytes), NEW c \in 0 .. Len(bytes), ~Stops(bytes, c)
  PROVE  /\ SizeAt(bytes, c) \in Nat /\ After(bytes, c) \in c + 2 .. Len(bytes)
         /\ c + 2 <= Len(bytes)
  <1>1. Len(bytes) \in Nat /\ c \in Nat /\ c + 2 <= Len(bytes)
    BY DEF Stops
  <1>2. c + 1 \in 1 .. Len(bytes) /\ c + 2 \in 1 .. Len(bytes)
    BY <1>1
  <1>3. PICK a, b : a = bytes[c + 1] /\ b = bytes[c + 2]
    OBVIOUS
  <1>4. a \in Bytes /\ b \in Bytes
    BY <1>2, <1>3
  <1>5. a \in Nat /\ b \in Nat /\ Radix \in Nat
    BY <1>4, LimitsAre DEF Bytes
  <1>6. a * Radix + b \in Nat
    BY <1>5
  <1>7. SizeAt(bytes, c) \in Nat
    BY <1>3, <1>6 DEF SizeAt
  <1>8. ~(Len(bytes) - c < 2 + SizeAt(bytes, c))
    BY DEF Stops
  <1>9. PICK size \in Nat : size = SizeAt(bytes, c)
    BY <1>7
  <1>10. c + 2 + size \in c + 2 .. Len(bytes)
    BY <1>1, <1>8, <1>9
  <1>11. QED
    BY <1>1, <1>7, <1>9, <1>10 DEF After

(* Starts is what its recursion says. *)
LEMMA StartsFunction ==
  ASSUME NEW bytes \in Seq(Bytes)
  PROVE  \E next :
           /\ Starts(bytes) = next[0]
           /\ \A c \in 0 .. Len(bytes) :
                next[c] = IF Stops(bytes, c) THEN <<c>> ELSE <<c>> \o next[After(bytes, c)]
  <1>1. PICK L : L = Len(bytes)
    OBVIOUS
  <1>2. L \in Nat
    BY <1>1
  <1> DEFINE Body(g, c) == IF Stops(bytes, c) THEN <<c>> ELSE <<c>> \o g[After(bytes, c)]
             Solves(g, m) == g = [c \in L - m .. L |-> Body(g, c)]
             iter == CHOOSE next : next = [c \in 0 .. L |-> Body(next, c)]
  <1>3. \A c \in 0 .. L : ~Stops(bytes, c) => After(bytes, c) \in c + 1 .. L
    <2> SUFFICES ASSUME NEW c \in 0 .. L, ~Stops(bytes, c) PROVE After(bytes, c) \in c + 1 .. L
      OBVIOUS
    <2>1. After(bytes, c) \in c + 2 .. L
      BY <1>1, AfterIs
    <2>2. QED
      BY <1>2, <2>1
  <1>4. Starts(bytes) = iter[0]
    BY <1>1 DEF Starts, Stops, After
  <1>5. \E g : Solves(g, 0)
    <2>1. PICK g : g = [c \in L .. L |-> <<c>>]
      OBVIOUS
    <2>2. \A c \in L .. L : Stops(bytes, c)
      BY <1>1, <1>2 DEF Stops
    <2>3. L - 0 = L
      BY <1>2
    <2>4. Solves(g, 0)
      BY <2>1, <2>2, <2>3
    <2>5. QED
      BY <2>4
  <1>6. ASSUME NEW m \in 0 .. L - 1, NEW g, Solves(g, m)
        PROVE  \E h : Solves(h, m + 1)
    <2>1. PICK top : top = L - (m + 1)
      OBVIOUS
    <2>2. top \in 0 .. L - 1 /\ L - m = top + 1
      BY <1>2, <2>1
    <2>3. PICK h : h = [c \in top .. L |-> IF c = top THEN Body(g, c) ELSE g[c]]
      OBVIOUS
    <2>4. \A c \in top + 1 .. L : h[c] = g[c]
      BY <1>2, <2>2, <2>3
    <2>5. ASSUME NEW c \in top .. L PROVE Body(h, c) = Body(g, c)
      <3>1. CASE Stops(bytes, c)
        BY <3>1
      <3>2. CASE ~Stops(bytes, c)
        <4>1. After(bytes, c) \in c + 1 .. L
          BY <1>2, <1>3, <2>2, <3>2
        <4>2. After(bytes, c) \in top + 1 .. L
          BY <1>2, <2>2, <4>1
        <4>3. QED
          BY <2>4, <4>2
      <3>3. QED
        BY <3>1, <3>2
    <2>6. \A c \in top .. L : h[c] = Body(h, c)
      <3> SUFFICES ASSUME NEW c \in top .. L PROVE h[c] = Body(h, c)
        OBVIOUS
      <3>1. CASE c = top
        BY <2>3, <2>5, <3>1
      <3>2. CASE c # top
        <4>1. c \in top + 1 .. L
          BY <1>2, <2>2, <3>2
        <4>2. c \in L - m .. L
          BY <2>2, <4>1
        <4>3. g[c] = Body(g, c)
          BY <1>6, <4>2
        <4>4. QED
          BY <2>4, <2>5, <4>1, <4>3
      <3>3. QED
        BY <3>1, <3>2
    <2>7. h = [c \in top .. L |-> h[c]]
      BY <2>3
    <2> HIDE DEF Body
    <2>8. h = [c \in top .. L |-> Body(h, c)]
      BY <2>6, <2>7
    <2>9. QED
      BY <2>1, <2>8
  <1> HIDE DEF Body, iter
  <1>7. \E g : Solves(g, L)
    <2> SUFFICES ASSUME ~ \E g : Solves(g, L) PROVE FALSE
      OBVIOUS
    <2> HIDE DEF Solves
    <2>1. PICK N : N = {m \in 0 .. L : ~ \E g : Solves(g, m)}
      OBVIOUS
    <2>2. N \in SUBSET Nat /\ L \in N
      BY <1>2, <2>1
    <2>3. PICK m \in N : \A j \in N : m <= j
      BY <2>2, LeastNumber
    <2>4. m \in 0 .. L /\ ~ \E g : Solves(g, m)
      BY <2>1
    <2>5. m # 0
      BY <1>5, <2>4
    <2>6. m - 1 \in 0 .. L - 1 /\ m - 1 \notin N /\ m - 1 \in 0 .. L
      BY <1>2, <2>3, <2>4, <2>5
    <2>7. PICK g : Solves(g, m - 1)
      BY <2>1, <2>6
    <2>8. \E h : Solves(h, (m - 1) + 1)
      BY <1>6, <2>6, <2>7
    <2>9. (m - 1) + 1 = m
      BY <2>4
    <2>10. QED
      BY <2>4, <2>8, <2>9
  <1>8. PICK g : g = [c \in 0 .. L |-> Body(g, c)]
    <2>1. L - L = 0
      BY <1>2
    <2>2. QED
      BY <1>7, <2>1
  <1>9. iter = [c \in 0 .. L |-> Body(iter, c)]
    BY <1>8 DEF iter
  <1>10. \A c \in 0 .. L : iter[c] = Body(iter, c)
    BY <1>9
  <1>11. QED
    BY <1>1, <1>4, <1>10 DEF Body

(* The messages of a stream, one after the other, from its first byte to   *)
(* where no whole message begins.                                          *)
Chain(bytes, starts) ==
  /\ starts \in Seq(0 .. Len(bytes)) /\ Len(starts) >= 1 /\ starts[1] = 0
  /\ \A i \in 1 .. Len(starts) - 1 :
       ~Stops(bytes, starts[i]) /\ starts[i + 1] = After(bytes, starts[i])
  /\ Stops(bytes, starts[Len(starts)])

LEMMA StartsChain ==
  ASSUME NEW bytes \in Seq(Bytes)
  PROVE  Chain(bytes, Starts(bytes))
  <1>1. PICK next :
          /\ Starts(bytes) = next[0]
          /\ \A c \in 0 .. Len(bytes) :
               next[c] = IF Stops(bytes, c) THEN <<c>> ELSE <<c>> \o next[After(bytes, c)]
    BY StartsFunction
  <1>2. PICK L : L = Len(bytes) /\ L \in Nat
    OBVIOUS
  <1> DEFINE Good(c) ==
        LET q == next[c]
        IN /\ q \in Seq(0 .. L) /\ Len(q) >= 1 /\ q[1] = c
           /\ \A i \in 1 .. Len(q) - 1 : ~Stops(bytes, q[i]) /\ q[i + 1] = After(bytes, q[i])
           /\ Stops(bytes, q[Len(q)])
  <1>3. ASSUME NEW c \in 0 .. L, \A d \in c + 1 .. L : Good(d)
        PROVE  Good(c)
    <2>1. CASE Stops(bytes, c)
      <3>1. next[c] = <<c>>
        BY <1>1, <1>2, <2>1
      <3>2. QED
        BY <2>1, <3>1
    <2>2. CASE ~Stops(bytes, c)
      <3>1. PICK d : d = After(bytes, c)
        OBVIOUS
      <3>2. d \in c + 1 .. L /\ c \in 0 .. L
        <4>1. d \in c + 2 .. L
          BY <1>2, <2>2, <3>1, AfterIs
        <4>2. QED
          BY <1>2, <4>1
      <3>3. Good(d)
        BY <1>3, <3>2
      <3>4. PICK r, q : r = next[d] /\ q = next[c]
        OBVIOUS
      <3>5. /\ r \in Seq(0 .. L) /\ Len(r) >= 1 /\ r[1] = d
            /\ \A i \in 1 .. Len(r) - 1 : ~Stops(bytes, r[i]) /\ r[i + 1] = After(bytes, r[i])
            /\ Stops(bytes, r[Len(r)])
        BY <3>3, <3>4
      <3>6. q = <<c>> \o r
        BY <1>1, <1>2, <2>2, <3>1, <3>4
      <3>7. PICK m : m = Len(r) /\ m \in Nat /\ m >= 1
        BY <3>5
      <3>8. q \in Seq(0 .. L) /\ Len(q) = m + 1 /\ q[1] = c
        BY <3>2, <3>5, <3>6, <3>7
      <3>9. \A i \in 1 .. m : q[i + 1] = r[i]
        BY <3>2, <3>5, <3>6, <3>7
      <3>10. \A i \in 1 .. Len(q) - 1 : ~Stops(bytes, q[i]) /\ q[i + 1] = After(bytes, q[i])
        <4> SUFFICES ASSUME NEW i \in 1 .. m
                     PROVE  ~Stops(bytes, q[i]) /\ q[i + 1] = After(bytes, q[i])
          BY <3>7, <3>8
        <4>1. CASE i = 1
          BY <2>2, <3>1, <3>5, <3>7, <3>8, <3>9, <4>1
        <4>2. CASE i # 1
          <5>1. PICK j : j = i - 1
            OBVIOUS
          <5>2. j \in 1 .. m /\ j \in 1 .. m - 1 /\ i = j + 1
            BY <3>7, <4>2, <5>1
          <5>3. q[i] = r[j] /\ q[i + 1] = r[j + 1]
            BY <3>9, <5>2
          <5>4. QED
            BY <3>5, <3>7, <5>2, <5>3
        <4>3. QED
          BY <4>1, <4>2
      <3>11. Stops(bytes, q[Len(q)])
        BY <3>5, <3>7, <3>8, <3>9
      <3>12. Len(q) >= 1
        BY <3>7, <3>8
      <3>13. /\ q \in Seq(0 .. L) /\ Len(q) >= 1 /\ q[1] = c
             /\ \A i \in 1 .. Len(q) - 1 : ~Stops(bytes, q[i]) /\ q[i + 1] = After(bytes, q[i])
             /\ Stops(bytes, q[Len(q)])
        BY <3>8, <3>10, <3>11, <3>12
      <3>14. QED
        BY <3>4, <3>13
    <2>3. QED
      BY <2>1, <2>2
  <1>4. \A c \in 0 .. L : Good(c)
    <2> HIDE DEF Good
    <2> SUFFICES ASSUME NEW c0 \in 0 .. L, ~Good(c0) PROVE FALSE
      OBVIOUS
    <2>1. PICK N : N = {m \in 0 .. L : ~Good(L - m)}
      OBVIOUS
    <2>2. N \in SUBSET Nat /\ L - c0 \in N
      BY <1>2, <2>1
    <2>3. PICK m \in N : \A j \in N : m <= j
      BY <2>2, LeastNumber
    <2>4. m \in 0 .. L /\ ~Good(L - m) /\ L - m \in 0 .. L
      BY <1>2, <2>1
    <2>5. ASSUME NEW d \in (L - m) + 1 .. L PROVE Good(d)
      <3>1. L - d \in 0 .. L /\ L - d < m /\ L - (L - d) = d
        BY <1>2, <2>4
      <3>2. L - d \notin N
        BY <1>2, <2>3, <2>4, <3>1
      <3>3. QED
        BY <2>1, <3>1, <3>2
    <2>6. QED
      BY <1>3, <2>4, <2>5
  <1>5. Good(0)
    BY <1>2, <1>4
  <1>6. QED
    BY <1>1, <1>2, <1>5 DEF Chain

(* There is one such sequence. *)
LEMMA ChainIsStarts ==
  ASSUME NEW bytes \in Seq(Bytes), NEW a, Chain(bytes, a)
  PROVE  a = Starts(bytes)
  <1>1. PICK b : b = Starts(bytes)
    OBVIOUS
  <1>2. Chain(bytes, b)
    BY <1>1, StartsChain
  <1>3. PICK m, n : m = Len(a) /\ n = Len(b) /\ m \in Nat /\ n \in Nat /\ m >= 1 /\ n >= 1
    <2>1. Len(a) \in Nat /\ Len(a) >= 1
      BY DEF Chain
    <2>2. Len(b) \in Nat /\ Len(b) >= 1
      BY <1>2 DEF Chain
    <2>3. QED
      BY <2>1, <2>2
  <1>4. \A i \in 1 .. m : i <= n => a[i] = b[i]
    <2> SUFFICES ASSUME NEW k \in 1 .. m, k <= n, a[k] # b[k] PROVE FALSE
      OBVIOUS
    <2>1. PICK N : N = {i \in 1 .. m : i <= n /\ a[i] # b[i]}
      OBVIOUS
    <2>2. N \in SUBSET Nat /\ k \in N
      BY <2>1
    <2>3. PICK i \in N : \A j \in N : i <= j
      BY <2>2, LeastNumber
    <2>4. i \in 1 .. m /\ i <= n /\ a[i] # b[i]
      BY <2>1
    <2>5. i # 1
      BY <1>2, <2>4 DEF Chain
    <2>6. PICK j : j = i - 1
      OBVIOUS
    <2>7. j \in 1 .. m - 1 /\ j \in 1 .. n - 1 /\ i = j + 1 /\ j \in 1 .. m /\ j <= n
      BY <1>3, <2>4, <2>5, <2>6
    <2>8. a[j] = b[j]
      BY <2>1, <2>3, <2>7
    <2>9. a[i] = After(bytes, a[j]) /\ b[i] = After(bytes, b[j])
      BY <1>2, <1>3, <2>7 DEF Chain
    <2>10. QED
      BY <2>4, <2>8, <2>9
  <1>5. m = n
    <2>1. CASE m < n
      <3>1. m \in 1 .. n - 1 /\ m \in 1 .. m /\ m <= n
        BY <1>3, <2>1
      <3>2. a[m] = b[m] /\ Stops(bytes, a[m]) /\ ~Stops(bytes, b[m])
        BY <1>2, <1>3, <1>4, <3>1 DEF Chain
      <3>3. QED
        BY <3>2
    <2>2. CASE n < m
      <3>1. n \in 1 .. m - 1 /\ n \in 1 .. m /\ n <= n
        BY <1>3, <2>2
      <3>2. a[n] = b[n] /\ Stops(bytes, b[n]) /\ ~Stops(bytes, a[n])
        BY <1>2, <1>3, <1>4, <3>1 DEF Chain
      <3>3. QED
        BY <3>2
    <2>3. QED
      BY <1>3, <2>1, <2>2
  <1>6. a \in Seq(0 .. Len(bytes)) /\ b \in Seq(0 .. Len(bytes))
    BY <1>2 DEF Chain
  <1>7. \A i \in 1 .. Len(a) : a[i] = b[i]
    BY <1>3, <1>4, <1>5
  <1>8. a = b
    BY <1>3, <1>5, <1>6, <1>7, SeqEqual
  <1>9. QED
    BY <1>1, <1>8

(* A chain ends in the bytes. *)
LEMMA LastStart ==
  ASSUME NEW bytes \in Seq(Bytes)
  PROVE  /\ Len(bytes) \in Nat /\ Last(Starts(bytes)) \in 0 .. Len(bytes)
         /\ Stops(bytes, Last(Starts(bytes)))
  <1>1. PICK a : a = Starts(bytes)
    OBVIOUS
  <1>2. a \in Seq(0 .. Len(bytes)) /\ Len(a) >= 1 /\ Stops(bytes, a[Len(a)])
    BY <1>1, StartsChain DEF Chain
  <1>3. Len(a) \in 1 .. Len(a)
    BY <1>2
  <1>4. a[Len(a)] \in 0 .. Len(bytes)
    BY <1>2, <1>3
  <1>5. QED
    BY <1>1, <1>2, <1>4 DEF Last

LEMMA ConsumableIs ==
  ASSUME NEW bytes \in Seq(Bytes)
  PROVE  /\ Consumable(bytes) \in 0 .. Len(bytes)
         /\ protocol = "dns" => Consumable(bytes) = Last(Starts(bytes))
         /\ protocol # "dns" => Consumable(bytes) = Len(bytes)
  <1>1. Len(bytes) \in Nat /\ Last(Starts(bytes)) \in 0 .. Len(bytes)
    BY LastStart
  <1>2. QED
    BY <1>1 DEF Consumable

-----------------------------------------------------------------------------
(* The window *)

(* A window of bytes. *)
IsWindow(buffer) ==
  /\ buffer = [i \in 0 .. Window - 1 |-> buffer[i]]
  /\ \A i \in 0 .. Window - 1 : buffer[i] \in Bytes \cup {None}

LEMMA ContiguousIs ==
  ASSUME NEW e, IsWindow(e.buffer)
  PROVE  /\ ContiguousSize(e) \in 0 .. Window
         /\ \A i \in 0 .. ContiguousSize(e) - 1 : e.buffer[i] \in Bytes
         /\ ContiguousSize(e) < Window => e.buffer[ContiguousSize(e)] = None
         /\ Contiguous(e) \in Seq(Bytes) /\ Len(Contiguous(e)) = ContiguousSize(e)
         /\ \A i \in 1 .. ContiguousSize(e) : Contiguous(e)[i] = e.buffer[i - 1]
  <1>1. Window \in Nat \ {0}
    BY LimitsAre
  <1>2. PICK P : P = Present(e)
    OBVIOUS
  <1>3. DOMAIN e.buffer = 0 .. Window - 1
    BY DEF IsWindow
  <1>4. \A i \in 0 .. Window - 1 : (i \in P) <=> (e.buffer[i] # None)
    BY <1>2, <1>3 DEF Present
  <1>5. P \subseteq 0 .. Window - 1
    BY <1>2, <1>3 DEF Present
  <1>6. \E n \in 0 .. Window : n \notin P /\ 0 .. n - 1 \subseteq P
    <2>1. PICK N : N = {n \in 0 .. Window : n \notin P}
      OBVIOUS
    <2>2. N \in SUBSET Nat /\ Window \in N
      BY <1>1, <1>5, <2>1
    <2>3. PICK n \in N : \A j \in N : n <= j
      BY <2>2, LeastNumber
    <2>4. n \in 0 .. Window /\ n \notin P
      BY <2>1
    <2>5. ASSUME NEW j \in 0 .. n - 1 PROVE j \in P
      <3>1. j \in 0 .. Window /\ ~(n <= j)
        BY <1>1, <2>4
      <3>2. j \notin N
        BY <2>3, <3>1
      <3>3. QED
        BY <2>1, <3>1, <3>2
    <2>6. QED
      BY <2>4, <2>5
  <1>7. PICK size : size = ContiguousSize(e)
    OBVIOUS
  <1>8. size \in 0 .. Window /\ size \notin P /\ 0 .. size - 1 \subseteq P
    BY <1>2, <1>6, <1>7 DEF ContiguousSize
  <1>9. ASSUME NEW i \in 0 .. size - 1 PROVE e.buffer[i] \in Bytes
    <2>1. i \in P /\ i \in 0 .. Window - 1
      BY <1>1, <1>8
    <2>2. QED
      BY <1>4, <2>1 DEF IsWindow
  <1>10. size < Window => e.buffer[size] = None
    BY <1>1, <1>4, <1>8
  <1>11. PICK c : c = Contiguous(e)
    OBVIOUS
  <1>12. c = [i \in 1 .. size |-> e.buffer[i - 1]]
    BY <1>7, <1>11 DEF Contiguous
  <1>13. \A i \in 1 .. size : c[i] = e.buffer[i - 1] /\ c[i] \in Bytes
    <2> SUFFICES ASSUME NEW i \in 1 .. size PROVE c[i] = e.buffer[i - 1] /\ c[i] \in Bytes
      OBVIOUS
    <2>1. i - 1 \in 0 .. size - 1
      BY <1>8
    <2>2. QED
      BY <1>9, <1>12, <2>1
  <1>14. c \in Seq(Bytes) /\ Len(c) = size
    <2>1. c \in [1 .. size -> Bytes] /\ size \in Nat
      BY <1>1, <1>8, <1>12, <1>13
    <2>2. QED
      BY <2>1
  <1>15. QED
    BY <1>7, <1>8, <1>9, <1>10, <1>11, <1>13, <1>14

(* The flow of an inspected connection: its numbers. *)
LEMMA InspectedIs ==
  ASSUME NEW e, NEW isn, NEW stream, Len(stream) \in Nat,
         HasArrived(e, stream), Inspected(e, isn, stream)
  PROVE  /\ Len(e.seen) \in Nat /\ Len(e.seen) <= Len(stream) /\ IsWindow(e.buffer)
         /\ \A i \in 0 .. Window - 1 :
              e.buffer[i] = IF Len(e.seen) + i \in DOMAIN e.arrived
                            THEN e.arrived[Len(e.seen) + i] ELSE None
  <1>1. PICK n, L : n = Len(e.seen) /\ L = Len(stream)
    OBVIOUS
  <1>2. n \in Nat /\ L \in Nat
    BY <1>1 DEF HasArrived
  <1>3. n <= L
    <2>1. CASE n = 0
      BY <1>2, <2>1
    <2>2. CASE n # 0
      <3>1. n \in 1 .. n
        BY <1>2, <2>2
      <3>2. n - 1 \in DOMAIN e.arrived
        BY <1>1, <3>1 DEF Inspected
      <3>3. n - 1 \in 0 .. L - 1
        BY <1>1, <3>2 DEF HasArrived
      <3>4. QED
        BY <1>2, <3>3
    <2>3. QED
      BY <2>1, <2>2
  <1>4. e.buffer = [i \in 0 .. Window - 1 |->
                      IF n + i \in DOMAIN e.arrived THEN e.arrived[n + i] ELSE None]
    BY <1>1 DEF Inspected
  <1>5. \A p \in DOMAIN e.arrived : e.arrived[p] \in Bytes
    BY DEF HasArrived
  <1>6. \A i \in 0 .. Window - 1 :
          e.buffer[i] = IF n + i \in DOMAIN e.arrived THEN e.arrived[n + i] ELSE None
    BY <1>4
  <1>7. IsWindow(e.buffer)
    BY <1>4, <1>5 DEF IsWindow
  <1>8. QED
    BY <1>1, <1>2, <1>3, <1>6, <1>7

(* What the server can read is what was emitted and what waits without a gap. *)
LEMMA ReachedIs ==
  ASSUME NEW e, NEW m \in Nat, DOMAIN e.arrived \subseteq 0 .. m - 1, NEW n \in Nat,
         0 .. n - 1 \subseteq DOMAIN e.arrived, n \notin DOMAIN e.arrived
  PROVE  Reached(e) = n
  <1>1. PICK D : D = DOMAIN e.arrived
    OBVIOUS
  <1>2. IsFiniteSet(0 .. m - 1)
    BY FS_Interval
  <1>3. IsFiniteSet(D) /\ Cardinality(D) \in Nat
    BY <1>1, <1>2, FS_Subset, FS_CardinalityType
  <1>4. Cardinality(0 .. n - 1) = n
    <2>1. Cardinality(0 .. n - 1) = IF 0 > n - 1 THEN 0 ELSE (n - 1) - 0 + 1
      BY FS_Interval
    <2>2. QED
      BY <2>1
  <1>5. n <= Cardinality(D)
    BY <1>1, <1>3, <1>4, FS_Subset
  <1>6. n \in 0 .. Cardinality(D) /\ n \notin D /\ 0 .. n - 1 \subseteq D
    BY <1>1, <1>3, <1>5
  <1>7. \A j \in 0 .. Cardinality(D) : j \notin D /\ 0 .. j - 1 \subseteq D => j = n
    <2> SUFFICES ASSUME NEW j \in 0 .. Cardinality(D), j \notin D, 0 .. j - 1 \subseteq D, j # n
                 PROVE  FALSE
      OBVIOUS
    <2>1. CASE j < n
      <3>1. j \in 0 .. n - 1
        BY <1>3, <2>1
      <3>2. QED
        BY <1>6, <3>1
    <2>2. CASE n < j
      <3>1. n \in 0 .. j - 1
        BY <1>3, <2>2
      <3>2. QED
        BY <1>6, <3>1
    <2>3. QED
      BY <1>3, <2>1, <2>2
  <1>8. QED
    BY <1>1, <1>6, <1>7 DEF Reached

LEMMA ReadableIs ==
  ASSUME NEW e, NEW isn, NEW stream, Len(stream) \in Nat,
         HasArrived(e, stream), Inspected(e, isn, stream)
  PROVE  /\ Reached(e) = Len(e.seen) + ContiguousSize(e)
         /\ Readable(e) = e.seen \o Contiguous(e)
  <1>1. PICK n, c, L, D : n = Len(e.seen) /\ c = ContiguousSize(e) /\ L = Len(stream)
                          /\ D = DOMAIN e.arrived
    OBVIOUS
  <1>2. n \in Nat /\ L \in Nat /\ IsWindow(e.buffer) /\ D \subseteq 0 .. L - 1 /\ e.seen \in Seq(Bytes)
    BY <1>1, InspectedIs DEF HasArrived
  <1>3. \A i \in 0 .. Window - 1 :
          e.buffer[i] = IF n + i \in D THEN e.arrived[n + i] ELSE None
    BY <1>1, InspectedIs
  <1>4. /\ c \in 0 .. Window /\ \A i \in 0 .. c - 1 : e.buffer[i] \in Bytes
        /\ c < Window => e.buffer[c] = None
    BY <1>1, <1>2, ContiguousIs
  <1>5. Window \in Nat \ {0} /\ None \notin Bytes
    BY LimitsAre DEF None, Bytes
  <1>6. \A i \in 0 .. c - 1 : n + i \in D /\ e.buffer[i] = e.arrived[n + i]
    <2> SUFFICES ASSUME NEW i \in 0 .. c - 1
                 PROVE  n + i \in D /\ e.buffer[i] = e.arrived[n + i]
      OBVIOUS
    <2>1. i \in 0 .. Window - 1 /\ e.buffer[i] \in Bytes
      BY <1>4, <1>5
    <2>2. QED
      BY <1>3, <1>5, <2>1
  <1>7. \A i \in 1 .. n : i - 1 \in D /\ e.seen[i] = e.arrived[i - 1]
    BY <1>1 DEF Inspected
  <1>8. n + c \in Nat
    BY <1>2, <1>4
  <1>9. ASSUME NEW p \in 0 .. (n + c) - 1 PROVE p \in D
    <2>1. CASE p < n
      <3>1. p + 1 \in 1 .. n /\ (p + 1) - 1 = p
        BY <1>2, <1>4, <2>1
      <3>2. QED
        BY <1>7, <3>1
    <2>2. CASE p >= n
      <3>1. p - n \in 0 .. c - 1 /\ n + (p - n) = p
        BY <1>2, <1>4, <2>2
      <3>2. QED
        BY <1>6, <3>1
    <2>3. QED
      BY <1>2, <1>4, <2>1, <2>2
  <1>10. n + c \notin D
    <2>1. CASE c < Window
      <3>1. e.buffer[c] = None /\ c \in 0 .. Window - 1
        BY <1>4, <1>5, <2>1
      <3>2. \A p \in D : e.arrived[p] \in Bytes
        BY <1>1 DEF HasArrived
      <3>3. QED
        BY <1>3, <1>5, <3>1, <3>2
    <2>2. CASE c = Window
      <3>1. \A p \in D : p < n + Window
        BY <1>1 DEF Inspected
      <3>2. QED
        BY <1>2, <1>4, <2>2, <3>1
    <2>3. QED
      BY <1>4, <1>5, <2>1, <2>2
  <1>11. Reached(e) = n + c
    <2>1. 0 .. (n + c) - 1 \subseteq D
      BY <1>9
    <2>2. QED
      BY <1>1, <1>2, <1>8, <1>10, <2>1, ReachedIs
  <1>12. PICK rd, ct : rd = Readable(e) /\ ct = Contiguous(e)
    OBVIOUS
  <1>13. rd = [i \in 1 .. n + c |-> e.arrived[i - 1]]
    BY <1>11, <1>12 DEF Readable
  <1>14. ct \in Seq(Bytes) /\ Len(ct) = c /\ \A i \in 1 .. c : ct[i] = e.buffer[i - 1]
    BY <1>1, <1>2, <1>12, ContiguousIs
  <1>15. PICK all : all = e.seen \o ct
    OBVIOUS
  <1>16. all \in Seq(Bytes) /\ Len(all) = n + c
    BY <1>1, <1>2, <1>14, <1>15, ConcatProperties
  <1>17. \A i \in 1 .. n + c : all[i] = IF i <= n THEN e.seen[i] ELSE ct[i - n]
    BY <1>1, <1>2, <1>14, <1>15
  <1>18. \A i \in 1 .. n + c : all[i] = e.arrived[i - 1]
    <2> SUFFICES ASSUME NEW i \in 1 .. n + c PROVE all[i] = e.arrived[i - 1]
      OBVIOUS
    <2>1. CASE i <= n
      <3>1. i \in 1 .. n
        BY <1>2, <2>1
      <3>2. QED
        BY <1>7, <1>17, <2>1, <3>1
    <2>2. CASE ~(i <= n)
      <3>1. i - n \in 1 .. c /\ (i - n) - 1 \in 0 .. c - 1 /\ n + ((i - n) - 1) = i - 1
        BY <1>2, <1>4, <2>2
      <3>2. ct[i - n] = e.buffer[(i - n) - 1]
        BY <1>14, <3>1
      <3>3. e.buffer[(i - n) - 1] = e.arrived[i - 1]
        BY <1>6, <3>1
      <3>4. QED
        BY <1>17, <2>2, <3>2, <3>3
    <2>3. QED
      BY <2>1, <2>2
  <1>19. all = [i \in 1 .. n + c |-> all[i]]
    BY <1>8, <1>16
  <1>20. all = rd
    BY <1>13, <1>18, <1>19
  <1>21. QED
    BY <1>1, <1>11, <1>12, <1>15, <1>20

-----------------------------------------------------------------------------
(* What a segment brings *)

(* What has reached the server when a segment is forwarded. *)
Arrivals(arrived, g) ==
  [p \in DOMAIN arrived \cup (g.pos .. g.pos + Len(g.data) - 1) |->
     IF p \in DOMAIN arrived THEN arrived[p] ELSE g.data[p - g.pos + 1]]

(* The new part of a segment is its bytes past what was emitted. *)
LEMMA NewPartIs ==
  ASSUME NEW k, NEW e, NEW g, NEW n \in Nat, g.pos \in Nat, g.data \in Seq(Bytes),
         OffsetIn(e, SeqNumber(k, g.pos)) = g.pos - n, g.pos + Len(g.data) > n
  PROVE  LET new == NewPart(k, e, g)
         IN /\ new.at \in Nat /\ new.bytes \in Seq(Bytes) /\ Len(new.bytes) \in Nat
            /\ n + new.at + Len(new.bytes) = g.pos + Len(g.data)
            /\ n + new.at >= g.pos /\ (n + new.at = g.pos \/ new.at = 0)
            /\ \A i \in 1 .. Len(new.bytes) : new.bytes[i] = g.data[n + new.at + i - g.pos]
  <1>1. PICK new, pos, data, l : new = NewPart(k, e, g) /\ pos = g.pos /\ data = g.data /\ l = Len(g.data)
    OBVIOUS
  <1>2. pos \in Nat /\ data \in Seq(Bytes) /\ l \in Nat /\ l = Len(data) /\ pos + l > n
    BY <1>1
  <1>3. new = [at |-> Max({pos - n, 0}),
               bytes |-> IF pos - n < 0 THEN SubSeq(data, 1 - (pos - n), l) ELSE data]
    BY <1>1 DEF NewPart
  <1>4. CASE pos >= n
    <2>1. Max({pos - n, 0}) = pos - n /\ ~(pos - n < 0)
      BY <1>2, <1>4 DEF Max
    <2>2. new.at = pos - n /\ new.bytes = data
      BY <1>3, <2>1
    <2>3. \A i \in 1 .. Len(data) : n + (pos - n) + i - pos = i
      BY <1>2
    <2>4. /\ pos - n \in Nat /\ n + (pos - n) + l = pos + l
          /\ n + (pos - n) >= pos /\ n + (pos - n) = pos
      BY <1>2, <1>4
    <2>5. QED
      BY <1>1, <1>2, <2>2, <2>3, <2>4
  <1>5. CASE pos < n
    <2>1. Max({pos - n, 0}) = 0 /\ pos - n < 0
      BY <1>2, <1>5 DEF Max
    <2>2. PICK d : d = n - pos
      OBVIOUS
    <2>3. d \in Nat /\ d >= 1 /\ d < l /\ 1 - (pos - n) = d + 1 /\ d + 1 \in Int /\ d + 1 <= l
      BY <1>2, <1>5, <2>2
    <2>4. PICK bytes : bytes = SubSeq(data, d + 1, l)
      OBVIOUS
    <2>5. new.at = 0 /\ new.bytes = bytes
      BY <1>3, <2>1, <2>3, <2>4
    <2>6. \A i \in d + 1 .. l : data[i] \in Bytes
      BY <1>2, <2>3
    <2>7. /\ bytes \in Seq(Bytes) /\ Len(bytes) = l - (d + 1) + 1
          /\ \A i \in 1 .. l - (d + 1) + 1 : bytes[i] = data[(d + 1) + i - 1]
      BY <1>2, <2>3, <2>4, <2>6, SubSeqProperties
    <2>8. Len(bytes) = l - d /\ Len(bytes) \in Nat
      BY <1>2, <2>3, <2>7
    <2>9. \A i \in 1 .. Len(bytes) : bytes[i] = data[n + 0 + i - pos]
      <3> SUFFICES ASSUME NEW i \in 1 .. Len(bytes) PROVE bytes[i] = data[n + 0 + i - pos]
        OBVIOUS
      <3>1. (d + 1) + i - 1 = n + 0 + i - pos /\ i \in 1 .. l - (d + 1) + 1
        BY <1>2, <2>2, <2>3, <2>8
      <3>2. QED
        BY <2>7, <3>1
    <2>10. n + 0 + (l - d) = pos + l /\ n + 0 >= pos /\ 0 \in Nat
      BY <1>2, <1>5, <2>2
    <2>11. QED
      BY <1>1, <2>5, <2>7, <2>8, <2>9, <2>10
  <1>6. QED
    BY <1>2, <1>4, <1>5

(* A segment taken whole: the window and the server get the same bytes. *)
LEMMA Filling ==
  ASSUME NEW isn, NEW stream, Len(stream) \in Nat, NEW e, IsFlow(e),
         HasArrived(e, stream), Inspected(e, isn, stream),
         NEW g, g.pos \in Nat, g.data \in Seq(Bytes), g.pos + Len(g.data) <= Len(stream),
         NEW new, new.at \in Nat, new.bytes \in Seq(Bytes), Len(new.bytes) \in Nat,
         Len(e.seen) + new.at + Len(new.bytes) = g.pos + Len(g.data),
         Len(e.seen) + new.at >= g.pos, Len(e.seen) + new.at = g.pos \/ new.at = 0,
         \A i \in 1 .. Len(new.bytes) :
           new.bytes[i] = g.data[Len(e.seen) + new.at + i - g.pos],
         new.at + Len(new.bytes) <= Window, ~Conflicts(e, new),
         NEW r, r.base = e.base, r.seen = e.seen,
         r.buffer = Filled(e, new).buffer, r.arrived = Arrivals(e.arrived, g)
  PROVE  HasArrived(r, stream) /\ Inspected(r, isn, stream)
  <1>1. PICK n, L, at, bytes, m, D, B : n = Len(e.seen) /\ L = Len(stream) /\ at = new.at
          /\ bytes = new.bytes /\ m = Len(new.bytes) /\ D = DOMAIN e.arrived /\ B = e.buffer
    OBVIOUS
  <1>2. PICK pos, data, l : pos = g.pos /\ data = g.data /\ l = Len(g.data)
    OBVIOUS
  <1>3. /\ n \in Nat /\ L \in Nat /\ at \in Nat /\ m \in Nat /\ pos \in Nat /\ l \in Nat
        /\ Window \in Nat \ {0} /\ data \in Seq(Bytes) /\ l = Len(data) /\ m = Len(bytes)
    BY <1>1, <1>2, InspectedIs, LimitsAre
  <1>4. /\ pos + l <= L /\ n + at + m = pos + l /\ n + at >= pos /\ (n + at = pos \/ at = 0)
        /\ at + m <= Window
    BY <1>1, <1>2
  <1>5. \A i \in 0 .. Window - 1 : B[i] = IF n + i \in D THEN e.arrived[n + i] ELSE None
    BY <1>1, InspectedIs
  <1>6. /\ D \subseteq 0 .. L - 1 /\ e.seen \in Seq(Bytes)
        /\ \A p \in D : e.arrived[p] \in Bytes
    BY <1>1 DEF HasArrived
  <1>7. /\ e.base = (isn + 1 + n) % Modulus
        /\ \A i \in 1 .. n : i - 1 \in D /\ e.seen[i] = e.arrived[i - 1]
        /\ \A p \in D : p < n + Window
    BY <1>1 DEF Inspected
  <1>8. PICK A, E : A = r.arrived /\ E = DOMAIN r.arrived
    OBVIOUS
  <1>9. /\ E = D \cup (pos .. pos + l - 1)
        /\ A = [p \in E |-> IF p \in D THEN e.arrived[p] ELSE data[p - pos + 1]]
    BY <1>1, <1>2, <1>8 DEF Arrivals
  <1>10. \A p \in D : p \in E /\ A[p] = e.arrived[p]
    BY <1>9
  <1>11. \A p \in pos .. pos + l - 1 : p \notin D => p \in E /\ A[p] = data[p - pos + 1]
    BY <1>9
  <1>12. \A p \in E : p \in 0 .. L - 1 /\ A[p] \in Bytes
    <2> SUFFICES ASSUME NEW p \in E PROVE p \in 0 .. L - 1 /\ A[p] \in Bytes
      OBVIOUS
    <2>1. CASE p \in D
      BY <1>6, <1>10, <2>1
    <2>2. CASE p \notin D
      <3>1. p \in pos .. pos + l - 1
        BY <1>9, <2>2
      <3>2. p - pos + 1 \in 1 .. Len(data) /\ p \in 0 .. L - 1
        BY <1>3, <1>4, <3>1
      <3>3. data[p - pos + 1] \in Bytes
        BY <1>3, <3>2
      <3>4. QED
        BY <1>11, <2>2, <3>1, <3>2, <3>3
    <2>3. QED
      BY <2>1, <2>2
  <1>13. HasArrived(r, stream)
    <2>1. DOMAIN r.arrived \subseteq 0 .. Len(stream) - 1
      BY <1>1, <1>8, <1>12
    <2>2. \A p \in DOMAIN r.arrived : r.arrived[p] \in Bytes
      BY <1>8, <1>12
    <2>3. r.arrived = [p \in DOMAIN r.arrived |-> r.arrived[p]]
      BY <1>8, <1>9
    <2>4. r.seen \in Seq(Bytes)
      BY <1>6
    <2>5. QED
      BY <2>1, <2>2, <2>3, <2>4 DEF HasArrived
  <1>14. \A p \in E : p < n + Window
    <2> SUFFICES ASSUME NEW p \in E PROVE p < n + Window
      OBVIOUS
    <2>1. CASE p \in D
      BY <1>7, <2>1
    <2>2. CASE p \notin D
      <3>1. p \in pos .. pos + l - 1
        BY <1>9, <2>2
      <3>2. QED
        BY <1>3, <1>4, <3>1
    <2>3. QED
      BY <2>1, <2>2
  <1>15. PICK F : F = r.buffer
    OBVIOUS
  <1>16. F = [i \in 0 .. Window - 1 |-> IF i \in at .. at + m - 1 THEN bytes[i - at + 1] ELSE B[i]]
    <2>1. B = [i \in 0 .. Window - 1 |-> B[i]]
      BY <1>1, InspectedIs DEF IsWindow
    <2>2. DOMAIN e.buffer = 0 .. Window - 1
      BY <1>1, <2>1
    <2>3. Filled(e, new).buffer =
            [i \in DOMAIN e.buffer |->
               IF i \in new.at .. new.at + Len(new.bytes) - 1 THEN new.bytes[i - new.at + 1]
               ELSE e.buffer[i]]
      <3>1. "buffer" \in DOMAIN e
        BY DEF IsFlow, FlowFields
      <3>2. QED
        BY <3>1 DEF Filled
    <2>4. QED
      BY <1>1, <1>15, <2>2, <2>3
  <1>17. ASSUME NEW i \in 0 .. Window - 1
         PROVE  F[i] = IF n + i \in E THEN A[n + i] ELSE None
    <2>1. i \in Nat /\ B[i] = IF n + i \in D THEN e.arrived[n + i] ELSE None
      BY <1>3, <1>5
    <2>2. CASE i \in at .. at + m - 1
      <3>1. PICK j : j = i - at + 1
        OBVIOUS
      <3>2. j \in 1 .. m /\ at + j - 1 = i /\ n + at + j - pos = (n + i) - pos + 1
        BY <1>3, <2>1, <2>2, <3>1
      <3>3. F[i] = bytes[j]
        BY <1>16, <2>2, <3>1
      <3>4. bytes[j] = data[(n + i) - pos + 1]
        BY <1>1, <1>2, <3>2
      <3>5. n + i \in pos .. pos + l - 1
        BY <1>3, <1>4, <2>1, <2>2
      <3>6. B[i] \in {None, bytes[j]}
        <4>1. \A x \in 1 .. m : B[at + x - 1] \in {None, bytes[x]}
          BY <1>1 DEF Conflicts
        <4>2. QED
          BY <3>2, <4>1
      <3>7. CASE n + i \in D
        <4>1. B[i] = e.arrived[n + i] /\ e.arrived[n + i] \in Bytes
          BY <1>6, <2>1, <3>7
        <4>2. None \notin Bytes
          BY LimitsAre DEF None, Bytes
        <4>3. bytes[j] = e.arrived[n + i]
          BY <3>6, <4>1, <4>2
        <4>4. QED
          BY <1>10, <3>3, <3>7, <4>3
      <3>8. CASE n + i \notin D
        BY <1>11, <3>3, <3>4, <3>5, <3>8
      <3>9. QED
        BY <3>7, <3>8
    <2>3. CASE i \notin at .. at + m - 1
      <3>1. F[i] = B[i]
        BY <1>16, <2>3
      <3>2. n + i \notin pos .. pos + l - 1
        BY <1>3, <1>4, <2>1, <2>3
      <3>3. CASE n + i \in D
        BY <1>10, <2>1, <3>1, <3>3
      <3>4. CASE n + i \notin D
        BY <1>9, <2>1, <3>1, <3>2, <3>4
      <3>5. QED
        BY <3>3, <3>4
    <2>4. QED
      BY <2>2, <2>3
  <1>18. Inspected(r, isn, stream)
    <2>1. Len(r.seen) = n /\ r.base = (isn + 1 + n) % Modulus
      BY <1>1, <1>7
    <2>2. \A i \in 1 .. n : i - 1 \in E /\ r.seen[i] = A[i - 1]
      BY <1>7, <1>10
    <2>3. F = [i \in 0 .. Window - 1 |-> F[i]]
      BY <1>16
    <2>4. F = [i \in 0 .. Window - 1 |-> IF n + i \in E THEN A[n + i] ELSE None]
      BY <1>17, <2>3
    <2>5. QED
      BY <1>8, <1>14, <1>15, <2>1, <2>2, <2>4 DEF Inspected
  <1>19. QED
    BY <1>13, <1>18

(* A prefix of the window is consumed. *)
Consumes(r, e, size) ==
  /\ r.base = (e.base + size) % Modulus /\ r.arrived = e.arrived
  /\ r.seen = e.seen \o SubSeq(Contiguous(e), 1, size)
  /\ r.buffer = [i \in DOMAIN Blank |->
                   IF i + size < Window THEN e.buffer[i + size] ELSE None]

LEMMA Consuming ==
  ASSUME NEW isn \in Nat, NEW stream, Len(stream) \in Nat, NEW e,
         HasArrived(e, stream), Inspected(e, isn, stream),
         NEW size \in 0 .. ContiguousSize(e), NEW r, Consumes(r, e, size)
  PROVE  HasArrived(r, stream) /\ Inspected(r, isn, stream)
  <1>0. /\ r.base = (e.base + size) % Modulus
        /\ r.seen = e.seen \o SubSeq(Contiguous(e), 1, size) /\ r.arrived = e.arrived
        /\ r.buffer = [i \in DOMAIN Blank |->
                         IF i + size < Window THEN e.buffer[i + size] ELSE None]
    BY DEF Consumes
  <1>1. PICK n, D, B, c : n = Len(e.seen) /\ D = DOMAIN e.arrived /\ B = e.buffer
          /\ c = ContiguousSize(e)
    OBVIOUS
  <1>2. n \in Nat /\ Window \in Nat \ {0} /\ IsWindow(B)
    BY <1>1, InspectedIs, LimitsAre
  <1>3. \A i \in 0 .. Window - 1 : B[i] = IF n + i \in D THEN e.arrived[n + i] ELSE None
    BY <1>1, InspectedIs
  <1>4. /\ c \in 0 .. Window /\ \A i \in 0 .. c - 1 : B[i] \in Bytes
        /\ Contiguous(e) \in Seq(Bytes) /\ Len(Contiguous(e)) = c
        /\ \A i \in 1 .. c : Contiguous(e)[i] = B[i - 1]
    BY <1>1, <1>2, ContiguousIs
  <1>5. size \in 0 .. c /\ size \in Nat /\ size <= Window
    BY <1>1, <1>2, <1>4
  <1>6. PICK front : front = SubSeq(Contiguous(e), 1, size)
    OBVIOUS
  <1>7. front \in Seq(Bytes) /\ Len(front) = size /\ \A i \in 1 .. size : front[i] = B[i - 1]
    <2>1. \A i \in 1 .. size : Contiguous(e)[i] \in Bytes
      BY <1>4, <1>5
    <2>2. /\ front \in Seq(Bytes) /\ Len(front) = IF 1 <= size THEN size - 1 + 1 ELSE 0
          /\ \A i \in 1 .. size - 1 + 1 : front[i] = Contiguous(e)[1 + i - 1]
      BY <1>5, <1>6, <2>1, SubSeqProperties
    <2>3. Len(front) = size
      BY <1>5, <2>2
    <2>4. ASSUME NEW i \in 1 .. size PROVE front[i] = B[i - 1]
      <3>1. i \in 1 .. size - 1 + 1 /\ 1 + i - 1 = i /\ i \in 1 .. c
        BY <1>2, <1>4, <1>5
      <3>2. QED
        BY <1>4, <2>2, <3>1
    <2>5. QED
      BY <2>2, <2>3, <2>4
  <1>8. e.seen \in Seq(Bytes)
    BY DEF HasArrived
  <1>9. PICK s, m : s = r.seen /\ m = n + size
    OBVIOUS
  <1>10. /\ s \in Seq(Bytes) /\ Len(s) = m /\ m \in Nat
         /\ \A i \in 1 .. m : s[i] = IF i <= n THEN e.seen[i] ELSE front[i - n]
    <2>1. PICK sn : sn = e.seen
      OBVIOUS
    <2>2. s = sn \o front /\ sn \in Seq(Bytes)
      BY <1>0, <1>6, <1>8, <1>9, <2>1
    <2>3. /\ s \in Seq(Bytes) /\ Len(s) = Len(sn) + Len(front)
          /\ \A i \in 1 .. Len(sn) + Len(front) :
               s[i] = IF i <= Len(sn) THEN sn[i] ELSE front[i - Len(sn)]
      BY <1>7, <2>2, ConcatProperties
    <2>4. Len(sn) = n /\ Len(front) = size /\ m \in Nat
      BY <1>1, <1>2, <1>5, <1>7, <1>9, <2>1
    <2>5. QED
      BY <1>9, <2>1, <2>3, <2>4
  <1>11. HasArrived(r, stream)
    BY <1>0, <1>9, <1>10 DEF HasArrived
  <1>12. r.base = (isn + 1 + m) % Modulus
    <2>1. e.base = (isn + 1 + n) % Modulus
      BY <1>1 DEF Inspected
    <2>2. (((isn + 1 + n) % Modulus) + size) % Modulus = (isn + 1 + (n + size)) % Modulus
      BY <1>2, <1>5, BaseAdvances
    <2>3. QED
      BY <1>0, <1>9, <2>1, <2>2
  <1>13. ASSUME NEW i \in 1 .. m PROVE i - 1 \in D /\ s[i] = e.arrived[i - 1]
    <2>1. CASE i <= n
      <3>1. i \in 1 .. n
        BY <1>2, <1>9, <2>1
      <3>2. i - 1 \in D /\ e.seen[i] = e.arrived[i - 1]
        BY <1>1, <3>1 DEF Inspected
      <3>3. QED
        BY <1>10, <2>1, <3>2
    <2>2. CASE ~(i <= n)
      <3>1. PICK j : j = i - n
        OBVIOUS
      <3>2. /\ j \in 1 .. size /\ j - 1 \in 0 .. c - 1 /\ j - 1 \in 0 .. Window - 1
            /\ n + (j - 1) = i - 1
        BY <1>2, <1>4, <1>5, <1>9, <2>2, <3>1
      <3>3. s[i] = B[j - 1] /\ B[j - 1] \in Bytes
        BY <1>4, <1>7, <1>10, <2>2, <3>1, <3>2
      <3>4. None \notin Bytes
        BY LimitsAre DEF None, Bytes
      <3>5. B[j - 1] = IF i - 1 \in D THEN e.arrived[i - 1] ELSE None
        BY <1>3, <3>2
      <3>6. QED
        BY <3>3, <3>4, <3>5
    <2>3. QED
      BY <2>1, <2>2
  <1>14. \A p \in D : p < m + Window
    <2>1. \A p \in D : p < n + Window /\ p \in Int
      BY <1>1 DEF Inspected, HasArrived
    <2>2. QED
      BY <1>2, <1>5, <1>9, <2>1
  <1>15. PICK F : F = r.buffer
    OBVIOUS
  <1>16. F = [i \in 0 .. Window - 1 |-> IF i + size < Window THEN B[i + size] ELSE None]
    BY <1>0, <1>1, <1>15 DEF Blank
  <1>17. ASSUME NEW i \in 0 .. Window - 1
         PROVE  F[i] = IF m + i \in D THEN e.arrived[m + i] ELSE None
    <2>1. CASE i + size < Window
      <3>1. i + size \in 0 .. Window - 1 /\ n + (i + size) = m + i
        BY <1>2, <1>5, <1>9, <2>1
      <3>2. F[i] = B[i + size]
        BY <1>16, <2>1
      <3>3. QED
        BY <1>3, <3>1, <3>2
    <2>2. CASE ~(i + size < Window)
      <3>1. F[i] = None
        BY <1>16, <2>2
      <3>2. ~(m + i < n + Window)
        BY <1>2, <1>5, <1>9, <2>2
      <3>3. m + i \notin D
        BY <1>1, <3>2 DEF Inspected
      <3>4. QED
        BY <3>1, <3>3
    <2>3. QED
      BY <2>1, <2>2
  <1>18. F = [i \in 0 .. Window - 1 |-> IF m + i \in D THEN e.arrived[m + i] ELSE None]
    <2>1. F = [i \in 0 .. Window - 1 |-> F[i]]
      BY <1>16
    <2>2. QED
      BY <1>17, <2>1
  <1>19. Inspected(r, isn, stream)
    BY <1>0, <1>1, <1>9, <1>10, <1>12, <1>13, <1>14, <1>15, <1>18 DEF Inspected
  <1>20. QED
    BY <1>11, <1>19

-----------------------------------------------------------------------------
(* Messages of what was emitted and of what follows *)

(* Parts of two sequences, one after the other. *)
LEMMA PartsOfConcat ==
  ASSUME NEW S \in Seq(Bytes), NEW C \in Seq(Bytes), NEW i \in Nat \ {0}, NEW j \in Nat
  PROVE  /\ j <= Len(S) => SubSeq(S \o C, i, j) = SubSeq(S, i, j)
         /\ j <= Len(C) => SubSeq(S \o C, Len(S) + i, Len(S) + j) = SubSeq(C, i, j)
  <1>1. PICK T, m, n : T = S \o C /\ m = Len(S) /\ n = Len(C)
    OBVIOUS
  <1>2. m \in Nat /\ n \in Nat /\ T \in Seq(Bytes) /\ Len(T) = m + n
    BY <1>1, ConcatProperties
  <1>3. \A x \in 1 .. m + n : T[x] = IF x <= m THEN S[x] ELSE C[x - m]
    BY <1>1, ConcatProperties
  <1>4. ASSUME j <= m PROVE SubSeq(T, i, j) = SubSeq(S, i, j)
    <2>1. \A x \in i .. j : T[x] = S[x] /\ S[x] \in Bytes
      <3> SUFFICES ASSUME NEW x \in i .. j PROVE T[x] = S[x] /\ S[x] \in Bytes
        OBVIOUS
      <3>1. x \in 1 .. m + n /\ x <= m /\ x \in 1 .. Len(S)
        BY <1>1, <1>2, <1>4
      <3>2. QED
        BY <1>3, <3>1
    <2>2. PICK a, b : a = SubSeq(T, i, j) /\ b = SubSeq(S, i, j)
      OBVIOUS
    <2>3. /\ a \in Seq(Bytes) /\ Len(a) = IF i <= j THEN j - i + 1 ELSE 0
          /\ \A x \in 1 .. j - i + 1 : a[x] = T[i + x - 1]
      BY <2>1, <2>2, SubSeqProperties
    <2>4. /\ b \in Seq(Bytes) /\ Len(b) = IF i <= j THEN j - i + 1 ELSE 0
          /\ \A x \in 1 .. j - i + 1 : b[x] = S[i + x - 1]
      BY <2>1, <2>2, SubSeqProperties
    <2>5. ASSUME NEW x \in 1 .. Len(a) PROVE a[x] = b[x]
      <3>1. x \in 1 .. j - i + 1 /\ i + x - 1 \in i .. j
        BY <2>3
      <3>2. QED
        BY <2>1, <2>3, <2>4, <3>1
    <2>6. QED
      BY <2>2, <2>3, <2>4, <2>5, SeqEqual
  <1>5. ASSUME j <= n PROVE SubSeq(T, m + i, m + j) = SubSeq(C, i, j)
    <2>1. \A x \in i .. j : T[m + x] = C[x] /\ C[x] \in Bytes
      <3> SUFFICES ASSUME NEW x \in i .. j PROVE T[m + x] = C[x] /\ C[x] \in Bytes
        OBVIOUS
      <3>1. m + x \in 1 .. m + n /\ ~(m + x <= m) /\ (m + x) - m = x /\ x \in 1 .. Len(C)
        BY <1>1, <1>2, <1>5
      <3>2. QED
        BY <1>3, <3>1
    <2>2. \A x \in m + i .. m + j : T[x] \in Bytes
      <3> SUFFICES ASSUME NEW x \in m + i .. m + j PROVE T[x] \in Bytes
        OBVIOUS
      <3>1. x - m \in i .. j /\ m + (x - m) = x
        BY <1>2
      <3>2. QED
        BY <2>1, <3>1
    <2>3. PICK a, b, p, q : a = SubSeq(T, m + i, m + j) /\ b = SubSeq(C, i, j)
                            /\ p = m + i /\ q = m + j
      OBVIOUS
    <2>4. p \in Int /\ q \in Int /\ q - p + 1 = j - i + 1 /\ (p <= q <=> i <= j)
      BY <1>2, <2>3
    <2>5. /\ a \in Seq(Bytes) /\ Len(a) = IF p <= q THEN q - p + 1 ELSE 0
          /\ \A x \in 1 .. q - p + 1 : a[x] = T[p + x - 1]
      BY <2>2, <2>3, <2>4, SubSeqProperties
    <2>6. /\ b \in Seq(Bytes) /\ Len(b) = IF i <= j THEN j - i + 1 ELSE 0
          /\ \A x \in 1 .. j - i + 1 : b[x] = C[i + x - 1]
      BY <2>1, <2>3, SubSeqProperties
    <2>7. ASSUME NEW x \in 1 .. Len(a) PROVE a[x] = b[x]
      <3>1. x \in 1 .. j - i + 1 /\ x \in 1 .. q - p + 1
        BY <2>4, <2>5
      <3>2. i + x - 1 \in i .. j /\ p + x - 1 = m + (i + x - 1)
        BY <1>2, <2>3, <3>1
      <3>3. QED
        BY <2>1, <2>5, <2>6, <3>1, <3>2
    <2>8. Len(a) = Len(b)
      BY <2>4, <2>5, <2>6
    <2>9. QED
      BY <2>3, <2>5, <2>6, <2>7, <2>8, SeqEqual
  <1>6. QED
    BY <1>1, <1>4, <1>5

(* The messages of a prefix, and of what follows it. *)
LEMMA StopsOfConcat ==
  ASSUME NEW S \in Seq(Bytes), NEW C \in Seq(Bytes)
  PROVE  LET T == S \o C
         IN /\ \A c \in 0 .. Len(S) :
                 ~Stops(S, c) => ~Stops(T, c) /\ After(T, c) = After(S, c)
            /\ \A c \in 0 .. Len(C) :
                 /\ Stops(T, Len(S) + c) <=> Stops(C, c)
                 /\ ~Stops(C, c) => After(T, Len(S) + c) = Len(S) + After(C, c)
  <1>1. PICK T, m, n : T = S \o C /\ m = Len(S) /\ n = Len(C)
    OBVIOUS
  <1>2. m \in Nat /\ n \in Nat /\ T \in Seq(Bytes) /\ Len(T) = m + n
    BY <1>1, ConcatProperties
  <1>3. \A x \in 1 .. m + n : T[x] = IF x <= m THEN S[x] ELSE C[x - m]
    BY <1>1, ConcatProperties
  <1>4. ASSUME NEW c \in 0 .. m, ~Stops(S, c)
        PROVE  ~Stops(T, c) /\ After(T, c) = After(S, c)
    <2>1. SizeAt(S, c) \in Nat /\ c + 2 <= m
      BY <1>1, <1>4, AfterIs
    <2>2. c + 1 \in 1 .. m + n /\ c + 2 \in 1 .. m + n /\ c + 1 <= m
      BY <1>2, <2>1
    <2>3. T[c + 1] = S[c + 1] /\ T[c + 2] = S[c + 2]
      BY <1>3, <2>1, <2>2
    <2>4. SizeAt(T, c) = SizeAt(S, c)
      BY <2>3 DEF SizeAt
    <2>5. PICK size \in Nat : size = SizeAt(S, c)
      BY <2>1
    <2>6. ~BadSize(size) /\ ~(m - c < 2 + size)
      BY <1>1, <1>4, <2>5 DEF Stops
    <2>7. ~((m + n) - c < 2) /\ ~((m + n) - c < 2 + size)
      BY <1>2, <2>1, <2>5, <2>6
    <2>8. QED
      BY <1>2, <2>4, <2>5, <2>6, <2>7 DEF Stops, After
  <1>5. ASSUME NEW c \in 0 .. n
        PROVE  /\ Stops(T, m + c) <=> Stops(C, c)
               /\ ~Stops(C, c) => After(T, m + c) = m + After(C, c)
    <2>1. (m + n) - (m + c) = n - c
      BY <1>2
    <2>2. CASE n - c < 2
      BY <1>1, <1>2, <2>1, <2>2 DEF Stops
    <2>3. CASE ~(n - c < 2)
      <3>1. /\ m + c + 1 \in 1 .. m + n /\ m + c + 2 \in 1 .. m + n
            /\ ~(m + c + 1 <= m) /\ ~(m + c + 2 <= m)
            /\ m + c + 1 - m = c + 1 /\ m + c + 2 - m = c + 2
        BY <1>2, <2>3
      <3>2. T[m + c + 1] = C[c + 1] /\ T[m + c + 2] = C[c + 2]
        <4>1. PICK x, y : x = m + c + 1 /\ y = m + c + 2
          OBVIOUS
        <4>2. /\ x \in 1 .. m + n /\ ~(x <= m) /\ x - m = c + 1
              /\ y \in 1 .. m + n /\ ~(y <= m) /\ y - m = c + 2
          BY <1>2, <2>3, <4>1
        <4>3. T[x] = C[c + 1] /\ T[y] = C[c + 2]
          BY <1>3, <4>2
        <4>4. QED
          BY <4>1, <4>3
      <3>3. SizeAt(T, m + c) = SizeAt(C, c)
        BY <3>2 DEF SizeAt
      <3>4. Stops(T, m + c) <=> Stops(C, c)
        BY <1>1, <1>2, <2>1, <3>3 DEF Stops
      <3>5. ASSUME ~Stops(C, c) PROVE After(T, m + c) = m + After(C, c)
        <4>1. SizeAt(C, c) \in Nat
          BY <1>1, <3>5, AfterIs
        <4>2. PICK size \in Nat : size = SizeAt(C, c)
          BY <4>1
        <4>3. m + c + 2 + size = m + (c + 2 + size)
          BY <1>2
        <4>4. QED
          BY <3>3, <4>2, <4>3 DEF After
      <3>6. QED
        BY <3>4, <3>5
    <2>4. QED
      BY <2>2, <2>3
  <1>6. /\ \A c \in 0 .. Len(S) :
             ~Stops(S, c) => ~Stops(T, c) /\ After(T, c) = After(S, c)
        /\ \A c \in 0 .. Len(C) :
             /\ Stops(T, Len(S) + c) <=> Stops(C, c)
             /\ ~Stops(C, c) => After(T, Len(S) + c) = Len(S) + After(C, c)
    BY <1>1, <1>4, <1>5
  <1>7. QED
    BY <1>1, <1>6, Zenon

(* After whole messages the messages go on with those of what follows. *)
LEMMA StartsOfConcat ==
  ASSUME NEW S \in Seq(Bytes), NEW C \in Seq(Bytes), WholeMessages(S)
  PROVE  LET a == Starts(S)
             b == Starts(C)
             x == Starts(S \o C)
         IN /\ Len(a) \in Nat \ {0} /\ Len(b) \in Nat \ {0} /\ Len(x) = Len(a) + Len(b) - 1
            /\ \A i \in 1 .. Len(a) : x[i] = a[i]
            /\ \A i \in 1 .. Len(b) : x[Len(a) + i - 1] = Len(S) + b[i]
            /\ \A i \in 1 .. Len(a) : a[i] \in 0 .. Len(S)
            /\ \A i \in 1 .. Len(b) : b[i] \in 0 .. Len(C)
  <1>0. PICK T, a, b, x : T = S \o C /\ a = Starts(S) /\ b = Starts(C) /\ x = Starts(T)
    OBVIOUS
  <1>1. PICK m, n, p, q : m = Len(S) /\ n = Len(C) /\ p = Len(a) /\ q = Len(b)
    OBVIOUS
  <1>2. m \in Nat /\ n \in Nat /\ T \in Seq(Bytes) /\ Len(T) = m + n
    BY <1>0, <1>1, ConcatProperties
  <1>3. /\ a \in Seq(0 .. m) /\ p \in Nat /\ p >= 1 /\ a[1] = 0 /\ a[p] = m
        /\ \A i \in 1 .. p - 1 : ~Stops(S, a[i]) /\ a[i + 1] = After(S, a[i])
    <2>1. Chain(S, a)
      BY <1>0, StartsChain
    <2>2. /\ a \in Seq(0 .. Len(S)) /\ Len(a) >= 1 /\ a[1] = 0
          /\ \A i \in 1 .. Len(a) - 1 : ~Stops(S, a[i]) /\ a[i + 1] = After(S, a[i])
      BY <2>1 DEF Chain
    <2>3. a[Len(a)] = Len(S)
      BY <1>0 DEF WholeMessages, Last
    <2>4. QED
      BY <1>1, <2>2, <2>3
  <1>4. /\ b \in Seq(0 .. n) /\ q \in Nat /\ q >= 1 /\ b[1] = 0
        /\ \A i \in 1 .. q - 1 : ~Stops(C, b[i]) /\ b[i + 1] = After(C, b[i])
        /\ Stops(C, b[q])
    <2>1. Chain(C, b)
      BY <1>0, StartsChain
    <2>2. /\ b \in Seq(0 .. Len(C)) /\ Len(b) >= 1 /\ b[1] = 0
          /\ \A i \in 1 .. Len(b) - 1 : ~Stops(C, b[i]) /\ b[i + 1] = After(C, b[i])
          /\ Stops(C, b[Len(b)])
      BY <2>1 DEF Chain
    <2>3. QED
      BY <1>1, <2>2
  <1>5. \A i \in 1 .. p : a[i] \in 0 .. m
    BY <1>1, <1>3
  <1>6. \A i \in 1 .. q : b[i] \in 0 .. n
    BY <1>1, <1>4
  <1>7. PICK y : y = [i \in 1 .. p + q - 1 |-> IF i <= p THEN a[i] ELSE m + b[i - p + 1]]
    OBVIOUS
  <1>8. p + q - 1 \in Nat /\ p + q - 1 >= 1
    BY <1>3, <1>4
  <1>9. \A i \in 1 .. p : y[i] = a[i]
    BY <1>3, <1>4, <1>7
  <1>10. ASSUME NEW i \in 1 .. q PROVE y[p + i - 1] = m + b[i]
    <2>1. PICK j : j = p + i - 1
      OBVIOUS
    <2>2. j \in 1 .. p + q - 1 /\ (j <= p <=> i = 1) /\ j - p + 1 = i /\ (i = 1 => j = p)
      BY <1>3, <1>4, <2>1
    <2>3. CASE i = 1
      <3>1. y[j] = a[p] /\ b[i] = 0
        BY <1>4, <1>7, <2>2, <2>3
      <3>2. QED
        BY <1>2, <1>3, <2>1, <3>1
    <2>4. CASE i # 1
      BY <1>7, <2>1, <2>2, <2>4
    <2>5. QED
      BY <2>3, <2>4
  <1>11. ASSUME NEW i \in 1 .. p + q - 1 PROVE y[i] \in 0 .. m + n
    <2>1. CASE i <= p
      <3>1. i \in 1 .. p
        BY <1>3, <2>1
      <3>2. QED
        BY <1>2, <1>5, <1>9, <3>1
    <2>2. CASE ~(i <= p)
      <3>1. PICK j : j = i - p + 1
        OBVIOUS
      <3>2. j \in 1 .. q /\ y[i] = m + b[j]
        BY <1>3, <1>4, <1>7, <2>2, <3>1
      <3>3. QED
        BY <1>2, <1>6, <3>2
    <2>3. QED
      BY <2>1, <2>2
  <1>12. y \in Seq(0 .. m + n) /\ Len(y) = p + q - 1
    <2>1. PICK N : N = p + q - 1
      OBVIOUS
    <2>2. N \in Nat /\ y = [i \in 1 .. N |-> y[i]] /\ \A i \in 1 .. N : y[i] \in 0 .. m + n
      BY <1>7, <1>8, <1>11, <2>1
    <2>3. y \in [1 .. N -> 0 .. m + n]
      BY <2>2
    <2>4. y \in Seq(0 .. m + n) /\ Len(y) = N
      BY <2>2, <2>3
    <2>5. QED
      BY <2>1, <2>4
  <1>13. ASSUME NEW i \in 1 .. (p + q - 1) - 1
         PROVE  ~Stops(T, y[i]) /\ y[i + 1] = After(T, y[i])
    <2>1. CASE i < p
      <3>1. i \in 1 .. p - 1 /\ i \in 1 .. p /\ i + 1 \in 1 .. p
        BY <1>3, <2>1
      <3>2. y[i] = a[i] /\ y[i + 1] = a[i + 1] /\ a[i] \in 0 .. m
        BY <1>5, <1>9, <3>1
      <3>3. ~Stops(S, a[i]) /\ a[i + 1] = After(S, a[i])
        BY <1>3, <3>1
      <3>4. ~Stops(T, a[i]) /\ After(T, a[i]) = After(S, a[i])
        BY <1>1, <3>2, <3>3, StopsOfConcat, <1>0
      <3>5. QED
        BY <3>2, <3>3, <3>4
    <2>2. CASE ~(i < p)
      <3>1. PICK j : j = i - p + 1
        OBVIOUS
      <3>2. /\ j \in 1 .. q - 1 /\ j \in 1 .. q /\ j + 1 \in 1 .. q
            /\ p + j - 1 = i /\ p + (j + 1) - 1 = i + 1
        BY <1>3, <1>4, <2>2, <3>1
      <3>3. y[i] = m + b[j] /\ y[i + 1] = m + b[j + 1] /\ b[j] \in 0 .. n
        BY <1>6, <1>10, <3>2
      <3>4. ~Stops(C, b[j]) /\ b[j + 1] = After(C, b[j])
        BY <1>4, <3>2
      <3>5. ~Stops(T, m + b[j]) /\ After(T, m + b[j]) = m + After(C, b[j])
        BY <1>1, <3>3, <3>4, StopsOfConcat, <1>0
      <3>6. QED
        BY <3>3, <3>4, <3>5
    <2>3. QED
      BY <2>1, <2>2
  <1>14. y[1] = 0
    <2>1. 1 \in 1 .. p
      BY <1>3
    <2>2. QED
      BY <1>3, <1>9, <2>1
  <1>15. Stops(T, y[p + q - 1])
    <2>1. q \in 1 .. q
      BY <1>4
    <2>2. y[p + q - 1] = m + b[q] /\ b[q] \in 0 .. n
      BY <1>6, <1>10, <2>1
    <2>3. \A c \in 0 .. n : Stops(T, m + c) <=> Stops(C, c)
      BY <1>1, StopsOfConcat, <1>0
    <2>4. QED
      BY <1>4, <2>2, <2>3
  <1>16. Chain(T, y)
    BY <1>2, <1>8, <1>12, <1>13, <1>14, <1>15 DEF Chain
  <1>17. y = x
    BY <1>0, <1>2, <1>16, ChainIsStarts
  <1>18. QED
    <2>1. /\ Len(a) \in Nat \ {0} /\ Len(b) \in Nat \ {0} /\ Len(x) = Len(a) + Len(b) - 1
          /\ \A i \in 1 .. Len(a) : x[i] = a[i]
          /\ \A i \in 1 .. Len(b) : x[Len(a) + i - 1] = Len(S) + b[i]
          /\ \A i \in 1 .. Len(a) : a[i] \in 0 .. Len(S)
          /\ \A i \in 1 .. Len(b) : b[i] \in 0 .. Len(C)
      BY <1>1, <1>3, <1>4, <1>5, <1>6, <1>9, <1>10, <1>12, <1>17
    <2>2. QED
      BY <1>0, <2>1, Zenon

LEMMA BodiesAre ==
  ASSUME NEW bytes, NEW a, a = Starts(bytes)
  PROVE  Bodies(bytes) = [i \in 1 .. Len(a) - 1 |-> SubSeq(bytes, a[i] + 3, a[i + 1])]
  BY DEF Bodies

(* What follows whole messages adds its messages to theirs. *)
LEMMA CleanConcat ==
  ASSUME NEW S \in Seq(Bytes), NEW C \in Seq(Bytes), WholeMessages(S), Clean(S, "dns"),
         \A i \in DOMAIN Bodies(C) : ~Refused(Bodies(C)[i])
  PROVE  /\ Clean(S \o C, "dns")
         /\ WholeMessages(C) => WholeMessages(S \o C)
  <1>1. PICK T, a, b, x : T = S \o C /\ a = Starts(S) /\ b = Starts(C) /\ x = Starts(T)
    OBVIOUS
  <1>2. PICK m, n, p, q : m = Len(S) /\ n = Len(C) /\ p = Len(a) /\ q = Len(b)
    OBVIOUS
  <1>3. /\ p \in Nat \ {0} /\ q \in Nat \ {0} /\ Len(x) = p + q - 1
        /\ \A i \in 1 .. p : x[i] = a[i]
        /\ \A i \in 1 .. q : x[p + i - 1] = m + b[i]
        /\ \A i \in 1 .. p : a[i] \in 0 .. m
        /\ \A i \in 1 .. q : b[i] \in 0 .. n
    <2>1. /\ Len(a) \in Nat \ {0} /\ Len(b) \in Nat \ {0} /\ Len(x) = Len(a) + Len(b) - 1
          /\ \A i \in 1 .. Len(a) : x[i] = a[i]
          /\ \A i \in 1 .. Len(b) : x[Len(a) + i - 1] = Len(S) + b[i]
          /\ \A i \in 1 .. Len(a) : a[i] \in 0 .. Len(S)
          /\ \A i \in 1 .. Len(b) : b[i] \in 0 .. Len(C)
      BY <1>1, StartsOfConcat, Zenon
    <2>2. QED
      BY <1>2, <2>1
  <1>4. m \in Nat /\ n \in Nat
    BY <1>2
  <1>5. Bodies(T) = [i \in 1 .. Len(x) - 1 |-> SubSeq(T, x[i] + 3, x[i + 1])]
    BY <1>1 DEF Bodies
  <1>6. Bodies(S) = [i \in 1 .. p - 1 |-> SubSeq(S, a[i] + 3, a[i + 1])]
    BY <1>1, <1>2 DEF Bodies
  <1>7. Bodies(C) = [i \in 1 .. q - 1 |-> SubSeq(C, b[i] + 3, b[i + 1])]
    BY <1>1, <1>2 DEF Bodies
  <1>8. \A i \in 1 .. p - 1 : ~Refused(Bodies(S)[i])
    BY <1>6 DEF Clean
  <1>9. \A i \in 1 .. q - 1 : ~Refused(Bodies(C)[i])
    BY <1>7
  <1>10. ASSUME NEW i \in 1 .. Len(x) - 1 PROVE ~Refused(Bodies(T)[i])
    <2>1. CASE i < p
      <3>1. i \in 1 .. p - 1 /\ i \in 1 .. p /\ i + 1 \in 1 .. p
        BY <1>3, <2>1
      <3>2. PICK u, v : u = a[i] + 3 /\ v = a[i + 1]
        OBVIOUS
      <3>3. u \in Nat \ {0} /\ v \in Nat /\ v <= m
        BY <1>3, <1>4, <3>1, <3>2
      <3>4. SubSeq(T, u, v) = SubSeq(S, u, v)
        BY <1>1, <1>2, <3>3, PartsOfConcat
      <3>5. Bodies(T)[i] = SubSeq(T, u, v)
        BY <1>3, <1>5, <3>1, <3>2
      <3>6. Bodies(S)[i] = SubSeq(S, u, v)
        BY <1>6, <3>1, <3>2
      <3>7. QED
        BY <1>8, <3>1, <3>4, <3>5, <3>6
    <2>2. CASE ~(i < p)
      <3>1. PICK j : j = i - p + 1
        OBVIOUS
      <3>2. /\ j \in 1 .. q - 1 /\ j \in 1 .. q /\ j + 1 \in 1 .. q
            /\ p + j - 1 = i /\ p + (j + 1) - 1 = i + 1
        BY <1>3, <2>2, <3>1
      <3>3. PICK u, v : u = b[j] + 3 /\ v = b[j + 1]
        OBVIOUS
      <3>4. u \in Nat \ {0} /\ v \in Nat /\ v <= n
        <4>1. b[j] \in 0 .. n /\ b[j + 1] \in 0 .. n
          BY <1>3, <3>2
        <4>2. QED
          BY <1>4, <3>3, <4>1
      <3>5. x[i] = m + b[j] /\ x[i + 1] = m + v /\ b[j] \in 0 .. n
        BY <1>3, <3>2, <3>3
      <3>6. x[i] + 3 = m + u
        BY <1>4, <3>3, <3>5
      <3>7. SubSeq(T, m + u, m + v) = SubSeq(C, u, v)
        BY <1>1, <1>2, <3>4, PartsOfConcat
      <3>8. Bodies(T)[i] = SubSeq(T, m + u, m + v)
        BY <1>5, <3>5, <3>6
      <3>9. Bodies(C)[j] = SubSeq(C, u, v)
        BY <1>7, <3>2, <3>3
      <3>10. QED
        BY <1>9, <3>2, <3>7, <3>8, <3>9
    <2>3. QED
      BY <2>1, <2>2
  <1>11. Clean(T, "dns")
    <2>1. DOMAIN Bodies(T) = 1 .. Len(x) - 1
      BY <1>5
    <2>2. QED
      BY <1>10, <2>1 DEF Clean
  <1>12. ASSUME WholeMessages(C) PROVE WholeMessages(T)
    <2>1. b[q] = n
      BY <1>1, <1>2, <1>12 DEF WholeMessages, Last
    <2>2. q \in 1 .. q
      BY <1>3
    <2>3. x[Len(x)] = m + n
      BY <1>3, <2>1, <2>2
    <2>4. Len(T) = m + n
      BY <1>1, <1>2, ConcatProperties
    <2>5. QED
      BY <1>1, <2>3, <2>4 DEF WholeMessages, Last
  <1>13. QED
    BY <1>1, <1>11, <1>12

(* Where no message begins there are none. *)
LEMMA NoBodies ==
  ASSUME NEW bytes \in Seq(Bytes), Stops(bytes, 0)
  PROVE  Starts(bytes) = <<0>> /\ Bodies(bytes) = <<>> /\ Last(Starts(bytes)) = 0
  <1>1. Len(bytes) \in Nat /\ 0 \in 0 .. Len(bytes)
    OBVIOUS
  <1>2. PICK a : a = <<0>>
    OBVIOUS
  <1>3. a \in Seq(0 .. Len(bytes)) /\ Len(a) = 1 /\ a[1] = 0
    BY <1>1, <1>2
  <1>4. Chain(bytes, a)
    BY <1>3 DEF Chain
  <1>5. a = Starts(bytes)
    BY <1>4, ChainIsStarts
  <1>6. Bodies(bytes) = [i \in 1 .. Len(a) - 1 |-> SubSeq(bytes, a[i] + 3, a[i + 1])]
    BY <1>5, BodiesAre
  <1>7. Len(a) - 1 = 0
    BY <1>3
  <1>8. Bodies(bytes) = <<>>
    <2>1. PICK w : w = Bodies(bytes)
      OBVIOUS
    <2>2. DOMAIN w = 1 .. 0 /\ w = [i \in 1 .. 0 |-> w[i]]
      BY <1>6, <1>7, <2>1
    <2>3. w \in [1 .. 0 -> Nat]
      BY <2>2
    <2>4. w \in Seq(Nat) /\ Len(w) = 0
      BY <2>3
    <2>5. w = <<>>
      BY <2>4
    <2>6. QED
      BY <2>1, <2>5
  <1>9. Last(a) = 0
    BY <1>3 DEF Last
  <1>10. QED
    BY <1>2, <1>5, <1>8, <1>9

(* A sequence is cut in two. *)
LEMMA SplitAt ==
  ASSUME NEW bytes \in Seq(Bytes), NEW size \in 0 .. Len(bytes)
  PROVE  LET front == SubSeq(bytes, 1, size)
             rest  == SubSeq(bytes, size + 1, Len(bytes))
         IN /\ front \in Seq(Bytes) /\ Len(front) = size
            /\ rest \in Seq(Bytes) /\ Len(rest) = Len(bytes) - size
            /\ \A i \in 1 .. size : front[i] = bytes[i]
            /\ \A i \in 1 .. Len(bytes) - size : rest[i] = bytes[size + i]
            /\ bytes = front \o rest
  <1>1. PICK L, front, rest, z : L = Len(bytes) /\ front = SubSeq(bytes, 1, size)
          /\ z = size + 1 /\ rest = SubSeq(bytes, z, L)
    OBVIOUS
  <1>2. L \in Nat /\ size \in Nat /\ z \in Int /\ size <= L /\ z = size + 1
    BY <1>1
  <1>3. /\ \A i \in 1 .. size : bytes[i] \in Bytes
        /\ \A i \in z .. L : bytes[i] \in Bytes
    BY <1>1, <1>2
  <1>4. /\ front \in Seq(Bytes) /\ Len(front) = IF 1 <= size THEN size - 1 + 1 ELSE 0
        /\ \A i \in 1 .. size - 1 + 1 : front[i] = bytes[1 + i - 1]
    <2>1. 1 \in Int /\ size \in Int
      BY <1>2
    <2>2. QED
      BY <1>1, <1>3, <2>1, SubSeqProperties
  <1>5. /\ rest \in Seq(Bytes) /\ Len(rest) = IF z <= L THEN L - z + 1 ELSE 0
        /\ \A i \in 1 .. L - z + 1 : rest[i] = bytes[z + i - 1]
    <2>1. z \in Int /\ L \in Int
      BY <1>2
    <2>2. QED
      BY <1>1, <1>3, <2>1, SubSeqProperties
  <1>6. Len(front) = size /\ \A i \in 1 .. size : front[i] = bytes[i]
    <2>1. Len(front) = size
      BY <1>2, <1>4
    <2>2. \A i \in 1 .. size : i \in 1 .. size - 1 + 1 /\ 1 + i - 1 = i
      BY <1>2
    <2>3. QED
      BY <1>4, <2>1, <2>2
  <1>7. Len(rest) = L - size /\ \A i \in 1 .. L - size : rest[i] = bytes[size + i]
    <2>1. Len(rest) = L - size
      BY <1>2, <1>5
    <2>2. \A i \in 1 .. L - size : i \in 1 .. L - z + 1 /\ z + i - 1 = size + i
      BY <1>2
    <2>3. QED
      BY <1>5, <2>1, <2>2
  <1>8. front \in Seq(Bytes) /\ rest \in Seq(Bytes)
    BY <1>4, <1>5
  <1>9. PICK T : T = front \o rest
    OBVIOUS
  <1>10. /\ T \in Seq(Bytes) /\ Len(T) = Len(front) + Len(rest)
         /\ \A i \in 1 .. Len(front) + Len(rest) :
              T[i] = IF i <= Len(front) THEN front[i] ELSE rest[i - Len(front)]
    BY <1>8, <1>9, ConcatProperties
  <1>11. Len(front) + Len(rest) = L
    BY <1>2, <1>6, <1>7
  <1>12. Len(T) = L /\ \A i \in 1 .. L : T[i] = IF i <= size THEN front[i] ELSE rest[i - size]
    BY <1>6, <1>10, <1>11
  <1>13. ASSUME NEW i \in 1 .. L PROVE T[i] = bytes[i]
    <2>1. CASE i <= size
      <3>1. i \in 1 .. size
        BY <1>2, <2>1
      <3>2. QED
        BY <1>6, <1>12, <2>1, <3>1
    <2>2. CASE ~(i <= size)
      <3>1. i - size \in 1 .. L - size /\ size + (i - size) = i
        BY <1>2, <2>2
      <3>2. QED
        BY <1>7, <1>12, <2>2, <3>1
    <2>3. QED
      BY <2>1, <2>2
  <1>14. T = bytes
    BY <1>1, <1>10, <1>12, <1>13, SeqEqual
  <1>15. bytes = front \o rest
    BY <1>9, <1>14
  <1>16. QED
    BY <1>1, <1>6, <1>7, <1>8, <1>15, Zenon

(* What is taken out of the window is whole messages; none begins the rest. *)
LEMMA FrontIsWhole ==
  ASSUME NEW bytes \in Seq(Bytes), NEW size, size = Last(Starts(bytes)),
         NEW front \in Seq(Bytes), Len(front) = size,
         NEW rest \in Seq(Bytes), Len(rest) = Len(bytes) - size,
         \A i \in 1 .. size : front[i] = bytes[i],
         \A i \in 1 .. Len(bytes) - size : rest[i] = bytes[size + i]
  PROVE  WholeMessages(front) /\ Stops(rest, 0)
  <1>1. PICK a, L : a = Starts(bytes) /\ L = Len(bytes)
    OBVIOUS
  <1>2. PICK m : m = Len(a)
    OBVIOUS
  <1>3. /\ a \in Seq(0 .. L) /\ m \in Nat /\ m >= 1 /\ a[1] = 0 /\ L \in Nat
        /\ \A i \in 1 .. m - 1 : ~Stops(bytes, a[i]) /\ a[i + 1] = After(bytes, a[i])
        /\ Stops(bytes, a[m]) /\ a[m] = size
    <2>1. Chain(bytes, a)
      BY <1>1, StartsChain
    <2>2. /\ a \in Seq(0 .. Len(bytes)) /\ Len(a) >= 1 /\ a[1] = 0
          /\ \A i \in 1 .. Len(a) - 1 : ~Stops(bytes, a[i]) /\ a[i + 1] = After(bytes, a[i])
          /\ Stops(bytes, a[Len(a)])
      BY <2>1 DEF Chain
    <2>3. a[Len(a)] = size
      BY <1>1 DEF Last
    <2>4. QED
      BY <1>1, <1>2, <2>2, <2>3
  <1>4. \A i \in 1 .. m : a[i] \in 0 .. L
    BY <1>2, <1>3
  <1>5. size \in 0 .. L /\ size \in Nat
    BY <1>3, <1>4
  <1>6. \A i \in 1 .. m - 1 : a[i] + 2 <= a[i + 1]
    <2> SUFFICES ASSUME NEW i \in 1 .. m - 1 PROVE a[i] + 2 <= a[i + 1]
      OBVIOUS
    <2>1. i \in 1 .. m /\ a[i] \in 0 .. L
      BY <1>3, <1>4
    <2>2. After(bytes, a[i]) \in a[i] + 2 .. L
      BY <1>1, <1>3, <2>1, AfterIs
    <2>3. QED
      BY <1>3, <2>1, <2>2
  <1>7. \A i \in 1 .. m : a[i] <= size
    <2> SUFFICES ASSUME NEW i0 \in 1 .. m, ~(a[i0] <= size) PROVE FALSE
      OBVIOUS
    <2>1. PICK N : N = {j \in 0 .. m - 1 : ~(a[m - j] <= size)}
      OBVIOUS
    <2>2. m - i0 \in 0 .. m - 1 /\ m - (m - i0) = i0
      BY <1>3
    <2>3. N \in SUBSET Nat /\ m - i0 \in N
      BY <2>1, <2>2
    <2>4. PICK j \in N : \A h \in N : j <= h
      BY <2>3, LeastNumber
    <2>5. j \in 0 .. m - 1 /\ ~(a[m - j] <= size)
      BY <2>1
    <2>6. j # 0
      BY <1>3, <1>5, <2>5
    <2>7. PICK i : i = m - j
      OBVIOUS
    <2>8. i \in 1 .. m - 1 /\ i + 1 = m - (j - 1) /\ j - 1 \in 0 .. m - 1 /\ ~(j <= j - 1)
          /\ i \in 1 .. m /\ i + 1 \in 1 .. m
      BY <1>3, <2>5, <2>6, <2>7
    <2>9. j - 1 \notin N
      BY <2>4, <2>8
    <2>10. a[i + 1] <= size
      BY <2>1, <2>8, <2>9
    <2>11. a[i] \in 0 .. L /\ a[i + 1] \in 0 .. L /\ a[i] + 2 <= a[i + 1] /\ ~(a[i] <= size)
      BY <1>4, <1>6, <2>5, <2>7, <2>8
    <2>12. QED
      <3>1. PICK u, v : u = a[i] /\ v = a[i + 1]
        OBVIOUS
      <3>2. u \in 0 .. L /\ v \in 0 .. L /\ u + 2 <= v /\ ~(u <= size) /\ v <= size
        BY <2>10, <2>11, <3>1
      <3>3. QED
        BY <1>3, <1>5, <3>2
  <1>9. ASSUME NEW i \in 1 .. m - 1
        PROVE  ~Stops(front, a[i]) /\ a[i + 1] = After(front, a[i])
    <2>1. PICK c : c = a[i]
      OBVIOUS
    <2>2. i \in 1 .. m /\ i + 1 \in 1 .. m
      BY <1>3
    <2>3. c \in 0 .. L /\ c + 2 <= a[i + 1] /\ a[i + 1] <= size /\ a[i + 1] \in 0 .. L
      BY <1>4, <1>6, <1>7, <2>1, <2>2
    <2>4. c \in Nat /\ c + 2 <= size
      BY <1>3, <1>5, <2>3
    <2>5. ~Stops(bytes, c) /\ a[i + 1] = After(bytes, c)
      BY <1>3, <2>1
    <2>6. front[c + 1] = bytes[c + 1] /\ front[c + 2] = bytes[c + 2]
      <3>1. c + 1 \in 1 .. size /\ c + 2 \in 1 .. size
        BY <1>5, <2>4
      <3>2. QED
        BY <3>1
    <2>7. SizeAt(front, c) = SizeAt(bytes, c)
      BY <2>6 DEF SizeAt
    <2>8. SizeAt(bytes, c) \in Nat
      BY <1>1, <2>3, <2>5, AfterIs
    <2>9. PICK z \in Nat : z = SizeAt(bytes, c)
      BY <2>8
    <2>10. ~BadSize(z) /\ a[i + 1] = c + 2 + z
      BY <2>5, <2>9 DEF Stops, After
    <2>11. ~(size - c < 2) /\ ~(size - c < 2 + z)
      BY <1>5, <2>3, <2>4, <2>9, <2>10
    <2>12. QED
      BY <2>1, <2>7, <2>9, <2>10, <2>11 DEF Stops, After
  <1>10. Stops(front, a[m])
    <2>1. Len(front) - a[m] < 2
      BY <1>3, <1>5
    <2>2. QED
      BY <2>1 DEF Stops
  <1>11. a \in Seq(0 .. size)
    <2>1. ASSUME NEW i \in 1 .. m PROVE a[i] \in 0 .. size
      <3>1. a[i] \in 0 .. L /\ a[i] <= size
        BY <1>4, <1>7
      <3>2. QED
        BY <1>3, <1>5, <3>1
    <2>2. a = [i \in 1 .. m |-> a[i]] /\ m \in Nat
      BY <1>2, <1>3
    <2>3. a \in [1 .. m -> 0 .. size]
      BY <2>1, <2>2
    <2>4. QED
      BY <2>2, <2>3, SeqDef
  <1>12. Chain(front, a)
    BY <1>2, <1>3, <1>9, <1>10, <1>11 DEF Chain
  <1>13. a = Starts(front)
    BY <1>12, ChainIsStarts
  <1>14. WholeMessages(front)
    <2>1. a[Len(a)] = Len(front)
      BY <1>2, <1>3
    <2>2. QED
      BY <1>13, <2>1 DEF WholeMessages, Last
  <1>15. Stops(rest, 0)
    <2>1. CASE L - size < 2
      <3>1. Len(rest) - 0 < 2
        BY <1>1, <1>3, <1>5, <2>1
      <3>2. QED
        BY <3>1 DEF Stops
    <2>2. CASE ~(L - size < 2)
      <3>1. 1 \in 1 .. L - size /\ 2 \in 1 .. L - size
        BY <1>3, <1>5, <2>2
      <3>2. rest[1] = bytes[size + 1] /\ rest[2] = bytes[size + 2]
        BY <1>1, <3>1
      <3>3. rest[0 + 1] = bytes[size + 1] /\ rest[0 + 2] = bytes[size + 2]
        BY <3>2
      <3>4. SizeAt(rest, 0) = SizeAt(bytes, size)
        BY <3>3 DEF SizeAt
      <3>5. Stops(bytes, size)
        BY <1>3
      <3>6. Len(rest) - 0 = Len(bytes) - size
        BY <1>1, <1>3, <1>5
      <3>7. QED
        BY <3>4, <3>5, <3>6 DEF Stops
    <2>3. QED
      BY <2>1, <2>2
  <1>16. QED
    BY <1>14, <1>15

(* A stream keeps its first message. *)
LEMMA FirstBody ==
  ASSUME NEW S \in Seq(Bytes), NEW C \in Seq(Bytes), Len(Bodies(S)) >= 1
  PROVE  Len(Bodies(S \o C)) >= 1 /\ Bodies(S \o C)[1] = Bodies(S)[1]
  <1>1. PICK T, a, x : T = S \o C /\ a = Starts(S) /\ x = Starts(T)
    OBVIOUS
  <1>2. T \in Seq(Bytes)
    BY <1>1, ConcatProperties
  <1>3. Chain(S, a) /\ Chain(T, x)
    BY <1>1, <1>2, StartsChain
  <1>4. PICK p, q : p = Len(a) /\ q = Len(x)
    OBVIOUS
  <1>5. p \in Nat /\ q \in Nat /\ p >= 1 /\ q >= 1 /\ a[1] = 0 /\ x[1] = 0
    BY <1>3, <1>4 DEF Chain
  <1>6. Bodies(S) = [i \in 1 .. p - 1 |-> SubSeq(S, a[i] + 3, a[i + 1])]
    BY <1>1, <1>4 DEF Bodies
  <1>7. Bodies(T) = [i \in 1 .. q - 1 |-> SubSeq(T, x[i] + 3, x[i + 1])]
    BY <1>1, <1>4 DEF Bodies
  <1>8. p >= 2
    <2>1. PICK w : w = Bodies(S)
      OBVIOUS
    <2>2. DOMAIN w = 1 .. p - 1 /\ Len(w) >= 1
      BY <1>6, <2>1
    <2>3. Len(w) = p - 1
      BY <1>5, <1>6, <2>1
    <2>4. QED
      BY <1>5, <2>2, <2>3
  <1>9. 1 \in 1 .. p - 1 /\ 1 \in 1 .. p /\ 2 \in 1 .. p
    BY <1>5, <1>8
  <1>10. ~Stops(S, 0) /\ a[2] = After(S, 0) /\ a[2] \in 0 .. Len(S)
    <2>1. \A i \in 1 .. p - 1 : ~Stops(S, a[i]) /\ a[i + 1] = After(S, a[i])
      BY <1>3, <1>4 DEF Chain
    <2>2. a \in Seq(0 .. Len(S))
      BY <1>3 DEF Chain
    <2>3. ~Stops(S, a[1]) /\ a[1 + 1] = After(S, a[1]) /\ 1 + 1 = 2
      BY <1>9, <2>1
    <2>4. QED
      BY <1>4, <1>5, <1>9, <2>2, <2>3
  <1>11. ~Stops(T, 0) /\ After(T, 0) = a[2]
    <2>1. 0 \in 0 .. Len(S)
      BY <1>10
    <2>2. \A c \in 0 .. Len(S) : ~Stops(S, c) => ~Stops(T, c) /\ After(T, c) = After(S, c)
      <3>1. T = S \o C
        BY <1>1
      <3>2. /\ \A c \in 0 .. Len(S) :
                 ~Stops(S, c) => ~Stops(T, c) /\ After(T, c) = After(S, c)
            /\ \A c \in 0 .. Len(C) :
                 /\ Stops(T, Len(S) + c) <=> Stops(C, c)
                 /\ ~Stops(C, c) => After(T, Len(S) + c) = Len(S) + After(C, c)
        BY <3>1, StopsOfConcat, Zenon
      <3>3. QED
        BY <3>2
    <2>3. QED
      BY <1>10, <2>1, <2>2
  <1>12. q >= 2
    <2>1. CASE q = 1
      <3>1. Stops(T, x[1])
        BY <1>3, <1>4, <2>1 DEF Chain
      <3>2. QED
        BY <1>5, <1>11, <3>1
    <2>2. QED
      BY <1>5, <2>1
  <1>13. 1 \in 1 .. q - 1
    BY <1>5, <1>12
  <1>14. x[2] = a[2]
    <2>1. \A i \in 1 .. q - 1 : x[i + 1] = After(T, x[i])
      BY <1>3, <1>4 DEF Chain
    <2>2. x[1 + 1] = After(T, x[1]) /\ 1 + 1 = 2
      BY <1>13, <2>1
    <2>3. QED
      BY <1>5, <1>11, <2>2
  <1>15. Bodies(S)[1] = SubSeq(S, 3, a[2]) /\ Bodies(T)[1] = SubSeq(T, 3, a[2])
    <2>1. Bodies(S)[1] = SubSeq(S, a[1] + 3, a[1 + 1])
      BY <1>6, <1>9
    <2>2. Bodies(T)[1] = SubSeq(T, x[1] + 3, x[1 + 1])
      BY <1>7, <1>13
    <2>3. 0 + 3 = 3 /\ 1 + 1 = 2
      OBVIOUS
    <2>4. QED
      BY <1>5, <1>14, <2>1, <2>2, <2>3
  <1>16. SubSeq(T, 3, a[2]) = SubSeq(S, 3, a[2])
    <2>1. a[2] \in Nat /\ a[2] <= Len(S) /\ 3 \in Nat \ {0}
      BY <1>10
    <2>2. QED
      BY <1>1, <2>1, PartsOfConcat
  <1>17. Len(Bodies(T)) = q - 1
    BY <1>5, <1>7
  <1>18. Len(Bodies(T)) >= 1
    BY <1>5, <1>12, <1>17
  <1>19. QED
    BY <1>1, <1>15, <1>16, <1>18

-----------------------------------------------------------------------------
(* Verdicts *)

LEMMA BodiesIs ==
  ASSUME NEW bytes \in Seq(Bytes)
  PROVE  /\ Len(Bodies(bytes)) \in Nat /\ DOMAIN Bodies(bytes) = 1 .. Len(Bodies(bytes))
         /\ Bodies(bytes) # <<>> => Len(Bodies(bytes)) >= 1 /\ Head(Bodies(bytes)) = Bodies(bytes)[1]
         /\ Bodies(bytes) = <<>> => DOMAIN Bodies(bytes) = {}
  <1>1. PICK a, w, N : a = Starts(bytes) /\ w = Bodies(bytes) /\ N = Len(a) - 1
    OBVIOUS
  <1>2. Chain(bytes, a)
    BY <1>1, StartsChain
  <1>3. N \in Nat
    BY <1>1, <1>2 DEF Chain
  <1>4. w = [i \in 1 .. N |-> SubSeq(bytes, a[i] + 3, a[i + 1])]
    BY <1>1 DEF Bodies
  <1>5. Len(w) = N /\ DOMAIN w = 1 .. N
    BY <1>3, <1>4
  <1>6. ASSUME w # <<>> PROVE N >= 1
    <2>1. CASE N = 0
      <3>1. w \in [1 .. 0 -> Nat]
        BY <1>4, <2>1
      <3>2. w \in Seq(Nat) /\ Len(w) = 0
        BY <3>1
      <3>3. QED
        BY <1>6, <3>2
    <2>2. QED
      BY <1>3, <2>1
  <1>7. Head(w) = w[1]
    OBVIOUS
  <1>8. w = <<>> => DOMAIN w = {}
    OBVIOUS
  <1>9. QED
    BY <1>1, <1>3, <1>5, <1>6, <1>7, <1>8

(* No message of a segment that passes is refused. *)
LEMMA AcceptedMessages ==
  ASSUME NEW parser, NEW bytes \in Seq(Bytes), protocol = "dns", Judgement(parser, bytes) = "accept"
  PROVE  \A i \in DOMAIN Bodies(bytes) : ~Refused(Bodies(bytes)[i])
  <1>1. PICK bodies : bodies = Bodies(bytes)
    OBVIOUS
  <1>2. PICK first : first = SelectInSeq(bodies, Refused)
    OBVIOUS
  <1>3. first = 0
    BY <1>1, <1>2 DEF Judgement
  <1>4. PICK I : I = {i \in 1 .. Len(bodies) : Refused(bodies[i])}
    OBVIOUS
  <1>5. I = {}
    <2> SUFFICES ASSUME I # {} PROVE FALSE
      OBVIOUS
    <2>1. I \in SUBSET Nat
      BY <1>4
    <2>2. \E n \in I : \A m \in I : n <= m
      BY <2>1, LeastNumber
    <2>3. Min(I) \in I
      BY <2>2 DEF Min
    <2>4. first = Min(I)
      BY <1>2, <1>4 DEF SelectInSeq
    <2>5. QED
      BY <1>3, <1>4, <2>3, <2>4
  <1>6. DOMAIN bodies = 1 .. Len(bodies)
    BY <1>1, BodiesIs
  <1>7. QED
    BY <1>1, <1>4, <1>5, <1>6

(* What the ClientHello parser says of the bytes so far. *)
LEMMA HelloIs ==
  ASSUME NEW bytes \in Seq(Bytes)
  PROVE  /\ HelloResult(bytes) \in {"more", "malformed", "complete"}
         /\ HelloResult(bytes) = "more" => Bodies(bytes) = <<>>
         /\ HelloResult(bytes) = "complete" =>
              /\ Len(Bodies(bytes)) >= 1 /\ Head(Bodies(bytes)) = Bodies(bytes)[1]
              /\ Bodies(bytes)[1] \notin MalformedBodies
  <1>1. Len(bytes) \in Nat
    OBVIOUS
  <1>2. CASE Len(bytes) < 2
    <2>1. HelloResult(bytes) = "more"
      BY <1>1, <1>2 DEF HelloResult
    <2>2. Stops(bytes, 0)
      BY <1>1, <1>2 DEF Stops
    <2>3. Bodies(bytes) = <<>>
      BY <2>2, NoBodies
    <2>4. QED
      BY <2>1, <2>3
  <1>3. CASE Len(bytes) >= 2 /\ BadSize(SizeAt(bytes, 0))
    <2>1. HelloResult(bytes) = "malformed"
      BY <1>1, <1>3 DEF HelloResult
    <2>2. QED
      BY <2>1
  <1>4. CASE Len(bytes) >= 2 /\ ~BadSize(SizeAt(bytes, 0))
    <2>1. HelloResult(bytes) =
            IF Bodies(bytes) = <<>> THEN "more"
            ELSE IF Head(Bodies(bytes)) \in MalformedBodies THEN "malformed" ELSE "complete"
      BY <1>1, <1>4 DEF HelloResult
    <2>2. Bodies(bytes) # <<>> => Len(Bodies(bytes)) >= 1 /\ Head(Bodies(bytes)) = Bodies(bytes)[1]
      BY BodiesIs
    <2>3. QED
      BY <2>1, <2>2
  <1>5. QED
    BY <1>1, <1>2, <1>3, <1>4

(* A ClientHello that passes is not refused. *)
LEMMA AcceptedHello ==
  ASSUME NEW parser, NEW bytes \in Seq(Bytes), protocol = "tls",
         Judgement(parser, bytes) = "accept", parser.terminal = "more",
         parser.got \in Seq(Bytes)
  PROVE  LET got   == parser.got \o bytes
             after == Feed(parser, bytes)
         IN /\ after.got = got
            /\ after.terminal = "more" => Bodies(got) = <<>>
            /\ after.terminal # "more" => Len(Bodies(got)) >= 1 /\ ~Refused(Bodies(got)[1])
  <1>0. PICK got, after : got = parser.got \o bytes /\ after = Feed(parser, bytes)
    OBVIOUS
  <1>1. got \in Seq(Bytes)
    BY <1>0, ConcatProperties
  <1>2. after = [got |-> got, terminal |-> HelloResult(got)]
    BY <1>0 DEF Feed
  <1>3. after.got = got /\ after.terminal = HelloResult(got)
    BY <1>2
  <1>4. ~(after.terminal = "malformed")
        /\ ~(after.terminal = "complete" /\ Head(Bodies(after.got)) \in BlockedBodies)
    BY <1>0 DEF Judgement
  <1>5. /\ HelloResult(got) \in {"more", "malformed", "complete"}
        /\ HelloResult(got) = "more" => Bodies(got) = <<>>
        /\ HelloResult(got) = "complete" =>
             /\ Len(Bodies(got)) >= 1 /\ Head(Bodies(got)) = Bodies(got)[1]
             /\ Bodies(got)[1] \notin MalformedBodies
    BY <1>1, HelloIs
  <1>6. /\ after.got = got
        /\ after.terminal = "more" => Bodies(got) = <<>>
        /\ after.terminal # "more" => Len(Bodies(got)) >= 1 /\ ~Refused(Bodies(got)[1])
    BY <1>3, <1>4, <1>5 DEF Refused
  <1>7. QED
    BY <1>0, <1>6, Zenon

-----------------------------------------------------------------------------
(* Entries *)

LEMMA UnusedIs ==
  /\ IsFlow(Unused) /\ ~Unused.tracked /\ ~Unused.rejected /\ Unused.key = None
  /\ Unused.seen = <<>> /\ Unused.arrived = <<>> /\ Unused.buffer = Blank
  <1>1. Unused = [field \in FlowFields |-> Unused[field]]
    BY DEF Unused, FlowFields
  <1>2. Unused.tracked = FALSE /\ Unused.rejected = FALSE
    BY DEF Unused
  <1>3. Unused.key = None /\ Unused.seen = <<>> /\ Unused.arrived = <<>> /\ Unused.buffer = Blank
    BY DEF Unused
  <1>4. QED
    BY <1>1, <1>2, <1>3 DEF IsFlow

LEMMA FreshIs ==
  ASSUME NEW k \in Keys, NEW seq, NEW whole \in BOOLEAN
  PROVE  LET e == Fresh(k, seq, whole)
         IN /\ IsFlow(e) /\ e.key = k /\ e.base = seq /\ e.buffer = Blank
            /\ e.rejected = FALSE /\ e.tracked = whole /\ e.seen = <<>> /\ e.arrived = <<>>
  <1>1. PICK e : e = Fresh(k, seq, whole)
    OBVIOUS
  <1>2. e = [Unused EXCEPT !.key = k, !.base = seq, !.idle = IdleTimeout, !.age = ConnectionTimeout,
                           !.tracked = whole, !.orderly = whole]
    BY <1>1 DEF Fresh
  <1>3. Unused = [field \in FlowFields |-> Unused[field]]
    BY UnusedIs DEF IsFlow
  <1>4. e = [field \in FlowFields |-> e[field]]
    BY <1>2, <1>3
  <1>5. e.key = k /\ e.base = seq /\ e.buffer = Unused.buffer /\ e.seen = Unused.seen
        /\ e.arrived = Unused.arrived /\ e.rejected = Unused.rejected /\ e.tracked = whole
    BY <1>2, <1>3 DEF FlowFields
  <1>6. Unused.rejected = FALSE /\ Unused.buffer = Blank /\ Unused.seen = <<>> /\ Unused.arrived = <<>>
    BY DEF Unused
  <1>7. IsFlow(e)
    BY <1>4, <1>5, <1>6, Zenon DEF IsFlow
  <1>8. QED
    BY <1>1, <1>5, <1>6, <1>7, Zenon

(* Which fields a change of an entry keeps. *)
Same(r, e) ==
  /\ r = [field \in FlowFields |-> r[field]]
  /\ r.key = e.key /\ r.rejected = e.rejected /\ r.tracked = e.tracked

LEMMA SameIsFlow ==
  ASSUME NEW e, NEW r, IsFlow(e), Same(r, e)
  PROVE  IsFlow(r)
  BY Zenon DEF IsFlow, Same

LEMMA ForwardedIs ==
  ASSUME NEW e, NEW g, IsFlow(e)
  PROVE  LET r == Forwarded(e, g)
         IN /\ Same(r, e) /\ r.base = e.base /\ r.buffer = e.buffer /\ r.seen = e.seen
            /\ e.tracked => r.arrived = Arrivals(e.arrived, g)
  <1>1. e = [field \in FlowFields |-> e[field]]
    BY DEF IsFlow
  <1>2. PICK r, a : r = Forwarded(e, g) /\ a = Arrivals(e.arrived, g)
    OBVIOUS
  <1>3. CASE e.tracked
    <2>1. r = [e EXCEPT !.arrived = a]
      BY <1>2, <1>3 DEF Forwarded, Arrivals
    <2>2. r = [field \in FlowFields |-> r[field]] /\ r.arrived = a
      BY <1>1, <2>1 DEF FlowFields
    <2>3. r.key = e.key /\ r.rejected = e.rejected /\ r.tracked = e.tracked
      BY <1>1, <2>1 DEF FlowFields
    <2>4. r.base = e.base /\ r.buffer = e.buffer /\ r.seen = e.seen
      BY <1>1, <2>1 DEF FlowFields
    <2>5. QED
      BY <1>2, <2>2, <2>3, <2>4 DEF Same
  <1>4. CASE ~e.tracked
    <2>1. r = e
      BY <1>2, <1>4 DEF Forwarded
    <2>2. QED
      BY <1>1, <1>2, <1>4, <2>1 DEF Same
  <1>5. QED
    BY <1>3, <1>4

LEMMA FilledIs ==
  ASSUME NEW e, NEW new, IsFlow(e)
  PROVE  LET r == Filled(e, new)
         IN Same(r, e) /\ r.base = e.base /\ r.seen = e.seen /\ r.arrived = e.arrived
  <1>1. e = [field \in FlowFields |-> e[field]]
    BY DEF IsFlow
  <1>2. PICK r, b : r = Filled(e, new) /\ b = r.buffer
    OBVIOUS
  <1>3. r = [e EXCEPT !.buffer = b]
    BY <1>1, <1>2 DEF Filled, FlowFields
  <1>4. r = [field \in FlowFields |-> r[field]]
    BY <1>1, <1>3
  <1>5. r.key = e.key /\ r.rejected = e.rejected /\ r.tracked = e.tracked
    BY <1>1, <1>3 DEF FlowFields
  <1>6. r.base = e.base /\ r.seen = e.seen /\ r.arrived = e.arrived
    BY <1>1, <1>3 DEF FlowFields
  <1>7. QED
    BY <1>2, <1>4, <1>5, <1>6 DEF Same

LEMMA ConsumedIs ==
  ASSUME NEW e, NEW size, IsFlow(e)
  PROVE  LET r == ConsumePrefix(e, size)
         IN Same(r, e) /\ r.arrived = e.arrived /\ (e.tracked => Consumes(r, e, size))
  <1>1. e = [field \in FlowFields |-> e[field]]
    BY DEF IsFlow
  <1>2. PICK r, x, y, z :
          /\ r = ConsumePrefix(e, size) /\ x = (e.base + size) % Modulus
          /\ y = [i \in DOMAIN Blank |-> IF i + size < Window THEN e.buffer[i + size] ELSE None]
          /\ z = IF e.tracked THEN e.seen \o SubSeq(Contiguous(e), 1, size) ELSE e.seen
    OBVIOUS
  <1>3. r = [e EXCEPT !.base = x, !.buffer = y, !.seen = z]
    BY <1>2 DEF ConsumePrefix
  <1>4. r = [field \in FlowFields |-> r[field]]
    BY <1>1, <1>3
  <1>5. r.key = e.key /\ r.rejected = e.rejected /\ r.tracked = e.tracked
    BY <1>1, <1>3 DEF FlowFields
  <1>6. r.base = x /\ r.buffer = y /\ r.seen = z /\ r.arrived = e.arrived
    BY <1>1, <1>3 DEF FlowFields
  <1>7. Same(r, e)
    BY <1>4, <1>5 DEF Same
  <1>8. ASSUME e.tracked PROVE Consumes(r, e, size)
    BY <1>2, <1>6, <1>8 DEF Consumes
  <1>9. QED
    BY <1>2, <1>6, <1>7, <1>8, Zenon

LEMMA RejectedIs ==
  ASSUME NEW e, IsFlow(e)
  PROVE  LET r == Rejected(e)
         IN /\ IsFlow(r) /\ r.rejected /\ r.key = e.key /\ r.tracked = e.tracked
            /\ r.seen = e.seen /\ r.arrived = e.arrived
  <1>1. e = [field \in FlowFields |-> e[field]]
    BY DEF IsFlow
  <1>2. PICK r : r = Rejected(e)
    OBVIOUS
  <1>3. r = [e EXCEPT !.rejected = TRUE, !.buffer = Blank,
                      !.idle = IdleTimeout, !.age = ConnectionTimeout]
    BY <1>2 DEF Rejected
  <1>4. r = [field \in FlowFields |-> r[field]]
    BY <1>1, <1>3
  <1>5. r.key = e.key /\ r.tracked = e.tracked /\ r.seen = e.seen /\ r.arrived = e.arrived
    BY <1>1, <1>3 DEF FlowFields
  <1>6. r.rejected = TRUE
    BY <1>1, <1>3 DEF FlowFields
  <1>7. IsFlow(r)
    BY <1>4, <1>5, <1>6, Zenon DEF IsFlow
  <1>8. QED
    BY <1>2, <1>5, <1>6, <1>7, Zenon

LEMMA UnfollowedIs ==
  ASSUME NEW e, IsFlow(e)
  PROVE  IsFlow(Unfollowed(e)) /\ ~Unfollowed(e).tracked
  <1>1. e = [field \in FlowFields |-> e[field]]
    BY DEF IsFlow
  <1>2. PICK r : r = Unfollowed(e)
    OBVIOUS
  <1>3. r = [e EXCEPT !.tracked = FALSE, !.orderly = FALSE, !.seen = <<>>, !.arrived = <<>>]
    BY <1>2 DEF Unfollowed
  <1>4. r = [field \in FlowFields |-> r[field]]
    BY <1>1, <1>3
  <1>5. r.tracked = FALSE /\ r.rejected = e.rejected
    BY <1>1, <1>3 DEF FlowFields
  <1>6. IsFlow(r)
    BY <1>4, <1>5, Zenon DEF IsFlow
  <1>7. QED
    BY <1>2, <1>5, <1>6, Zenon

-----------------------------------------------------------------------------
(* Slots *)

(* Nothing is said of a flow that is not followed. *)
LEMMA SlotUntracked ==
  ASSUME NEW e, NEW parser, NEW c, NEW proto, IsFlow(e), ~e.tracked
  PROVE  SlotInv(e, parser, c, proto)
  BY Zenon DEF SlotInv, FlowInv, ParserInv, CleanInv

LEMMA ConnectionIs ==
  ASSUME ConnectionInv, NEW k \in Keys
  PROVE  /\ conn[k].isn \in Nat /\ conn[k].stream \in Streams[k]
         /\ Len(conn[k].stream) \in Nat /\ Len(conn[k].stream) < Modulus \div 2
         /\ protocol \in {"dns", "tls"}
  <1>1. conn[k].isn \in Isns /\ conn[k].stream \in Streams[k] /\ protocol \in Protocols
    BY DEF ConnectionInv
  <1>2. Isns \subseteq 0 .. Modulus - 1 /\ Modulus \in Nat \ {0} /\ Protocols \subseteq {"dns", "tls"}
    BY LimitsValid
  <1>3. conn[k].isn \in Nat
    <2>1. PICK x : x = conn[k].isn
      OBVIOUS
    <2>2. x \in 0 .. Modulus - 1
      BY <1>1, <1>2, <2>1
    <2>3. x \in Nat
      BY <1>2, <2>2
    <2>4. QED
      BY <2>1, <2>3
  <1>4. conn[k].stream \in Seq(Bytes) /\ Len(conn[k].stream) < Modulus \div 2
    BY <1>1, LimitsValid
  <1>5. QED
    BY <1>1, <1>2, <1>3, <1>4

(* What the server can read of a flow that is followed. *)
LEMMA ReadableClean ==
  ASSUME ConnectionInv, NEW e, NEW parser, SlotInv(e, parser, conn, protocol), e.tracked
  PROVE  Clean(Readable(e), protocol)
  <1>1. IsFlow(e) /\ e.key \in Keys
    BY Zenon DEF SlotInv, FlowInv, IsFlow
  <1>2. CASE e.rejected
    BY <1>2, Zenon DEF SlotInv, CleanInv
  <1>3. CASE ~e.rejected
    <2>1. PICK isn, stream : isn = conn[e.key].isn /\ stream = conn[e.key].stream
      OBVIOUS
    <2>2. Len(stream) \in Nat /\ protocol \in {"dns", "tls"}
      BY <1>1, <2>1, ConnectionIs
    <2>3. HasArrived(e, stream) /\ Inspected(e, isn, stream)
      BY <1>3, <2>1, Zenon DEF SlotInv, FlowInv
    <2>4. Readable(e) = e.seen \o Contiguous(e)
      BY <2>2, <2>3, ReadableIs
    <2>5. e.seen \in Seq(Bytes) /\ IsWindow(e.buffer)
      BY <2>2, <2>3, InspectedIs DEF HasArrived
    <2>6. Contiguous(e) \in Seq(Bytes) /\ Len(Contiguous(e)) = ContiguousSize(e)
          /\ \A i \in 0 .. ContiguousSize(e) - 1 : e.buffer[i] \in Bytes
          /\ ContiguousSize(e) \in 0 .. Window
      BY <2>5, ContiguousIs
    <2>7. CASE protocol = "dns"
      <3>1. Clean(e.seen, "dns") /\ WholeMessages(e.seen) /\ Stops(Contiguous(e), 0)
        BY <1>3, <2>7, Zenon DEF SlotInv, CleanInv
      <3>2. Bodies(Contiguous(e)) = <<>>
        BY <2>6, <3>1, NoBodies
      <3>3. \A i \in DOMAIN Bodies(Contiguous(e)) : ~Refused(Bodies(Contiguous(e))[i])
        BY <3>2
      <3>4. PICK S, C : S = e.seen /\ C = Contiguous(e)
        OBVIOUS
      <3>5. Clean(S \o C, "dns")
        BY <2>5, <2>6, <3>1, <3>3, <3>4, CleanConcat
      <3>6. QED
        BY <2>4, <2>7, <3>4, <3>5
    <2>8. CASE protocol = "tls"
      <3>1. /\ e.buffer[0] = None
            /\ parser.terminal = "more" => Bodies(e.seen) = <<>>
            /\ parser.terminal # "more" =>
                 Len(Bodies(e.seen)) >= 1 /\ ~Refused(Bodies(e.seen)[1])
        BY <1>3, <2>8, Zenon DEF SlotInv, CleanInv
      <3>2. Contiguous(e) = <<>>
        <4>1. None \notin Bytes
          BY LimitsAre DEF None, Bytes
        <4>2. 0 \notin 0 .. ContiguousSize(e) - 1
          BY <2>6, <3>1, <4>1
        <4>3. Len(Contiguous(e)) = 0
          BY <2>6, <4>2, LimitsAre
        <4>4. QED
          BY <2>6, <4>3
      <3>3. Readable(e) = e.seen
        BY <2>4, <2>5, <3>2
      <3>4. \A i \in DOMAIN Bodies(e.seen) : Refused(Bodies(e.seen)[i]) => i > 1
        <4> SUFFICES ASSUME NEW i \in DOMAIN Bodies(e.seen), Refused(Bodies(e.seen)[i]) PROVE i > 1
          OBVIOUS
        <4>1. DOMAIN Bodies(e.seen) = 1 .. Len(Bodies(e.seen)) /\ Len(Bodies(e.seen)) \in Nat
              /\ (Bodies(e.seen) = <<>> => DOMAIN Bodies(e.seen) = {})
          BY <2>5, BodiesIs
        <4>2. i # 1
          BY <3>1, <4>1
        <4>3. QED
          BY <4>1, <4>2
      <3>5. QED
        BY <2>8, <3>3, <3>4 DEF Clean
    <2>9. QED
      BY <2>2, <2>7, <2>8
  <1>4. QED
    BY <1>2, <1>3

(* A flow that is rejected keeps what has reached the server. *)
LEMMA SlotRejected ==
  ASSUME ConnectionInv, NEW e, NEW parser, SlotInv(e, parser, conn, protocol),
         NEW r, NEW other, IsFlow(r), r.rejected, r.key = e.key, r.tracked = e.tracked,
         e.tracked => r.seen \in Seq(Bytes) /\ r.arrived = e.arrived
  PROVE  SlotInv(r, other, conn, protocol)
  <1>1. CASE ~e.tracked
    <2>1. ~r.tracked
      BY <1>1
    <2>2. QED
      BY <2>1, SlotUntracked
  <1>2. CASE e.tracked
    <2>1. r.tracked /\ r.seen \in Seq(Bytes) /\ r.arrived = e.arrived
      BY <1>2
    <2>2. HasArrived(e, conn[e.key].stream)
      BY <1>2, Zenon DEF SlotInv, FlowInv
    <2>3. HasArrived(r, conn[r.key].stream)
      BY <2>1, <2>2 DEF HasArrived
    <2>4. Clean(Readable(e), protocol)
      BY <1>2, ReadableClean
    <2>5. Readable(r) = Readable(e)
      BY <2>1 DEF Readable, Reached
    <2>6. Clean(Readable(r), protocol)
      BY <2>4, <2>5
    <2>7. QED
      BY <2>3, <2>6, Zenon DEF SlotInv, FlowInv, ParserInv, CleanInv
  <1>3. QED
    BY <1>1, <1>2

-----------------------------------------------------------------------------
(* A segment of a flow *)

LEMMA ContiguousUnique ==
  ASSUME NEW e, NEW n \in 0 .. Window, IsWindow(e.buffer),
         \A i \in 0 .. n - 1 : e.buffer[i] \in Bytes, n < Window => e.buffer[n] = None
  PROVE  ContiguousSize(e) = n
  <1>1. PICK m : m = ContiguousSize(e)
    OBVIOUS
  <1>2. /\ m \in 0 .. Window /\ \A i \in 0 .. m - 1 : e.buffer[i] \in Bytes
        /\ m < Window => e.buffer[m] = None
    BY <1>1, ContiguousIs
  <1>3. Window \in Nat \ {0} /\ None \notin Bytes
    BY LimitsAre DEF None, Bytes
  <1>4. CASE m < n
    <2>1. m \in 0 .. n - 1 /\ m < Window
      BY <1>2, <1>3, <1>4
    <2>2. QED
      BY <1>2, <1>3, <2>1
  <1>5. CASE n < m
    <2>1. n \in 0 .. m - 1 /\ n < Window
      BY <1>2, <1>3, <1>5
    <2>2. QED
      BY <1>2, <1>3, <2>1
  <1>6. CASE m = n
    BY <1>1, <1>6
  <1>7. QED
    BY <1>2, <1>3, <1>4, <1>5, <1>6

(* What stays in the window when a prefix is consumed. *)
LEMMA RestIs ==
  ASSUME NEW e, IsWindow(e.buffer), NEW size \in 0 .. ContiguousSize(e),
         NEW r, Consumes(r, e, size)
  PROVE  /\ IsWindow(r.buffer)
         /\ Contiguous(r) = SubSeq(Contiguous(e), size + 1, Len(Contiguous(e)))
         /\ size = ContiguousSize(e) => r.buffer[0] = None
  <1>1. PICK B, F, c : B = e.buffer /\ F = r.buffer /\ c = ContiguousSize(e)
    OBVIOUS
  <1>2. /\ c \in 0 .. Window /\ \A i \in 0 .. c - 1 : B[i] \in Bytes
        /\ c < Window => B[c] = None
        /\ Contiguous(e) \in Seq(Bytes) /\ Len(Contiguous(e)) = c
        /\ \A i \in 1 .. c : Contiguous(e)[i] = B[i - 1]
    BY <1>1, ContiguousIs
  <1>3. Window \in Nat \ {0} /\ None \notin Bytes
    BY LimitsAre DEF None, Bytes
  <1>4. size \in Nat /\ size <= c /\ c \in Nat /\ c <= Window
    BY <1>1, <1>2, <1>3
  <1>5. F = [i \in 0 .. Window - 1 |-> IF i + size < Window THEN B[i + size] ELSE None]
    BY <1>1 DEF Blank, Consumes
  <1>6. \A i \in 0 .. Window - 1 : i + size < Window => F[i] = B[i + size]
    BY <1>5
  <1>7. \A i \in 0 .. Window - 1 : ~(i + size < Window) => F[i] = None
    BY <1>5
  <1>8. IsWindow(F)
    <2>1. ASSUME NEW i \in 0 .. Window - 1 PROVE F[i] \in Bytes \cup {None}
      <3>1. CASE i + size < Window
        <4>1. i + size \in 0 .. Window - 1
          BY <1>3, <1>4, <3>1
        <4>2. QED
          BY <1>1, <1>6, <3>1, <4>1 DEF IsWindow
      <3>2. CASE ~(i + size < Window)
        BY <1>7, <3>2
      <3>3. QED
        BY <3>1, <3>2
    <2>2. QED
      BY <1>5, <2>1 DEF IsWindow
  <1>9. PICK d : d = c - size
    OBVIOUS
  <1>10. d \in 0 .. Window /\ d \in Nat /\ d + size = c
    BY <1>3, <1>4, <1>9
  <1>11. ASSUME NEW i \in 0 .. d - 1 PROVE F[i] = B[i + size] /\ F[i] \in Bytes
    <2>1. i \in 0 .. Window - 1 /\ i + size < Window /\ i + size \in 0 .. c - 1
      BY <1>3, <1>4, <1>10
    <2>2. QED
      BY <1>2, <1>6, <2>1
  <1>12. ASSUME d < Window PROVE F[d] = None
    <2>1. d \in 0 .. Window - 1
      BY <1>10, <1>12, <1>3
    <2>2. CASE c < Window
      BY <1>2, <1>6, <1>10, <2>1, <2>2
    <2>3. CASE ~(c < Window)
      BY <1>7, <1>10, <2>1, <2>3
    <2>4. QED
      BY <2>2, <2>3
  <1>13. ContiguousSize(r) = d
    BY <1>1, <1>8, <1>10, <1>11, <1>12, ContiguousUnique
  <1>14. PICK u, v, C : u = Contiguous(r) /\ C = Contiguous(e)
           /\ v = SubSeq(C, size + 1, Len(C))
    OBVIOUS
  <1>15. u \in Seq(Bytes) /\ Len(u) = d /\ \A i \in 1 .. d : u[i] = F[i - 1]
    BY <1>1, <1>8, <1>13, <1>14, ContiguousIs
  <1>16. v \in Seq(Bytes) /\ Len(v) = Len(C) - size
         /\ \A i \in 1 .. Len(C) - size : v[i] = C[size + i]
    <2>1. C \in Seq(Bytes) /\ size \in 0 .. Len(C)
      BY <1>2, <1>4, <1>14
    <2>2. QED
      BY <1>14, <2>1, SplitAt
  <1>17. Len(C) = c /\ \A i \in 1 .. c : C[i] = B[i - 1]
    BY <1>2, <1>14
  <1>18. ASSUME NEW i \in 1 .. d PROVE u[i] = v[i]
    <2>1. i - 1 \in 0 .. d - 1 /\ (i - 1) + size = (size + i) - 1 /\ size + i \in 1 .. c
      BY <1>4, <1>10
    <2>2. u[i] = B[(size + i) - 1]
      BY <1>11, <1>15, <2>1
    <2>3. i \in 1 .. Len(C) - size
      BY <1>9, <1>17
    <2>4. v[i] = B[(size + i) - 1]
      BY <1>16, <1>17, <2>1, <2>3
    <2>5. QED
      BY <2>2, <2>4
  <1>19. u = v
    <2>1. Len(v) = d
      BY <1>9, <1>16, <1>17
    <2>2. QED
      BY <1>15, <1>16, <1>18, <2>1, SeqEqual
  <1>20. ASSUME size = c PROVE F[0] = None
    <2>1. d = 0 /\ d < Window
      BY <1>3, <1>4, <1>9, <1>20
    <2>2. QED
      BY <1>12, <2>1
  <1>21. QED
    BY <1>1, <1>8, <1>14, <1>19, <1>20

(* A flow that is followed and not rejected, and a segment of its stream. *)
LEMMA FollowedIs ==
  ASSUME ConnectionInv, NEW k \in Keys, NEW e, NEW parser,
         SlotInv(e, parser, conn, protocol), e.tracked, ~e.rejected, e.key = k,
         NEW g \in Segments[conn[k].stream],
         NEW isn, isn = conn[k].isn, NEW stream, stream = conn[k].stream
  PROVE  /\ isn \in Nat /\ Len(stream) \in Nat /\ protocol \in {"dns", "tls"}
         /\ IsFlow(e) /\ HasArrived(e, stream) /\ Inspected(e, isn, stream)
         /\ g.pos \in Nat /\ g.data \in Seq(Bytes) /\ Len(g.data) \in Nat
         /\ g.pos + Len(g.data) <= Len(stream)
         /\ Len(e.seen) \in Nat /\ Len(e.seen) <= Len(stream)
         /\ OffsetIn(e, SeqNumber(k, g.pos)) = g.pos - Len(e.seen)
  <1>1. isn \in Nat /\ stream \in Streams[k] /\ Len(stream) \in Nat /\ Len(stream) < Modulus \div 2
        /\ protocol \in {"dns", "tls"}
    BY ConnectionIs
  <1>2. IsFlow(e) /\ HasArrived(e, stream) /\ Inspected(e, isn, stream)
    BY Zenon DEF SlotInv, FlowInv
  <1>3. g \in Segments[stream]
    OBVIOUS
  <1>4. /\ g.pos \in Nat /\ g.data \in Seq(Bytes) /\ Len(g.data) \in Nat
        /\ g.pos + Len(g.data) <= Len(stream)
    BY <1>1, <1>3, SegmentIs
  <1>5. Len(e.seen) \in Nat /\ Len(e.seen) <= Len(stream)
    BY <1>1, <1>2, InspectedIs
  <1>6. PICK n, pos, H : n = Len(e.seen) /\ pos = g.pos /\ H = Modulus \div 2
    OBVIOUS
  <1>7. n \in Nat /\ pos \in Nat /\ n < H /\ pos < H
    <2>1. Len(stream) < H /\ H \in Int
      BY <1>1, <1>6, LimitsAre
    <2>2. QED
      BY <1>1, <1>4, <1>5, <1>6, <2>1
  <1>8. e.base = (isn + 1 + n) % Modulus
    BY <1>2, <1>6 DEF Inspected
  <1>9. SeqNumber(k, g.pos) = (isn + 1 + pos) % Modulus
    BY <1>6 DEF SeqNumber
  <1>10. OffsetIn(e, SeqNumber(k, g.pos)) = pos - n
    <2>1. pos < Modulus \div 2 /\ n < Modulus \div 2
      BY <1>6, <1>7
    <2>2. PICK number : number = SeqNumber(k, g.pos)
      OBVIOUS
    <2>3. OffsetIn(e, number) = pos - n
      BY <1>1, <1>7, <1>8, <1>9, <2>1, <2>2, OffsetIs
    <2>4. QED
      BY <2>2, <2>3
  <1>11. QED
    BY <1>1, <1>2, <1>4, <1>5, <1>6, <1>10

(* A segment without new data changes nothing that the server has. *)
LEMMA NothingArrives ==
  ASSUME ConnectionInv, NEW k \in Keys, NEW e, NEW parser,
         SlotInv(e, parser, conn, protocol), ~e.rejected, e.tracked => e.key = k,
         NEW g \in Segments[conn[k].stream],
         g.data = <<>> \/ OffsetIn(e, SeqNumber(k, g.pos)) + Len(g.data) <= 0
  PROVE  Forwarded(e, g) = e
  <1>1. CASE ~e.tracked
    BY <1>1 DEF Forwarded
  <1>2. CASE e.tracked
    <2>1. PICK isn, stream : isn = conn[k].isn /\ stream = conn[k].stream
      OBVIOUS
    <2>2. /\ isn \in Nat /\ Len(stream) \in Nat /\ protocol \in {"dns", "tls"}
          /\ IsFlow(e) /\ HasArrived(e, stream) /\ Inspected(e, isn, stream)
          /\ g.pos \in Nat /\ g.data \in Seq(Bytes) /\ Len(g.data) \in Nat
          /\ g.pos + Len(g.data) <= Len(stream)
          /\ Len(e.seen) \in Nat /\ Len(e.seen) <= Len(stream)
          /\ OffsetIn(e, SeqNumber(k, g.pos)) = g.pos - Len(e.seen)
      BY <1>2, <2>1, FollowedIs
    <2>3. PICK n, pos, l, D, A : n = Len(e.seen) /\ pos = g.pos /\ l = Len(g.data)
            /\ D = DOMAIN e.arrived /\ A = Arrivals(e.arrived, g)
      OBVIOUS
    <2>4. n \in Nat /\ pos \in Nat /\ l \in Nat /\ (l = 0 \/ pos + l <= n)
      <3>1. g.data = <<>> => l = 0
        BY <2>3
      <3>2. OffsetIn(e, SeqNumber(k, g.pos)) = pos - n /\ n \in Nat /\ pos \in Nat /\ l \in Nat
        BY <2>2, <2>3
      <3>3. OffsetIn(e, SeqNumber(k, g.pos)) + Len(g.data) <= 0 => pos + l <= n
        BY <2>3, <3>2
      <3>4. QED
        BY <3>1, <3>2, <3>3
    <2>5. \A i \in 1 .. n : i - 1 \in D
      BY <2>2, <2>3 DEF Inspected
    <2>6. pos .. pos + l - 1 \subseteq D
      <3> SUFFICES ASSUME NEW p \in pos .. pos + l - 1 PROVE p \in D
        OBVIOUS
      <3>1. p + 1 \in 1 .. n /\ (p + 1) - 1 = p
        BY <2>4
      <3>2. QED
        BY <2>5, <3>1
    <2>7. A = e.arrived
      <3>1. D \cup (pos .. pos + l - 1) = D
        BY <2>6
      <3>2. e.arrived = [p \in D |-> e.arrived[p]]
        BY <2>2, <2>3 DEF HasArrived
      <3>3. A = [p \in D \cup (pos .. pos + l - 1) |->
                   IF p \in D THEN e.arrived[p] ELSE g.data[p - pos + 1]]
        BY <2>3 DEF Arrivals
      <3>4. A = [p \in D |-> e.arrived[p]]
        BY <3>1, <3>3
      <3>5. QED
        BY <3>2, <3>4
    <2>8. Forwarded(e, g) = [e EXCEPT !.arrived = A]
      BY <1>2, <2>3 DEF Forwarded, Arrivals
    <2>9. e = [field \in FlowFields |-> e[field]]
      BY <2>2 DEF IsFlow
    <2>10. QED
      BY <2>7, <2>8, <2>9
  <1>3. QED
    BY <1>1, <1>2

(* A segment is taken. *)
LEMMA Taken ==
  ASSUME ConnectionInv, NEW k \in Keys, NEW e, NEW parser,
         SlotInv(e, parser, conn, protocol), e.tracked, ~e.rejected, e.key = k,
         NEW g \in Segments[conn[k].stream],
         ~(OffsetIn(e, SeqNumber(k, g.pos)) + Len(g.data) <= 0),
         Acceptable(e, NewPart(k, e, g)),
         NEW m, m.base = e.base, m.seen = e.seen, m.arrived = Arrivals(e.arrived, g),
         m.buffer = Filled(e, NewPart(k, e, g)).buffer
  PROVE  HasArrived(m, conn[k].stream) /\ Inspected(m, conn[k].isn, conn[k].stream)
  <1>1. PICK isn, stream : isn = conn[k].isn /\ stream = conn[k].stream
    OBVIOUS
  <1>2. /\ isn \in Nat /\ Len(stream) \in Nat /\ protocol \in {"dns", "tls"}
        /\ IsFlow(e) /\ HasArrived(e, stream) /\ Inspected(e, isn, stream)
        /\ g.pos \in Nat /\ g.data \in Seq(Bytes) /\ Len(g.data) \in Nat
        /\ g.pos + Len(g.data) <= Len(stream)
        /\ Len(e.seen) \in Nat /\ Len(e.seen) <= Len(stream)
        /\ OffsetIn(e, SeqNumber(k, g.pos)) = g.pos - Len(e.seen)
    BY <1>1, FollowedIs
  <1>3. PICK n : n = Len(e.seen)
    OBVIOUS
  <1>4. g.pos + Len(g.data) > n
    <2>1. PICK o, pos, l : o = OffsetIn(e, SeqNumber(k, g.pos)) /\ pos = g.pos /\ l = Len(g.data)
      OBVIOUS
    <2>2. o = pos - n /\ pos \in Nat /\ l \in Nat /\ n \in Nat /\ ~(o + l <= 0)
      BY <1>2, <1>3, <2>1
    <2>3. pos + l > n
      BY <2>2
    <2>4. QED
      BY <2>1, <2>3
  <1>5. PICK new : new = NewPart(k, e, g)
    OBVIOUS
  <1>6. /\ new.at \in Nat /\ new.bytes \in Seq(Bytes) /\ Len(new.bytes) \in Nat
        /\ n + new.at + Len(new.bytes) = g.pos + Len(g.data)
        /\ n + new.at >= g.pos /\ (n + new.at = g.pos \/ new.at = 0)
        /\ \A i \in 1 .. Len(new.bytes) : new.bytes[i] = g.data[n + new.at + i - g.pos]
    <2>1. OffsetIn(e, SeqNumber(k, g.pos)) = g.pos - n /\ n \in Nat
      BY <1>2, <1>3
    <2>2. g.pos \in Nat /\ g.data \in Seq(Bytes)
      BY <1>2
    <2>3. n \in Nat /\ g.pos + Len(g.data) > n
      BY <1>4, <2>1
    <2>4. LET part == NewPart(k, e, g)
          IN /\ part.at \in Nat /\ part.bytes \in Seq(Bytes) /\ Len(part.bytes) \in Nat
             /\ n + part.at + Len(part.bytes) = g.pos + Len(g.data)
             /\ n + part.at >= g.pos /\ (n + part.at = g.pos \/ part.at = 0)
             /\ \A i \in 1 .. Len(part.bytes) : part.bytes[i] = g.data[n + part.at + i - g.pos]
      BY <2>1, <2>2, <2>3, NewPartIs
    <2>5. QED
      BY <1>5, <2>4, Zenon
  <1>7. new.at + Len(new.bytes) <= Window /\ ~Conflicts(e, new)
    BY <1>5 DEF Acceptable
  <1>8. /\ Len(e.seen) + new.at + Len(new.bytes) = g.pos + Len(g.data)
        /\ Len(e.seen) + new.at >= g.pos /\ (Len(e.seen) + new.at = g.pos \/ new.at = 0)
        /\ \A i \in 1 .. Len(new.bytes) :
             new.bytes[i] = g.data[Len(e.seen) + new.at + i - g.pos]
    BY <1>3, <1>6, Zenon
  <1>9. m.buffer = Filled(e, new).buffer
    BY <1>5
  <1>10. HasArrived(m, stream) /\ Inspected(m, isn, stream)
    BY <1>2, <1>6, <1>7, <1>8, <1>9, Filling, Zenon
  <1>11. QED
    BY <1>1, <1>10

(* What it completes passes, and it is forwarded. *)
LEMMA Advance ==
  ASSUME protocol \in {"dns", "tls"},
         NEW isn \in Nat, NEW stream, Len(stream) \in Nat, NEW m,
         HasArrived(m, stream), Inspected(m, isn, stream),
         NEW r, Consumes(r, m, Consumable(Contiguous(m)))
  PROVE  LET size  == Consumable(Contiguous(m))
             front == SubSeq(Contiguous(m), 1, size)
         IN /\ HasArrived(r, stream) /\ Inspected(r, isn, stream)
            /\ m.seen \in Seq(Bytes) /\ front \in Seq(Bytes)
            /\ size = 0 => front = <<>> /\ r.seen = m.seen
            /\ protocol = "dns" => WholeMessages(front) /\ Stops(Contiguous(r), 0)
            /\ protocol = "tls" => r.buffer[0] = None
  <1> SUFFICES ASSUME NEW proto, proto = protocol, NEW S, S = m.seen, NEW C, C = Contiguous(m),
                      NEW size, size = Consumable(C), NEW front, front = SubSeq(C, 1, size),
                      Consumes(r, m, size)
               PROVE  /\ HasArrived(r, stream) /\ Inspected(r, isn, stream)
                      /\ S \in Seq(Bytes) /\ front \in Seq(Bytes)
                      /\ size = 0 => front = <<>> /\ r.seen = S
                      /\ proto = "dns" => WholeMessages(front) /\ Stops(Contiguous(r), 0)
                      /\ proto = "tls" => r.buffer[0] = None
    BY Zenon
  <1>1. IsWindow(m.buffer)
    BY InspectedIs
  <1>2. C \in Seq(Bytes) /\ Len(C) = ContiguousSize(m)
    BY <1>1, ContiguousIs
  <1>3. /\ size \in 0 .. ContiguousSize(m) /\ size \in 0 .. Len(C)
        /\ proto = "dns" => size = Last(Starts(C))
        /\ proto = "tls" => size = Len(C)
    BY <1>2, ConsumableIs
  <1>4. HasArrived(r, stream) /\ Inspected(r, isn, stream)
    BY <1>3, Consuming
  <1>5. /\ Contiguous(r) = SubSeq(C, size + 1, Len(C))
        /\ size = ContiguousSize(m) => r.buffer[0] = None
    <2>1. /\ Contiguous(r) = SubSeq(Contiguous(m), size + 1, Len(Contiguous(m)))
          /\ size = ContiguousSize(m) => r.buffer[0] = None
      BY <1>1, <1>3, RestIs, Zenon
    <2>2. QED
      BY <2>1
  <1>6. PICK rest : rest = SubSeq(C, size + 1, Len(C))
    OBVIOUS
  <1>7. /\ front \in Seq(Bytes) /\ Len(front) = size
        /\ rest \in Seq(Bytes) /\ Len(rest) = Len(C) - size
        /\ \A i \in 1 .. size : front[i] = C[i]
        /\ \A i \in 1 .. Len(C) - size : rest[i] = C[size + i]
    BY <1>2, <1>3, <1>6, SplitAt, Zenon
  <1>8. S \in Seq(Bytes)
    BY DEF HasArrived
  <1>9. ASSUME size = 0 PROVE front = <<>> /\ r.seen = S
    <2>1. front = <<>>
      BY <1>7, <1>9
    <2>2. S \o <<>> = S
      BY <1>8, ConcatEmptySeq
    <2>3. r.seen = S \o front
      BY DEF Consumes
    <2>4. QED
      BY <2>1, <2>2, <2>3
  <1>10. ASSUME proto = "dns" PROVE WholeMessages(front) /\ Stops(Contiguous(r), 0)
    <2>1. size = Last(Starts(C))
      BY <1>3, <1>10
    <2>2. WholeMessages(front) /\ Stops(rest, 0)
      BY <1>2, <1>7, <2>1, FrontIsWhole, Zenon
    <2>3. QED
      BY <1>5, <1>6, <2>2
  <1>11. ASSUME proto = "tls" PROVE r.buffer[0] = None
    BY <1>2, <1>3, <1>5, <1>11
  <1>12. QED
    BY <1>4, <1>7, <1>8, <1>9, <1>10, <1>11, Zenon

(* Then the flow and its parser are what they should be. *)
LEMMA Passed ==
  ASSUME NEW parser, NEW e, SlotInv(e, parser, conn, protocol), e.tracked, ~e.rejected,
         protocol \in {"dns", "tls"}, NEW S, S = e.seen, S \in Seq(Bytes),
         NEW front \in Seq(Bytes), NEW size, size = 0 => front = <<>> /\ S \o front = S,
         NEW r, IsFlow(r), ~r.rejected, r.seen = S \o front,
         HasArrived(r, conn[r.key].stream),
         Inspected(r, conn[r.key].isn, conn[r.key].stream),
         protocol = "dns" => WholeMessages(front) /\ Stops(Contiguous(r), 0),
         protocol = "tls" => r.buffer[0] = None,
         NEW after,
         \/ Judgement(parser, front) = "accept" /\ after = Feed(parser, front)
         \/ size = 0 /\ after = parser
  PROVE  SlotInv(r, after, conn, protocol)
  <1>1. FlowInv(r, conn)
    BY Zenon DEF FlowInv
  <1>2. PICK T : T = S \o front
    OBVIOUS
  <1>3. T \in Seq(Bytes) /\ r.seen = T
    BY <1>2, ConcatProperties
  <1>4. CASE protocol = "dns"
    <2>1. Clean(S, "dns") /\ WholeMessages(S)
      BY <1>4, Zenon DEF SlotInv, CleanInv
    <2>2. \A i \in DOMAIN Bodies(front) : ~Refused(Bodies(front)[i])
      <3>1. CASE Judgement(parser, front) = "accept" /\ after = Feed(parser, front)
        BY <1>4, <3>1, AcceptedMessages, Zenon
      <3>2. CASE size = 0 /\ after = parser
        <4>1. front = <<>>
          BY <3>2
        <4>2. Stops(front, 0)
          BY <4>1 DEF Stops
        <4>3. Bodies(front) = <<>>
          BY <4>2, NoBodies
        <4>4. QED
          BY <4>3
      <3>3. QED
        BY <3>1, <3>2
    <2>3. WholeMessages(front)
      BY <1>4
    <2>4. Clean(T, "dns") /\ WholeMessages(T)
      BY <1>2, <2>1, <2>2, <2>3, CleanConcat, Zenon
    <2>5. Clean(r.seen, protocol) /\ WholeMessages(r.seen) /\ Stops(Contiguous(r), 0)
      BY <1>3, <1>4, <2>4
    <2>6. protocol # "tls"
      BY <1>4
    <2>7. QED
      BY <1>1, <2>5, <2>6, Zenon DEF SlotInv, ParserInv, CleanInv
  <1>5. CASE protocol = "tls"
    <2>1. /\ parser.terminal = "more" => parser.got = S /\ Bodies(S) = <<>>
          /\ parser.terminal # "more" => Len(Bodies(S)) >= 1 /\ ~Refused(Bodies(S)[1])
      BY <1>5, Zenon DEF SlotInv, CleanInv, ParserInv
    <2>2. /\ after.terminal = "more" => after.got = T /\ Bodies(T) = <<>>
          /\ after.terminal # "more" => Len(Bodies(T)) >= 1 /\ ~Refused(Bodies(T)[1])
      <3>1. CASE size = 0 /\ after = parser
        <4>1. T = S
          BY <1>2, <3>1
        <4>2. QED
          BY <2>1, <3>1, <4>1
      <3>2. CASE /\ Judgement(parser, front) = "accept" /\ after = Feed(parser, front)
                 /\ parser.terminal = "more"
        <4>1. parser.got \in Seq(Bytes) /\ T = parser.got \o front
          BY <1>2, <2>1, <3>2
        <4>2. Judgement(parser, front) = "accept" /\ parser.terminal = "more"
          BY <3>2
        <4>3. after = Feed(parser, front)
          BY <3>2
        <4>4. /\ after.got = T
              /\ after.terminal = "more" => Bodies(T) = <<>>
              /\ after.terminal # "more" => Len(Bodies(T)) >= 1 /\ ~Refused(Bodies(T)[1])
          BY <1>5, <4>1, <4>2, <4>3, AcceptedHello
        <4>5. QED
          BY <4>4
      <3>3. CASE /\ Judgement(parser, front) = "accept" /\ after = Feed(parser, front)
                 /\ parser.terminal # "more"
        <4>1. after = parser
          BY <3>3 DEF Feed
        <4>2. Len(Bodies(S)) >= 1 /\ ~Refused(Bodies(S)[1])
          BY <2>1, <3>3
        <4>3. Len(Bodies(T)) >= 1 /\ Bodies(T)[1] = Bodies(S)[1]
          BY <1>2, <4>2, FirstBody, Zenon
        <4>4. QED
          BY <3>3, <4>1, <4>2, <4>3
      <3>4. QED
        BY <3>1, <3>2, <3>3
    <2>3. r.buffer[0] = None
      BY <1>5
    <2>4. protocol # "dns"
      BY <1>5
    <2>5. QED
      BY <1>1, <1>3, <2>2, <2>3, <2>4, Zenon DEF SlotInv, ParserInv, CleanInv
  <1>6. QED
    BY <1>4, <1>5

-----------------------------------------------------------------------------
(* The flow of a segment *)

LEMMA LeastSlot ==
  ASSUME NEW S, S \subseteq Slots, S # {}
  PROVE  Min(S) \in S
  <1>1. S \in SUBSET Nat
    BY DEF Slots
  <1>2. \E n \in S : \A m \in S : n <= m
    BY <1>1, LeastNumber
  <1>3. QED
    BY <1>2 DEF Min

(* An entry with other deadlines. *)
LEMMA SlotSame ==
  ASSUME NEW e, NEW r, NEW parser, NEW c, NEW proto, SlotInv(e, parser, c, proto),
         Same(r, e), r.base = e.base, r.buffer = e.buffer, r.seen = e.seen, r.arrived = e.arrived
  PROVE  SlotInv(r, parser, c, proto)
  <1>1. IsFlow(e) /\ r.key = e.key /\ r.rejected = e.rejected /\ r.tracked = e.tracked
    BY Zenon DEF SlotInv, FlowInv, Same
  <1>2. IsFlow(r)
    BY <1>1, SameIsFlow
  <1>3. Readable(r) = Readable(e)
    BY DEF Readable, Reached
  <1>4. Contiguous(r) = Contiguous(e)
    BY DEF Contiguous, ContiguousSize, Present
  <1>5. \A stream : HasArrived(e, stream) => HasArrived(r, stream)
    BY Zenon DEF HasArrived
  <1>6. \A isn, stream : Inspected(e, isn, stream) => Inspected(r, isn, stream)
    BY Zenon DEF Inspected
  <1>7. FlowInv(r, c)
    BY <1>1, <1>2, <1>5, <1>6, Zenon DEF SlotInv, FlowInv
  <1>8. ParserInv(r, parser, proto)
    BY <1>1, Zenon DEF SlotInv, ParserInv
  <1>9. CleanInv(r, parser, proto)
    BY <1>1, <1>3, <1>4, Zenon DEF SlotInv, CleanInv
  <1>10. QED
    BY <1>7, <1>8, <1>9 DEF SlotInv

LEMMA SlotConn ==
  ASSUME NEW e, NEW parser, NEW c, NEW d, NEW proto, SlotInv(e, parser, c, proto),
         e.tracked => d[e.key].isn = c[e.key].isn /\ d[e.key].stream = c[e.key].stream
  PROVE  SlotInv(e, parser, d, proto)
  BY Zenon DEF SlotInv, FlowInv

LEMMA SlotParser ==
  ASSUME NEW e, NEW parser, NEW other, NEW c, NEW proto, SlotInv(e, parser, c, proto), proto # "tls"
  PROVE  SlotInv(e, other, c, proto)
  BY Zenon DEF SlotInv, ParserInv, CleanInv

(* Entries that are expired are gone. *)
LEMMA LiveIs ==
  ASSUME StreamInv
  PROVE  /\ Live = [s \in Slots |-> Live[s]]
         /\ \A s \in Slots : SlotInv(Live[s], parsers[s], conn, protocol)
  <1>1. Live = [s \in Slots |-> Live[s]]
    BY DEF Live
  <1>2. ASSUME NEW s \in Slots PROVE SlotInv(Live[s], parsers[s], conn, protocol)
    <2>1. CASE Expired(entries[s])
      <3>1. Live[s] = Unused
        BY <2>1 DEF Live
      <3>2. QED
        BY <3>1, UnusedIs, SlotUntracked
    <2>2. CASE ~Expired(entries[s])
      <3>1. Live[s] = entries[s]
        BY <2>2 DEF Live
      <3>2. QED
        BY <3>1, Zenon DEF StreamInv
    <2>3. QED
      BY <2>1, <2>2
  <1>3. QED
    BY <1>1, <1>2

(* The first SYN of a connection begins a flow that is followed. *)
LEMMA FreshSlot ==
  ASSUME ConnectionInv, NEW k \in Keys, NEW e, IsFlow(e), e.key = k, ~e.rejected,
         e.base = (conn[k].isn + 1 + 0) % Modulus, e.buffer = Blank,
         e.seen = <<>>, e.arrived = <<>>
  PROVE  SlotInv(e, InitialParser, conn, protocol)
  <1>1. PICK isn, stream, none : isn = conn[k].isn /\ stream = conn[k].stream /\ none = <<>>
    OBVIOUS
  <1>2. isn \in Nat /\ Len(stream) \in Nat /\ protocol \in {"dns", "tls"}
    BY <1>1, ConnectionIs
  <1>3. none \in Seq(Bytes) /\ Len(none) = 0 /\ DOMAIN none = {}
    BY <1>1
  <1>4. e.seen = none /\ e.arrived = none
    BY <1>1
  <1>5. HasArrived(e, stream)
    BY <1>3, <1>4 DEF HasArrived
  <1>6. e.buffer = [i \in 0 .. Window - 1 |-> None]
    BY DEF Blank
  <1>7. Inspected(e, isn, stream)
    <2>1. e.buffer = [i \in 0 .. Window - 1 |->
                        IF 0 + i \in DOMAIN e.arrived THEN e.arrived[0 + i] ELSE None]
      BY <1>3, <1>4, <1>6
    <2>2. e.base = (isn + 1 + 0) % Modulus /\ Len(e.seen) = 0
      BY <1>1, <1>3, <1>4
    <2>3. \A i \in 1 .. 0 : i - 1 \in DOMAIN e.arrived /\ e.seen[i] = e.arrived[i - 1]
      OBVIOUS
    <2>4. \A p \in DOMAIN e.arrived : p < 0 + Window
      BY <1>3, <1>4
    <2>5. QED
      BY <2>1, <2>2, <2>3, <2>4 DEF Inspected
  <1>8. FlowInv(e, conn)
    BY <1>1, <1>5, <1>7, Zenon DEF FlowInv
  <1>9. InitialParser.got = none /\ InitialParser.terminal = "more"
    BY <1>1 DEF InitialParser
  <1>10. ParserInv(e, InitialParser, protocol)
    BY <1>4, <1>9, Zenon DEF ParserInv
  <1>11. Stops(none, 0)
    BY <1>3 DEF Stops
  <1>12. Bodies(none) = <<>> /\ Last(Starts(none)) = 0
    BY <1>3, <1>11, NoBodies
  <1>13. Clean(none, protocol) /\ WholeMessages(none)
    BY <1>3, <1>12 DEF Clean, WholeMessages
  <1>14. Window \in Nat \ {0} /\ 0 \in 0 .. Window - 1 /\ 0 \in 0 .. Window
    BY LimitsAre
  <1>15. e.buffer[0] = None /\ IsWindow(e.buffer)
    BY <1>6, <1>14 DEF IsWindow
  <1>16. Stops(Contiguous(e), 0)
    <2>1. \A i \in 0 .. 0 - 1 : e.buffer[i] \in Bytes
      OBVIOUS
    <2>2. ContiguousSize(e) = 0
      BY <1>14, <1>15, <2>1, ContiguousUnique
    <2>3. Len(Contiguous(e)) = 0
      BY <1>15, <2>2, ContiguousIs
    <2>4. QED
      BY <2>3 DEF Stops
  <1>17. CleanInv(e, InitialParser, protocol)
    <2>1. e.seen = none /\ Bodies(e.seen) = <<>>
      BY <1>4, <1>12
    <2>2. Clean(e.seen, protocol) /\ WholeMessages(e.seen)
      BY <1>13, <2>1
    <2>3. QED
      BY <1>9, <1>15, <1>16, <2>1, <2>2, Zenon DEF CleanInv
  <1>18. QED
    BY <1>8, <1>10, <1>17 DEF SlotInv

(* The entry a segment is given, with its parser. *)
LEMMA EntryIs ==
  ASSUME StreamInv, NEW k \in Keys, NEW g \in Segments[conn[k].stream], HasFlow(k, g)
  PROVE  LET e == EntryFor(k, g)
         IN /\ SlotFor(k) \in Slots /\ SlotInv(e, ParserFor(k, g), conn, protocol)
            /\ ~e.rejected /\ e.key = k
  <1>1. ConnectionInv /\ \A s \in Slots : SlotInv(entries[s], parsers[s], conn, protocol)
    BY Zenon DEF StreamInv
  <1>2. PICK sl : sl = SlotFor(k)
    OBVIOUS
  <1>3. Existing(k) \subseteq Slots
    BY DEF Existing
  <1>4. sl \in Slots /\ (Existing(k) # {} => sl \in Existing(k))
    <2>1. CASE Existing(k) # {}
      <3>1. sl = Min(Existing(k)) /\ Min(Existing(k)) \in Existing(k)
        BY <1>2, <1>3, <2>1, LeastSlot DEF SlotFor
      <3>2. QED
        BY <1>3, <3>1
    <2>2. CASE Existing(k) = {}
      <3>1. sl = FirstFree
        BY <1>2, <2>2 DEF SlotFor
      <3>2. NewFlow(k, g)
        BY <2>2 DEF NewFlow
      <3>3. Room(k)
        BY <2>2, <3>2 DEF HasFlow
      <3>4. PICK F : F = {s \in Slots : Free(s)}
        OBVIOUS
      <3>5. F \subseteq Slots /\ F # {}
        BY <3>3, <3>4 DEF Room
      <3>6. Min(F) \in F
        BY <3>5, LeastSlot
      <3>7. QED
        BY <2>2, <3>1, <3>4, <3>5, <3>6 DEF FirstFree
    <2>3. QED
      BY <2>1, <2>2
  <1>5. PICK e0 : e0 = IF NewFlow(k, g)
                       THEN Fresh(k, SeqNumber(k, g.pos), g.syn /\ ~conn[k].begun)
                       ELSE [entries[sl] EXCEPT !.idle = IdleTimeout]
    OBVIOUS
  <1>6. PICK e, o : e = EntryFor(k, g) /\ o = (e0.orderly /\ InOrder(conn[k].stream, e0, g))
    OBVIOUS
  <1>7. e = [e0 EXCEPT !.orderly = o]
    BY <1>2, <1>5, <1>6 DEF EntryFor
  <1>8. ASSUME IsFlow(e0)
        PROVE  /\ Same(e, e0) /\ e.base = e0.base /\ e.buffer = e0.buffer
               /\ e.seen = e0.seen /\ e.arrived = e0.arrived
    <2>1. e0 = [field \in FlowFields |-> e0[field]]
      BY <1>8 DEF IsFlow
    <2>2. e = [field \in FlowFields |-> e[field]]
      BY <1>7, <2>1
    <2>3. e.key = e0.key /\ e.rejected = e0.rejected /\ e.tracked = e0.tracked
      BY <1>7, <2>1 DEF FlowFields
    <2>4. e.base = e0.base /\ e.buffer = e0.buffer /\ e.seen = e0.seen /\ e.arrived = e0.arrived
      BY <1>7, <2>1 DEF FlowFields
    <2>5. QED
      BY <2>2, <2>3, <2>4 DEF Same
  <1>9. ASSUME SlotInv(e0, ParserFor(k, g), conn, protocol), ~e0.rejected, e0.key = k
        PROVE  SlotInv(e, ParserFor(k, g), conn, protocol) /\ ~e.rejected /\ e.key = k
    <2>1. IsFlow(e0)
      BY <1>9 DEF SlotInv, FlowInv
    <2>2. /\ Same(e, e0) /\ e.base = e0.base /\ e.buffer = e0.buffer
          /\ e.seen = e0.seen /\ e.arrived = e0.arrived
      BY <1>8, <2>1
    <2>3. SlotInv(e, ParserFor(k, g), conn, protocol)
      BY <1>9, <2>2, SlotSame
    <2>4. QED
      BY <1>9, <2>2, <2>3, Zenon DEF Same
  <1>10. CASE NewFlow(k, g)
    <2>1. PICK seq, whole : seq = SeqNumber(k, g.pos) /\ whole = (g.syn /\ ~conn[k].begun)
      OBVIOUS
    <2>2. e0 = Fresh(k, seq, whole) /\ whole \in BOOLEAN
      BY <1>5, <1>10, <2>1
    <2>3. /\ IsFlow(e0) /\ e0.key = k /\ e0.base = seq /\ e0.buffer = Blank
          /\ e0.rejected = FALSE /\ e0.tracked = whole /\ e0.seen = <<>> /\ e0.arrived = <<>>
      <3>1. whole \in BOOLEAN
        BY <2>2
      <3>2. LET f == Fresh(k, seq, whole)
            IN /\ IsFlow(f) /\ f.key = k /\ f.base = seq /\ f.buffer = Blank
               /\ f.rejected = FALSE /\ f.tracked = whole /\ f.seen = <<>> /\ f.arrived = <<>>
        BY <3>1, FreshIs, ZenonT(40)
      <3>3. QED
        BY <2>2, <3>2, Zenon
    <2>4. ParserFor(k, g) = InitialParser
      BY <1>10 DEF ParserFor
    <2>5. SlotInv(e0, InitialParser, conn, protocol)
      <3>1. CASE ~whole
        BY <2>3, <3>1, SlotUntracked
      <3>2. CASE whole
        <4>1. g.syn
          BY <2>1, <3>2
        <4>2. conn[k].stream \in Streams[k]
          BY <1>1, ConnectionIs
        <4>3. g.pos = 0
          BY <4>1, <4>2, SegmentIs
        <4>4. e0.base = (conn[k].isn + 1 + 0) % Modulus
          BY <2>1, <2>3, <4>3 DEF SeqNumber
        <4>5. QED
          BY <1>1, <2>3, <4>4, FreshSlot
      <3>3. QED
        BY <3>1, <3>2
    <2>6. QED
      BY <1>2, <1>4, <1>6, <1>9, <2>3, <2>4, <2>5
  <1>11. CASE ~NewFlow(k, g)
    <2>1. sl \in Existing(k) /\ sl = Min(Existing(k))
      BY <1>2, <1>4, <1>11 DEF NewFlow, SlotFor
    <2>2. ~entries[sl].rejected /\ entries[sl].key = k
      <3>1. ~entries[sl].rejected
        BY <1>11, <2>1 DEF HasFlow
      <3>2. entries[sl].key = k
        BY <2>1 DEF Existing
      <3>3. QED
        BY <3>1, <3>2
    <2>3. SlotInv(entries[sl], parsers[sl], conn, protocol)
      BY <1>1, <1>4
    <2>4. ParserFor(k, g) = parsers[sl]
      BY <1>2, <1>11 DEF ParserFor
    <2>5. e0 = [entries[sl] EXCEPT !.idle = IdleTimeout]
      BY <1>5, <1>11
    <2>6. PICK f : f = entries[sl]
      OBVIOUS
    <2>7. f = [field \in FlowFields |-> f[field]]
      BY <2>3, <2>6 DEF SlotInv, FlowInv, IsFlow
    <2>8. e0 = [f EXCEPT !.idle = IdleTimeout]
      BY <2>5, <2>6
    <2>9. e0 = [field \in FlowFields |-> e0[field]]
      BY <2>7, <2>8
    <2>10. e0.key = f.key /\ e0.rejected = f.rejected /\ e0.tracked = f.tracked
      BY <2>7, <2>8 DEF FlowFields
    <2>11. e0.base = f.base /\ e0.buffer = f.buffer /\ e0.seen = f.seen /\ e0.arrived = f.arrived
      BY <2>7, <2>8 DEF FlowFields
    <2>12. Same(e0, f)
      BY <2>9, <2>10 DEF Same
    <2>13. SlotInv(e0, ParserFor(k, g), conn, protocol)
      BY <2>3, <2>4, <2>6, <2>11, <2>12, SlotSame
    <2>14. ~e0.rejected /\ e0.key = k
      BY <2>2, <2>6, <2>10
    <2>15. QED
      BY <1>2, <1>4, <1>6, <1>9, <2>13, <2>14
  <1>12. QED
    BY <1>10, <1>11

-----------------------------------------------------------------------------
(* Steps *)

(* A step that keeps the connections as they are, or marks one as begun. *)
LEMMA ConnectionsKept ==
  ASSUME ConnectionInv, protocol' = protocol,
         conn' = conn \/ \E k \in Keys : Begin(k)
  PROVE  /\ ConnectionInv'
         /\ \A k \in Keys : conn'[k].isn = conn[k].isn /\ conn'[k].stream = conn[k].stream
  <1>1. CASE conn' = conn
    BY <1>1 DEF ConnectionInv
  <1>2. CASE \E k \in Keys : Begin(k)
    <2>1. PICK k \in Keys : conn' = [conn EXCEPT ![k].begun = TRUE]
      BY <1>2 DEF Begin
    <2>2. /\ conn = [j \in Keys |-> conn[j]] /\ protocol \in Protocols
          /\ \A j \in Keys :
               /\ conn[j] = [isn |-> conn[j].isn, stream |-> conn[j].stream, begun |-> conn[j].begun]
               /\ conn[j].isn \in Isns /\ conn[j].stream \in Streams[j]
      BY DEF ConnectionInv
    <2>3. conn' = [j \in Keys |-> conn'[j]]
      BY <2>1, <2>2
    <2>4. ASSUME NEW j \in Keys
          PROVE  /\ conn'[j] = [isn |-> conn'[j].isn, stream |-> conn'[j].stream,
                                begun |-> conn'[j].begun]
                 /\ conn'[j].isn = conn[j].isn /\ conn'[j].stream = conn[j].stream
      <3>1. CASE j = k
        <4>1. conn'[j] = [conn[j] EXCEPT !.begun = TRUE]
          BY <2>1, <2>2, <3>1
        <4>2. conn[j] = [isn |-> conn[j].isn, stream |-> conn[j].stream, begun |-> conn[j].begun]
          BY <2>2
        <4>3. conn'[j] = [isn |-> conn[j].isn, stream |-> conn[j].stream, begun |-> TRUE]
          BY <4>1, <4>2
        <4>4. QED
          BY <4>3
      <3>2. CASE j # k
        <4>1. conn'[j] = conn[j]
          BY <2>1, <2>2, <3>2
        <4>2. QED
          BY <2>2, <4>1
      <3>3. QED
        BY <3>1, <3>2
    <2>5. QED
      BY <2>2, <2>3, <2>4 DEF ConnectionInv
  <1>3. QED
    BY <1>1, <1>2

LEMMA StreamStep ==
  ASSUME StreamInv, protocol' = protocol, conn' = conn \/ \E k \in Keys : Begin(k),
         entries' = [s \in Slots |-> entries'[s]], parsers' = [s \in Slots |-> parsers'[s]],
         \A s \in Slots : SlotInv(entries'[s], parsers'[s], conn, protocol)
  PROVE  StreamInv'
  <1>1. ConnectionInv
    BY DEF StreamInv
  <1>2. /\ ConnectionInv'
        /\ \A k \in Keys : conn'[k].isn = conn[k].isn /\ conn'[k].stream = conn[k].stream
    BY <1>1, ConnectionsKept
  <1>3. ASSUME NEW s \in Slots PROVE SlotInv(entries'[s], parsers'[s], conn', protocol')
    <2>1. PICK e, p, c, d : e = entries'[s] /\ p = parsers'[s] /\ c = conn /\ d = conn'
      OBVIOUS
    <2>2. SlotInv(e, p, c, protocol)
      BY <2>1
    <2>3. e.tracked => e.key \in Keys
      BY <2>2, Zenon DEF SlotInv, FlowInv, IsFlow
    <2>4. e.tracked => d[e.key].isn = c[e.key].isn /\ d[e.key].stream = c[e.key].stream
      BY <1>2, <2>1, <2>3
    <2>5. SlotInv(e, p, d, protocol)
      BY <2>2, <2>4, SlotConn
    <2>6. QED
      BY <2>1, <2>5
  <1>4. QED
    BY <1>2, <1>3 DEF StreamInv

(* The entry of a segment is stored, with the parser of its slot. *)
LEMMA StoreStep ==
  ASSUME StreamInv, NEW k \in Keys, NEW x, NEW parser, SlotFor(k) \in Slots,
         SlotInv(x, parser, conn, protocol), Store(k, x), SetParser(k, parser),
         protocol' = protocol, conn' = conn \/ Begin(k)
  PROVE  StreamInv'
  <1>1. PICK sl : sl = SlotFor(k)
    OBVIOUS
  <1>2. /\ Live = [s \in Slots |-> Live[s]]
        /\ \A s \in Slots : SlotInv(Live[s], parsers[s], conn, protocol)
    BY LiveIs
  <1>3. parsers = [s \in Slots |-> parsers[s]] /\ sl \in Slots
    BY <1>1 DEF StreamInv
  <1>4. entries' = [Live EXCEPT ![sl] = x]
    BY <1>1 DEF Store
  <1>5. parsers' = IF protocol = "tls" THEN [parsers EXCEPT ![sl] = parser] ELSE parsers
    BY <1>1 DEF SetParser
  <1>6. entries' = [s \in Slots |-> entries'[s]]
    BY <1>2, <1>4
  <1>7. parsers' = [s \in Slots |-> parsers'[s]]
    BY <1>3, <1>5
  <1>8. ASSUME NEW s \in Slots PROVE SlotInv(entries'[s], parsers'[s], conn, protocol)
    <2>1. CASE s = sl
      <3>1. entries'[s] = x
        BY <1>2, <1>4, <2>1
      <3>2. CASE protocol = "tls"
        <4>1. parsers'[s] = parser
          BY <1>3, <1>5, <2>1, <3>2
        <4>2. QED
          BY <3>1, <4>1
      <3>3. CASE protocol # "tls"
        BY <3>1, <3>3, SlotParser
      <3>4. QED
        BY <3>2, <3>3
    <2>2. CASE s # sl
      <3>1. entries'[s] = Live[s] /\ parsers'[s] = parsers[s]
        BY <1>2, <1>3, <1>4, <1>5, <2>2
      <3>2. QED
        BY <1>2, <3>1
    <2>3. QED
      BY <2>1, <2>2
  <1>9. QED
    BY <1>6, <1>7, <1>8, StreamStep

(* What a FIN leaves of an entry and of the parser. *)
LEMMA EndsIs ==
  ASSUME ConnectionInv, NEW e, NEW parser, SlotInv(e, parser, conn, protocol), NEW g
  PROVE  SlotInv(Ends(g, e), FinParser(g, parser), conn, protocol)
  <1>1. CASE g.fin
    <2>1. CASE HasBytes(e)
      <3>1. Ends(g, e) = Rejected(e)
        BY <1>1, <2>1 DEF Ends, AfterFin
      <3>2. IsFlow(e) /\ (e.tracked => e.seen \in Seq(Bytes))
        BY Zenon DEF SlotInv, FlowInv, HasArrived
      <3>3. PICK r : r = Rejected(e)
        OBVIOUS
      <3>4. /\ IsFlow(r) /\ r.rejected /\ r.key = e.key /\ r.tracked = e.tracked
            /\ r.seen = e.seen /\ r.arrived = e.arrived
        BY <3>2, <3>3, RejectedIs
      <3>5. SlotInv(r, FinParser(g, parser), conn, protocol)
        BY <3>2, <3>4, SlotRejected
      <3>6. QED
        BY <3>1, <3>3, <3>5
    <2>2. CASE ~HasBytes(e)
      <3>1. Ends(g, e) = Unused
        BY <1>1, <2>2 DEF Ends, AfterFin
      <3>2. QED
        BY <3>1, UnusedIs, SlotUntracked
    <2>3. QED
      BY <2>1, <2>2
  <1>2. CASE ~g.fin
    BY <1>2 DEF Ends, FinParser
  <1>3. QED
    BY <1>1, <1>2

(* Nothing is consumed. *)
LEMMA ConsumesNothing ==
  ASSUME NEW m, NEW isn \in Nat, NEW stream, Len(stream) \in Nat,
         HasArrived(m, stream), Inspected(m, isn, stream)
  PROVE  Consumes(m, m, 0)
  <1>1. PICK n, S, C, B : n = Len(m.seen) /\ S = m.seen /\ C = Contiguous(m) /\ B = m.buffer
    OBVIOUS
  <1>2. n \in Nat /\ S \in Seq(Bytes) /\ IsWindow(B) /\ Window \in Nat \ {0}
    BY <1>1, InspectedIs, LimitsAre DEF HasArrived
  <1>3. m.base = (m.base + 0) % Modulus
    <2>1. m.base = (isn + 1 + n) % Modulus
      BY <1>1 DEF Inspected
    <2>2. (((isn + 1 + n) % Modulus) + 0) % Modulus = (isn + 1 + (n + 0)) % Modulus
      BY <1>2, BaseAdvances
    <2>3. n + 0 = n
      BY <1>2
    <2>4. QED
      BY <2>1, <2>2, <2>3
  <1>4. SubSeq(C, 1, 0) = <<>>
    BY SubSeqEmpty
  <1>5. S = S \o SubSeq(C, 1, 0)
    BY <1>2, <1>4, ConcatEmptySeq
  <1>6. B = [i \in DOMAIN Blank |-> IF i + 0 < Window THEN B[i + 0] ELSE None]
    <2>1. \A i \in 0 .. Window - 1 : i + 0 = i /\ i < Window
      BY <1>2
    <2>2. B = [i \in 0 .. Window - 1 |-> B[i]]
      BY <1>2 DEF IsWindow
    <2>3. [i \in 0 .. Window - 1 |-> IF i + 0 < Window THEN B[i + 0] ELSE None]
            = [i \in 0 .. Window - 1 |-> B[i]]
      BY <2>1
    <2>4. QED
      BY <2>2, <2>3 DEF Blank
  <1>7. QED
    BY <1>1, <1>3, <1>5, <1>6 DEF Consumes

(* A segment that is taken, f being the flow with its bytes: what is stored *)
(* when it completes nothing, and when what it completes passes; and what is *)
(* left when it does not.                                                   *)
WellFollowed(k, g, e, parser, f) ==
  LET size  == Consumable(Contiguous(f))
      front == SubSeq(Contiguous(f), 1, size)
      rest  == ConsumePrefix(f, size)
  IN /\ IsFlow(rest) /\ rest.key = k /\ rest.tracked = e.tracked
     /\ e.tracked => rest.seen \in Seq(Bytes) /\ rest.arrived = e.arrived
     /\ size = 0 => SlotInv(Forwarded(f, g), parser, conn, protocol)
     /\ Judgement(parser, front) = "accept" =>
          SlotInv(Forwarded(rest, g), Feed(parser, front), conn, protocol)

LEMMA Followed ==
  ASSUME ConnectionInv, NEW k \in Keys, NEW e, NEW parser,
         SlotInv(e, parser, conn, protocol), ~e.rejected, e.key = k,
         NEW g \in Segments[conn[k].stream],
         ~(OffsetIn(e, SeqNumber(k, g.pos)) + Len(g.data) <= 0),
         Acceptable(e, NewPart(k, e, g))
  PROVE  WellFollowed(k, g, e, parser, Filled(e, NewPart(k, e, g)))
  <1> SUFFICES ASSUME NEW f, f = Filled(e, NewPart(k, e, g)),
                      NEW size, size = Consumable(Contiguous(f)),
                      NEW front, front = SubSeq(Contiguous(f), 1, size),
                      NEW rest, rest = ConsumePrefix(f, size)
               PROVE  /\ IsFlow(rest) /\ rest.key = k /\ rest.tracked = e.tracked
                      /\ e.tracked => rest.seen \in Seq(Bytes) /\ rest.arrived = e.arrived
                      /\ size = 0 => SlotInv(Forwarded(f, g), parser, conn, protocol)
                      /\ Judgement(parser, front) = "accept" =>
                           SlotInv(Forwarded(rest, g), Feed(parser, front), conn, protocol)
    BY Zenon DEF WellFollowed
  <1>1. IsFlow(e)
    BY Zenon DEF SlotInv, FlowInv
  <1>2. Same(f, e) /\ f.base = e.base /\ f.seen = e.seen /\ f.arrived = e.arrived
    BY <1>1, FilledIs
  <1>3. IsFlow(f)
    BY <1>1, <1>2, SameIsFlow
  <1>4. Same(rest, f) /\ rest.arrived = f.arrived /\ (f.tracked => Consumes(rest, f, size))
    BY <1>3, ConsumedIs, Zenon
  <1>5. IsFlow(rest)
    BY <1>3, <1>4, SameIsFlow
  <1>6. PICK m, x : m = Forwarded(f, g) /\ x = Forwarded(rest, g)
    OBVIOUS
  <1>7. /\ Same(m, f) /\ m.base = f.base /\ m.buffer = f.buffer /\ m.seen = f.seen
        /\ f.tracked => m.arrived = Arrivals(f.arrived, g)
    BY <1>3, <1>6, ForwardedIs
  <1>8. /\ Same(x, rest) /\ x.base = rest.base /\ x.buffer = rest.buffer /\ x.seen = rest.seen
        /\ rest.tracked => x.arrived = Arrivals(rest.arrived, g)
    BY <1>5, <1>6, ForwardedIs
  <1>9. IsFlow(m) /\ IsFlow(x)
    BY <1>3, <1>5, <1>7, <1>8, SameIsFlow
  <1>10. /\ f.key = k /\ rest.key = k /\ m.key = k /\ x.key = k
         /\ ~m.rejected /\ ~x.rejected
         /\ f.tracked = e.tracked /\ rest.tracked = e.tracked
         /\ m.tracked = e.tracked /\ x.tracked = e.tracked
    BY <1>2, <1>4, <1>7, <1>8, Zenon DEF Same
  <1>11. CASE ~e.tracked
    <2>1. ~m.tracked /\ ~x.tracked
      BY <1>10, <1>11
    <2>2. SlotInv(m, parser, conn, protocol)
      BY <1>9, <2>1, SlotUntracked
    <2>3. SlotInv(x, Feed(parser, front), conn, protocol)
      BY <1>9, <2>1, SlotUntracked
    <2>4. QED
      BY <1>5, <1>6, <1>10, <1>11, <2>2, <2>3
  <1>12. CASE e.tracked
    <2>1. PICK isn, stream : isn = conn[k].isn /\ stream = conn[k].stream
      OBVIOUS
    <2>2. isn \in Nat /\ Len(stream) \in Nat /\ protocol \in {"dns", "tls"}
      BY <2>1, ConnectionIs
    <2>3. f.tracked /\ rest.tracked
      BY <1>10, <1>12
    <2>4. HasArrived(m, stream) /\ Inspected(m, isn, stream)
      <3>1. m.base = e.base /\ m.seen = e.seen
        BY <1>2, <1>7
      <3>2. m.arrived = Arrivals(e.arrived, g) /\ m.buffer = Filled(e, NewPart(k, e, g)).buffer
        BY <1>2, <1>7, <2>3
      <3>3. HasArrived(m, conn[k].stream) /\ Inspected(m, conn[k].isn, conn[k].stream)
        BY <1>12, <3>1, <3>2, Taken
      <3>4. QED
        BY <2>1, <3>3
    <2>5. Contiguous(m) = Contiguous(f)
      BY <1>7 DEF Contiguous, ContiguousSize, Present
    <2>6. PICK S, C : S = m.seen /\ C = Contiguous(m)
      OBVIOUS
    <2>7. size = Consumable(C) /\ front = SubSeq(C, 1, size) /\ S = e.seen /\ S = f.seen
      BY <1>2, <1>7, <2>5, <2>6
    <2>8. Consumes(x, m, size)
      <3> USE DEF Consumes
      <3>1. x.base = (m.base + size) % Modulus
        BY <1>4, <1>7, <1>8, <2>3
      <3>2. x.arrived = m.arrived
        BY <1>4, <1>7, <1>8, <2>3
      <3>3. x.seen = m.seen \o SubSeq(Contiguous(m), 1, size)
        BY <1>4, <1>7, <1>8, <2>3, <2>5
      <3>4. x.buffer = [i \in DOMAIN Blank |->
                          IF i + size < Window THEN m.buffer[i + size] ELSE None]
        BY <1>4, <1>7, <1>8, <2>3
      <3>5. QED
        BY <3>1, <3>2, <3>3, <3>4 DEF Consumes
    <2>9. /\ HasArrived(x, stream) /\ Inspected(x, isn, stream)
          /\ S \in Seq(Bytes) /\ front \in Seq(Bytes)
          /\ protocol = "dns" => WholeMessages(front) /\ Stops(Contiguous(x), 0)
          /\ protocol = "tls" => x.buffer[0] = None
      <3>1. Consumes(x, m, Consumable(Contiguous(m)))
        BY <2>6, <2>7, <2>8
      <3>2. LET z == Consumable(Contiguous(m))
                y == SubSeq(Contiguous(m), 1, z)
            IN /\ HasArrived(x, stream) /\ Inspected(x, isn, stream)
               /\ m.seen \in Seq(Bytes) /\ y \in Seq(Bytes)
               /\ protocol = "dns" => WholeMessages(y) /\ Stops(Contiguous(x), 0)
               /\ protocol = "tls" => x.buffer[0] = None
        BY <2>2, <2>4, <3>1, Advance, SMTT(90)
      <3>3. QED
        BY <2>6, <2>7, <3>2, Zenon
    <2>10. x.seen = S \o front
      BY <2>6, <2>7, <2>8 DEF Consumes
    <2>11. rest.seen \in Seq(Bytes) /\ rest.arrived = e.arrived
      <3>1. rest.seen = S \o front /\ rest.arrived = e.arrived
        BY <1>2, <1>4, <1>8, <2>10
      <3>2. S \o front \in Seq(Bytes)
        BY <2>9, ConcatProperties
      <3>3. QED
        BY <3>1, <3>2
    <2>12. ASSUME Judgement(parser, front) = "accept"
           PROVE  SlotInv(x, Feed(parser, front), conn, protocol)
      <3>1. HasArrived(x, conn[x.key].stream) /\ Inspected(x, conn[x.key].isn, conn[x.key].stream)
        BY <1>10, <2>1, <2>9
      <3>2. PICK z : z = 1
        OBVIOUS
      <3>3. z = 0 => front = <<>> /\ S \o front = S
        BY <3>2
      <3>4. PICK after : after = Feed(parser, front)
        OBVIOUS
      <3>5. SlotInv(x, after, conn, protocol)
        BY <1>9, <1>10, <1>12, <2>2, <2>7, <2>9, <2>10, <2>12, <3>1, <3>3, <3>4, Passed
      <3>6. QED
        BY <3>4, <3>5
    <2>13. ASSUME size = 0 PROVE SlotInv(m, parser, conn, protocol)
      <3>1. Consumes(m, m, size)
        BY <2>2, <2>4, <2>13, ConsumesNothing
      <3>2. /\ front \in Seq(Bytes) /\ front = <<>> /\ m.seen = S
            /\ protocol = "dns" => WholeMessages(front) /\ Stops(Contiguous(m), 0)
            /\ protocol = "tls" => m.buffer[0] = None
        <4>1. Consumes(m, m, Consumable(Contiguous(m)))
          BY <2>6, <2>7, <3>1
        <4>2. LET z == Consumable(Contiguous(m))
                  y == SubSeq(Contiguous(m), 1, z)
              IN /\ y \in Seq(Bytes) /\ (z = 0 => y = <<>>)
                 /\ protocol = "dns" => WholeMessages(y) /\ Stops(Contiguous(m), 0)
                 /\ protocol = "tls" => m.buffer[0] = None
          BY <2>2, <2>4, <4>1, Advance, ZenonT(90)
        <4>3. QED
          BY <2>6, <2>7, <2>13, <4>2, Zenon
      <3>3. S \o front = S
        BY <2>9, <3>2, ConcatEmptySeq
      <3>4. HasArrived(m, conn[m.key].stream) /\ Inspected(m, conn[m.key].isn, conn[m.key].stream)
        BY <1>10, <2>1, <2>4
      <3>5. m.seen = S \o front
        BY <3>2, <3>3
      <3>6. QED
        BY <1>9, <1>10, <1>12, <2>2, <2>7, <2>9, <2>13, <3>2, <3>3, <3>4, <3>5, Passed
    <2>14. QED
      BY <1>5, <1>6, <1>10, <2>11, <2>12, <2>13
  <1>13. QED
    BY <1>11, <1>12

(* What is left of a flow that is refused, wherever it is stored. *)
LEMMA RejectedSlot ==
  ASSUME ConnectionInv, NEW e, NEW parser, SlotInv(e, parser, conn, protocol),
         NEW rest, IsFlow(rest), rest.key = e.key, rest.tracked = e.tracked,
         e.tracked => rest.seen \in Seq(Bytes) /\ rest.arrived = e.arrived,
         NEW x, NEW other, x = Rejected(rest) \/ \E b : x = [Rejected(rest) EXCEPT !.base = b]
  PROVE  SlotInv(x, other, conn, protocol)
  <1>1. PICK r : r = Rejected(rest)
    OBVIOUS
  <1>2. /\ IsFlow(r) /\ r.rejected /\ r.key = e.key /\ r.tracked = e.tracked
        /\ r.seen = rest.seen /\ r.arrived = rest.arrived
    BY <1>1, RejectedIs
  <1>3. CASE x = r
    <2>1. e.tracked => r.seen \in Seq(Bytes) /\ r.arrived = e.arrived
      BY <1>2
    <2>2. SlotInv(r, other, conn, protocol)
      BY <1>2, <2>1, SlotRejected
    <2>3. QED
      BY <1>3, <2>2
  <1>4. CASE \E b : x = [r EXCEPT !.base = b]
    <2>1. PICK b : x = [r EXCEPT !.base = b]
      BY <1>4
    <2>2. r = [field \in FlowFields |-> r[field]]
      BY <1>2 DEF IsFlow
    <2>3. x = [field \in FlowFields |-> x[field]]
      BY <2>1, <2>2
    <2>4. /\ x.key = r.key /\ x.rejected = r.rejected /\ x.tracked = r.tracked
          /\ x.seen = r.seen /\ x.arrived = r.arrived
      BY <2>1, <2>2 DEF FlowFields
    <2>5. IsFlow(x)
      BY <1>2, <2>3, <2>4, SameIsFlow DEF Same
    <2>6. x.rejected /\ x.key = e.key /\ x.tracked = e.tracked
      BY <1>2, <2>4, Zenon
    <2>7. e.tracked => x.seen \in Seq(Bytes) /\ x.arrived = e.arrived
      BY <1>2, <2>4
    <2>8. QED
      BY <2>5, <2>6, <2>7, SlotRejected
  <1>5. QED
    BY <1>1, <1>3, <1>4

(* Refusing the flow of a segment, in its slot or in another one. *)
LEMMA RejectStep ==
  ASSUME StreamInv, NEW k \in Keys, NEW g, SlotFor(k) \in Slots,
         NEW e, NEW parser, SlotInv(e, parser, conn, protocol),
         NEW rest, IsFlow(rest), rest.key = e.key, rest.tracked = e.tracked,
         e.tracked => rest.seen \in Seq(Bytes) /\ rest.arrived = e.arrived,
         NEW after, entries' = RejectFlow(k, g, rest), SetParser(k, after),
         protocol' = protocol, conn' = conn
  PROVE  StreamInv'
  <1>1. ConnectionInv
    BY DEF StreamInv
  <1>2. PICK own : own = SlotFor(k)
    OBVIOUS
  <1>3. CASE ~(g.fin /\ ~HasBytes(rest))
    <2>1. Store(k, Rejected(rest))
      BY <1>3 DEF RejectFlow, Store
    <2>2. SlotInv(Rejected(rest), after, conn, protocol)
      BY <1>1, RejectedSlot
    <2>3. QED
      BY <2>1, <2>2, StoreStep
  <1>4. CASE g.fin /\ ~HasBytes(rest)
    <2>1. PICK table, x : /\ table = [Live EXCEPT ![own] = Unused]
                          /\ x = [Rejected(rest) EXCEPT !.base = SeqNumber(k, g.pos)]
      OBVIOUS
    <2>2. PICK s : s = Min({i \in Slots : table[i].key = None})
      OBVIOUS
    <2>3. entries' = [table EXCEPT ![s] = x]
      BY <1>2, <1>4, <2>1, <2>2 DEF RejectFlow
    <2>4. /\ Live = [i \in Slots |-> Live[i]]
          /\ \A i \in Slots : SlotInv(Live[i], parsers[i], conn, protocol)
      BY LiveIs
    <2>5. /\ table = [i \in Slots |-> table[i]] /\ table[own] = Unused
          /\ \A i \in Slots : i # own => table[i] = Live[i]
      BY <1>2, <2>1, <2>4
    <2>6. s \in Slots
      <3>1. own \in {i \in Slots : table[i].key = None}
        BY <1>2, <2>5, UnusedIs
      <3>2. QED
        BY <2>2, <3>1, LeastSlot
    <2>7. /\ entries' = [i \in Slots |-> entries'[i]] /\ entries'[s] = x
          /\ \A i \in Slots : i # s => entries'[i] = table[i]
      BY <2>3, <2>5, <2>6
    <2>8. /\ parsers' = [i \in Slots |-> parsers'[i]]
          /\ \A i \in Slots : i # own => parsers'[i] = parsers[i]
      BY <1>2 DEF SetParser, StreamInv
    <2>9. ASSUME NEW i \in Slots PROVE SlotInv(entries'[i], parsers'[i], conn, protocol)
      <3>1. CASE i = s
        <4>1. SlotInv(x, parsers'[i], conn, protocol)
          BY <1>1, <2>1, RejectedSlot
        <4>2. QED
          BY <2>7, <3>1, <4>1
      <3>2. CASE i # s /\ i = own
        <4>1. SlotInv(Unused, parsers'[i], conn, protocol)
          BY UnusedIs, SlotUntracked
        <4>2. QED
          BY <2>5, <2>7, <3>2, <4>1
      <3>3. CASE i # s /\ i # own
        BY <2>4, <2>5, <2>7, <2>8, <3>3
      <3>4. QED
        BY <3>1, <3>2, <3>3
    <2>10. QED
      BY <2>7, <2>8, <2>9, StreamStep
  <1>5. QED
    BY <1>3, <1>4

LEMMA InspectStep ==
  ASSUME StreamInv, NEW k \in Keys, NEW g, SlotFor(k) \in Slots,
         NEW e, SlotInv(e, ParserFor(k, g), conn, protocol), e.key = k,
         NEW f, WellFollowed(k, g, e, ParserFor(k, g), f), Inspect(k, g, f),
         protocol' = protocol
  PROVE  StreamInv'
  <1>1. ConnectionInv
    BY DEF StreamInv
  <1>2. PICK parser, size, front, rest :
          /\ parser = ParserFor(k, g) /\ size = Consumable(Contiguous(f))
          /\ front = SubSeq(Contiguous(f), 1, size) /\ rest = ConsumePrefix(f, size)
    OBVIOUS
  <1>3. PICK judged, after : judged = Judgement(parser, front) /\ after = Feed(parser, front)
    OBVIOUS
  <1>4. /\ IsFlow(rest) /\ rest.key = k /\ rest.tracked = e.tracked
        /\ e.tracked => rest.seen \in Seq(Bytes) /\ rest.arrived = e.arrived
        /\ judged = "accept" => SlotInv(Forwarded(rest, g), after, conn, protocol)
    BY <1>2, <1>3, Zenon DEF WellFollowed
  <1>5. /\ IF judged = "accept"
           THEN Store(k, Ends(g, Forwarded(rest, g))) /\ Begin(k)
           ELSE /\ entries' = IF judged = "reject" THEN RejectFlow(k, g, rest)
                              ELSE [Live EXCEPT ![SlotFor(k)] = Ends(g, Unfollowed(rest))]
                /\ UNCHANGED conn
        /\ SetParser(k, FinParser(g, after))
    BY <1>2, <1>3, Zenon DEF Inspect
  <1>6. SlotInv(e, parser, conn, protocol)
    BY <1>2
  <1>7. CASE judged = "accept"
    <2>1. SlotInv(Ends(g, Forwarded(rest, g)), FinParser(g, after), conn, protocol)
      BY <1>1, <1>4, <1>7, EndsIs
    <2>2. Store(k, Ends(g, Forwarded(rest, g))) /\ SetParser(k, FinParser(g, after)) /\ Begin(k)
      BY <1>5, <1>7
    <2>3. QED
      BY <2>1, <2>2, StoreStep
  <1>8. CASE judged = "reject"
    <2>1. entries' = RejectFlow(k, g, rest) /\ SetParser(k, FinParser(g, after)) /\ conn' = conn
      BY <1>5, <1>8
    <2>2. rest.key = e.key
      BY <1>4
    <2>3. QED
      BY <1>4, <1>6, <2>1, <2>2, RejectStep
  <1>9. CASE judged \notin {"accept", "reject"}
    <2>1. /\ Store(k, Ends(g, Unfollowed(rest))) /\ SetParser(k, FinParser(g, after))
          /\ conn' = conn
      BY <1>5, <1>9 DEF Store
    <2>2. SlotInv(Unfollowed(rest), after, conn, protocol)
      BY <1>4, UnfollowedIs, SlotUntracked
    <2>3. SlotInv(Ends(g, Unfollowed(rest)), FinParser(g, after), conn, protocol)
      BY <1>1, <2>2, EndsIs
    <2>4. QED
      BY <2>1, <2>3, StoreStep
  <1>10. QED
    BY <1>7, <1>8, <1>9

LEMMA FlowSegmentStep ==
  ASSUME StreamInv, NEW k \in Keys, NEW g \in Segments[conn[k].stream], FlowSegment(k, g)
  PROVE  StreamInv'
  <1>1. PICK e, parser : e = EntryFor(k, g) /\ parser = ParserFor(k, g)
    OBVIOUS
  <1>2. HasFlow(k, g) /\ protocol' = protocol
    BY Zenon DEF FlowSegment
  <1>3. SlotFor(k) \in Slots /\ SlotInv(e, parser, conn, protocol) /\ ~e.rejected /\ e.key = k
    BY <1>1, <1>2, EntryIs, Zenon
  <1>4. ConnectionInv
    BY DEF StreamInv
  <1>5. PICK new, at, f : /\ new = NewPart(k, e, g) /\ at = OffsetIn(e, SeqNumber(k, g.pos))
                          /\ f = Filled(e, new)
    OBVIOUS
  <1>6. \/ (g.data = <<>> \/ at + Len(g.data) <= 0) /\ NothingNew(k, g, e)
        \/ Refuse(k, g, e)
        \/ /\ ~(at + Len(g.data) <= 0) /\ Acceptable(e, new)
           /\ Buffer(k, g, f) \/ Inspect(k, g, f)
    BY <1>1, <1>5, Zenon DEF FlowSegment
  <1>7. CASE (g.data = <<>> \/ at + Len(g.data) <= 0) /\ NothingNew(k, g, e)
    <2>1. g.data = <<>> \/ OffsetIn(e, SeqNumber(k, g.pos)) + Len(g.data) <= 0
      BY <1>5, <1>7
    <2>2. Forwarded(e, g) = e
      BY <1>3, <1>4, <2>1, NothingArrives
    <2>3. Store(k, Ends(g, e)) /\ SetParser(k, FinParser(g, parser)) /\ Begin(k)
      BY <1>1, <1>7, <2>2, Zenon DEF NothingNew
    <2>4. SlotInv(Ends(g, e), FinParser(g, parser), conn, protocol)
      BY <1>3, <1>4, EndsIs
    <2>5. QED
      BY <1>2, <1>3, <2>3, <2>4, StoreStep
  <1>8. CASE Refuse(k, g, e)
    <2>1. Store(k, Rejected(e)) /\ SetParser(k, parser) /\ conn' = conn
      BY <1>1, <1>8 DEF Refuse
    <2>2. IsFlow(e) /\ (e.tracked => e.seen \in Seq(Bytes))
      BY <1>3, Zenon DEF SlotInv, FlowInv, HasArrived
    <2>3. SlotInv(Rejected(e), parser, conn, protocol)
      BY <1>3, <1>4, <2>2, RejectedSlot
    <2>4. QED
      BY <1>2, <1>3, <2>1, <2>3, StoreStep
  <1>9. CASE ~(at + Len(g.data) <= 0) /\ Acceptable(e, new) /\ (Buffer(k, g, f) \/ Inspect(k, g, f))
    <2>1. WellFollowed(k, g, e, parser, f)
      <3>1. ~(OffsetIn(e, SeqNumber(k, g.pos)) + Len(g.data) <= 0) /\ Acceptable(e, NewPart(k, e, g))
        BY <1>5, <1>9
      <3>2. WellFollowed(k, g, e, parser, Filled(e, NewPart(k, e, g)))
        BY <1>3, <1>4, <3>1, Followed
      <3>3. QED
        BY <1>5, <3>2
    <2>2. CASE Buffer(k, g, f)
      <3>1. /\ Store(k, Ends(g, Forwarded(f, g))) /\ SetParser(k, FinParser(g, parser)) /\ Begin(k)
            /\ Consumable(Contiguous(f)) = 0
        BY <1>1, <2>2, Zenon DEF Buffer
      <3>2. SlotInv(Forwarded(f, g), parser, conn, protocol)
        BY <2>1, <3>1, Zenon DEF WellFollowed
      <3>3. SlotInv(Ends(g, Forwarded(f, g)), FinParser(g, parser), conn, protocol)
        BY <1>4, <3>2, EndsIs
      <3>4. QED
        BY <1>2, <1>3, <3>1, <3>3, StoreStep
    <2>3. CASE Inspect(k, g, f)
      <3>1. /\ SlotInv(e, ParserFor(k, g), conn, protocol)
            /\ WellFollowed(k, g, e, ParserFor(k, g), f)
        BY <1>1, <1>3, <2>1
      <3>2. QED
        BY <1>2, <1>3, <2>3, <3>1, InspectStep
    <2>4. QED
      BY <1>9, <2>2, <2>3
  <1>10. QED
    BY <1>6, <1>7, <1>8, <1>9

-----------------------------------------------------------------------------
(* The other steps *)

LEMMA StreamInitial ==
  ASSUME Init
  PROVE  StreamInv
  <1>1. PICK isn \in Isns, streams \in [Keys -> UNION {Streams[k] : k \in Keys}] :
          /\ \A k \in Keys : streams[k] \in Streams[k]
          /\ conn = [k \in Keys |-> [isn |-> isn, stream |-> streams[k], begun |-> FALSE]]
    BY DEF Init
  <1>2. ConnectionInv
    <2>1. protocol \in Protocols /\ conn = [k \in Keys |-> conn[k]]
      BY <1>1 DEF Init
    <2>2. ASSUME NEW k \in Keys
          PROVE  /\ conn[k] = [isn |-> conn[k].isn, stream |-> conn[k].stream,
                               begun |-> conn[k].begun]
                 /\ conn[k].isn \in Isns /\ conn[k].stream \in Streams[k]
      BY <1>1
    <2>3. QED
      BY <2>1, <2>2 DEF ConnectionInv
  <1>3. /\ entries = [s \in Slots |-> entries[s]] /\ parsers = [s \in Slots |-> parsers[s]]
        /\ \A s \in Slots : entries[s] = Unused
    BY DEF Init
  <1>4. ASSUME NEW s \in Slots PROVE SlotInv(entries[s], parsers[s], conn, protocol)
    <2>1. SlotInv(Unused, parsers[s], conn, protocol)
      BY UnusedIs, SlotUntracked
    <2>2. QED
      BY <1>3, <2>1
  <1>5. QED
    BY <1>2, <1>3, <1>4 DEF StreamInv

LEMMA ReconnectStep ==
  ASSUME StreamInv, NEW k \in Keys, Reconnect(k)
  PROVE  StreamInv'
  <1>1. PICK isn \in Isns, stream \in Streams[k] :
          conn' = [conn EXCEPT ![k] = [isn |-> isn, stream |-> stream, begun |-> FALSE]]
    BY DEF Reconnect
  <1>2. protocol' = protocol /\ parsers' = parsers
    BY DEF Reconnect
  <1>3. ConnectionInv
    BY DEF StreamInv
  <1>4. /\ conn' = [j \in Keys |-> conn'[j]]
        /\ conn'[k] = [isn |-> isn, stream |-> stream, begun |-> FALSE]
        /\ \A j \in Keys : j # k => conn'[j] = conn[j]
    BY <1>1, <1>3 DEF ConnectionInv
  <1>5. ConnectionInv'
    <2>1. ASSUME NEW j \in Keys
          PROVE  /\ conn'[j] = [isn |-> conn'[j].isn, stream |-> conn'[j].stream,
                                begun |-> conn'[j].begun]
                 /\ conn'[j].isn \in Isns /\ conn'[j].stream \in Streams[j]
      <3>1. CASE j = k
        BY <1>4, <3>1
      <3>2. CASE j # k
        BY <1>3, <1>4, <3>2 DEF ConnectionInv
      <3>3. QED
        BY <3>1, <3>2
    <2>2. protocol' \in Protocols
      BY <1>2, <1>3 DEF ConnectionInv
    <2>3. QED
      BY <1>4, <2>1, <2>2 DEF ConnectionInv
  <1>6. /\ entries' = [s \in Slots |-> entries'[s]]
        /\ \A s \in Slots : entries'[s] = IF entries[s].key = k THEN Unfollowed(entries[s])
                                          ELSE entries[s]
    BY DEF Reconnect
  <1>7. ASSUME NEW s \in Slots PROVE SlotInv(entries'[s], parsers'[s], conn', protocol')
    <2>1. PICK e, parser, d : e = entries[s] /\ parser = parsers[s] /\ d = conn'
      OBVIOUS
    <2>2. SlotInv(e, parser, conn, protocol)
      BY <2>1 DEF StreamInv
    <2>3. IsFlow(e)
      BY <2>2, Zenon DEF SlotInv, FlowInv
    <2>4. CASE e.key = k
      <3>1. SlotInv(Unfollowed(e), parser, d, protocol)
        BY <2>3, UnfollowedIs, SlotUntracked
      <3>2. QED
        BY <1>2, <1>6, <2>1, <2>4, <3>1
    <2>5. CASE e.key # k
      <3>1. e.tracked => e.key \in Keys
        BY <2>3, Zenon DEF IsFlow
      <3>2. e.tracked => d[e.key].isn = conn[e.key].isn /\ d[e.key].stream = conn[e.key].stream
        BY <1>4, <2>1, <2>5, <3>1
      <3>3. SlotInv(e, parser, d, protocol)
        BY <2>2, <3>2, SlotConn
      <3>4. QED
        BY <1>2, <1>6, <2>1, <2>5, <3>3
    <2>6. QED
      BY <2>4, <2>5
  <1>8. parsers' = [s \in Slots |-> parsers'[s]]
    BY <1>2 DEF StreamInv
  <1>9. QED
    BY <1>5, <1>6, <1>7, <1>8 DEF StreamInv

(* Entries that stay, change only their deadlines or are removed. *)
LEMMA TableStep ==
  ASSUME StreamInv, protocol' = protocol, parsers' = parsers,
         conn' = conn \/ \E k \in Keys : Begin(k),
         entries' = [s \in Slots |-> entries'[s]],
         \A s \in Slots :
           entries'[s] = Unused \/ SlotInv(entries'[s], parsers[s], conn, protocol)
  PROVE  StreamInv'
  <1>1. ASSUME NEW s \in Slots PROVE SlotInv(entries'[s], parsers'[s], conn, protocol)
    <2>1. SlotInv(Unused, parsers[s], conn, protocol)
      BY UnusedIs, SlotUntracked
    <2>2. QED
      BY <2>1
  <1>2. parsers' = [s \in Slots |-> parsers'[s]]
    BY DEF StreamInv
  <1>3. QED
    BY <1>1, <1>2, StreamStep

LEMMA ResetStep ==
  ASSUME StreamInv, NEW k \in Keys, ResetSegment(k)
  PROVE  StreamInv'
  <1>1. /\ entries' = [s \in Slots |-> entries'[s]] /\ Begin(k)
        /\ \A s \in Slots : entries'[s] = Unused \/ entries'[s] = Live[s]
        /\ protocol' = protocol /\ parsers' = parsers
    BY DEF ResetSegment
  <1>2. \A s \in Slots : SlotInv(Live[s], parsers[s], conn, protocol)
    BY LiveIs
  <1>3. \A s \in Slots :
          entries'[s] = Unused \/ SlotInv(entries'[s], parsers[s], conn, protocol)
    BY <1>1, <1>2
  <1>4. QED
    BY <1>1, <1>3, TableStep

LEMMA PassedByStep ==
  ASSUME StreamInv, NEW k \in Keys, NEW g, Drop(k, g) \/ Unrelated(k, g)
  PROVE  StreamInv'
  <1>1. /\ entries' = Live /\ protocol' = protocol /\ parsers' = parsers
        /\ conn' = conn \/ Begin(k)
    BY DEF Drop, Unrelated
  <1>2. /\ Live = [s \in Slots |-> Live[s]]
        /\ \A s \in Slots : SlotInv(Live[s], parsers[s], conn, protocol)
    BY LiveIs
  <1>3. QED
    BY <1>1, <1>2, TableStep

LEMMA TickStep ==
  ASSUME StreamInv, Tick
  PROVE  StreamInv'
  <1>1. protocol' = protocol /\ parsers' = parsers /\ conn' = conn
    BY DEF Tick
  <1>2. /\ entries' = [s \in Slots |-> entries'[s]]
        /\ \A s \in Slots : \E i, a : entries'[s] = [entries[s] EXCEPT !.idle = i, !.age = a]
    BY DEF Tick
  <1>3. ASSUME NEW s \in Slots PROVE SlotInv(entries'[s], parsers[s], conn, protocol)
    <2>1. PICK i, a : entries'[s] = [entries[s] EXCEPT !.idle = i, !.age = a]
      BY <1>2
    <2>2. PICK e, r, parser : e = entries[s] /\ r = entries'[s] /\ parser = parsers[s]
      OBVIOUS
    <2>3. SlotInv(e, parser, conn, protocol)
      BY <2>2 DEF StreamInv
    <2>4. e = [field \in FlowFields |-> e[field]]
      BY <2>3 DEF SlotInv, FlowInv, IsFlow
    <2>5. r = [e EXCEPT !.idle = i, !.age = a]
      BY <2>1, <2>2
    <2>6. r = [field \in FlowFields |-> r[field]]
      BY <2>4, <2>5
    <2>7. /\ r.key = e.key /\ r.rejected = e.rejected /\ r.tracked = e.tracked
          /\ r.base = e.base /\ r.buffer = e.buffer /\ r.seen = e.seen /\ r.arrived = e.arrived
      BY <2>4, <2>5 DEF FlowFields
    <2>8. SlotInv(r, parser, conn, protocol)
      BY <2>3, <2>6, <2>7, SlotSame DEF Same
    <2>9. QED
      BY <2>2, <2>8
  <1>4. QED
    BY <1>1, <1>2, <1>3, TableStep

LEMMA StreamInvKept ==
  ASSUME StreamInv, [Process]_workerVars
  PROVE  StreamInv'
  <1>1. CASE UNCHANGED vars
    BY <1>1 DEF vars, StreamInv, ConnectionInv
  <1>2. CASE Next
    <2>1. ASSUME NEW k \in Keys, Reconnect(k) PROVE StreamInv'
      BY <2>1, ReconnectStep
    <2>2. ASSUME NEW k \in Keys, ResetSegment(k) PROVE StreamInv'
      BY <2>2, ResetStep
    <2>3. ASSUME NEW k \in Keys, NEW g \in Segments[conn[k].stream],
                 Drop(k, g) \/ Unrelated(k, g)
          PROVE  StreamInv'
      BY <2>3, PassedByStep
    <2>4. ASSUME NEW k \in Keys, NEW g \in Segments[conn[k].stream], FlowSegment(k, g)
          PROVE  StreamInv'
      BY <2>4, FlowSegmentStep
    <2>5. ASSUME Tick PROVE StreamInv'
      BY <2>5, TickStep
    <2>6. QED
      BY <1>2, <2>1, <2>2, <2>3, <2>4, <2>5, Zenon DEF Next
  <1>3. QED
    BY <1>1, <1>2 DEF Process, workerVars

LEMMA StreamInvHolds == WorkerSpec => []StreamInv
  <1>1. WorkerInit => StreamInv
    BY StreamInitial DEF WorkerInit
  <1>2. StreamInv /\ [Process]_workerVars => StreamInv'
    BY StreamInvKept
  <1>3. QED
    BY <1>1, <1>2, PTL DEF WorkerSpec

(* What jg_tcp_stream_tracker_add has emitted of a flow is the beginning of  *)
(* what the server can read, and the window holds the rest of it.            *)
LEMMA StreamIsFollowed ==
  ASSUME StreamInv
  PROVE  InspectionFollowsStream
  <1> SUFFICES ASSUME NEW s \in Slots, entries[s].tracked,
                      NEW e, e = entries[s], NEW n, n = Len(e.seen), ~e.rejected
               PROVE  /\ e.base = SeqNumber(e.key, n)
                      /\ n <= Reached(e) /\ e.seen = SubSeq(Readable(e), 1, n)
                      /\ \A i \in DOMAIN e.buffer :
                           e.buffer[i] = IF n + i \in DOMAIN e.arrived THEN e.arrived[n + i]
                                         ELSE None
                      /\ protocol = "tls" /\ parsers[s].terminal = "more" =>
                           parsers[s].got = e.seen
    BY Zenon DEF InspectionFollowsStream, Tracked
  <1>1. ConnectionInv /\ SlotInv(e, parsers[s], conn, protocol) /\ e.tracked
    BY DEF StreamInv
  <1>2. PICK isn, stream : isn = conn[e.key].isn /\ stream = conn[e.key].stream
    OBVIOUS
  <1>3. IsFlow(e) /\ HasArrived(e, stream) /\ Inspected(e, isn, stream)
    BY <1>1, <1>2, Zenon DEF SlotInv, FlowInv
  <1>4. e.key \in Keys
    BY <1>1, <1>3, Zenon DEF IsFlow
  <1>5. isn \in Nat /\ Len(stream) \in Nat
    BY <1>1, <1>2, <1>4, ConnectionIs
  <1>6. e.base = SeqNumber(e.key, n)
    BY <1>2, <1>3 DEF Inspected, SeqNumber
  <1>7. /\ n \in Nat /\ IsWindow(e.buffer)
        /\ \A i \in 0 .. Window - 1 :
             e.buffer[i] = IF n + i \in DOMAIN e.arrived THEN e.arrived[n + i] ELSE None
    BY <1>3, <1>5, InspectedIs
  <1>8. \A i \in DOMAIN e.buffer :
          e.buffer[i] = IF n + i \in DOMAIN e.arrived THEN e.arrived[n + i] ELSE None
    BY <1>7 DEF IsWindow
  <1>9. PICK C : C = Contiguous(e)
    OBVIOUS
  <1>10. C \in Seq(Bytes) /\ Len(C) = ContiguousSize(e) /\ Len(C) \in Nat
    BY <1>7, <1>9, ContiguousIs
  <1>11. Reached(e) = n + Len(C) /\ Readable(e) = e.seen \o C
    BY <1>3, <1>5, <1>9, <1>10, ReadableIs
  <1>12. e.seen \in Seq(Bytes)
    BY <1>3 DEF HasArrived
  <1>13. e.seen = SubSeq(Readable(e), 1, n)
    <2>1. PICK S, R : S = e.seen /\ R = S \o C
      OBVIOUS
    <2>2. S \in Seq(Bytes) /\ n = Len(S)
      BY <1>12, <2>1
    <2>3. R \in Seq(Bytes) /\ Len(R) = n + Len(C) /\ \A i \in 1 .. n : R[i] = S[i]
      <3>1. /\ S \o C \in Seq(Bytes) /\ Len(S \o C) = Len(S) + Len(C)
            /\ \A i \in 1 .. Len(S) + Len(C) :
                 (S \o C)[i] = IF i <= Len(S) THEN S[i] ELSE C[i - Len(S)]
        BY <1>10, <2>2, ConcatProperties
      <3>2. QED
        BY <1>7, <1>10, <2>1, <2>2, <3>1
    <2>4. SubSeq(R, 1, n) = S
      BY <1>7, <1>10, <2>2, <2>3
    <2>5. QED
      BY <1>11, <2>1, <2>4
  <1>14. n <= Reached(e)
    BY <1>7, <1>10, <1>11
  <1>15. protocol = "tls" /\ parsers[s].terminal = "more" => parsers[s].got = e.seen
    BY <1>1, Zenon DEF SlotInv, ParserInv
  <1>16. QED
    BY <1>6, <1>8, <1>13, <1>14, <1>15, Zenon

(* What the bounded reassembly emits for inspection is what the server reads, *)
(* byte for byte and in order, however the client cuts, repeats and reorders  *)
(* its segments and wherever the sequence numbers wrap; the window holds what *)
(* else has reached the server, and the ClientHello parser of a slot was fed  *)
(* the bytes of the flow in it (jg_tcp_stream_tracker_add,                    *)
(* jg_tcp_stream_tracker_add_raw, process_tls_stream).                        *)
THEOREM WorkerInspectionFollowsStream == WorkerSpec => []InspectionFollowsStream
  BY StreamInvHolds, StreamIsFollowed, PTL

(* On a flow that is followed no message that the policy blocks or that does *)
(* not parse is complete in what the server can read, and no first           *)
(* ClientHello of a connection, whichever segment would have completed it    *)
(* (process_stream and process_tls_stream with the trackers).                *)
THEOREM WorkerNothingRefusedPasses == WorkerSpec => []NothingRefusedPasses
  <1>1. ASSUME StreamInv PROVE NothingRefusedPasses
    <2>1. ASSUME NEW s \in Slots, entries[s].tracked
          PROVE  Clean(Readable(entries[s]), protocol)
      <3>1. ConnectionInv /\ SlotInv(entries[s], parsers[s], conn, protocol)
        BY <1>1 DEF StreamInv
      <3>2. QED
        BY <2>1, <3>1, ReadableClean
    <2>2. QED
      BY <2>1, Zenon DEF NothingRefusedPasses, Tracked, Clean
  <1>2. QED
    BY <1>1, StreamInvHolds, PTL
=============================================================================
