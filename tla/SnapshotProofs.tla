--------------------------- MODULE SnapshotProofs ---------------------------
(***************************************************************************)
(* Proofs about Snapshot, for all sizes of the four rings, any entities,   *)
(* maps and messages in flight: what cgame can read is what the server     *)
(* built, on the map the client has.                                       *)
(***************************************************************************)
EXTENDS Snapshot, SequenceTheorems, FiniteSetTheorems, TLAPS

USE RingAssumption, BackupAssumption, BoundAssumption, EntityAssumption
-----------------------------------------------------------------------------
(* Numbers and rings.                                                      *)

LEMMA RemainderRange ==
  ASSUME NEW a \in Int, NEW n \in Nat \ {0}
  PROVE  a % n \in 0 .. n - 1
  OBVIOUS

\* Two numbers less than n apart have different remainders.
LEMMA RemaindersDiffer ==
  ASSUME NEW a \in Int, NEW b \in Int, NEW n \in Nat \ {0}, a < b, b < a + n
  PROVE  a % n # b % n
  <1> DEFINE p == a \div n
             q == b \div n
  <1>1. /\ a = n * p + (a % n) /\ b = n * q + (b % n)
        /\ p \in Int /\ q \in Int
        /\ a % n \in 0 .. n - 1 /\ b % n \in 0 .. n - 1
    OBVIOUS
  <1> HIDE DEF p, q
  <1>2. SUFFICES ASSUME a % n = b % n PROVE FALSE
    OBVIOUS
  <1>3. b - a = n * (q - p)
    BY <1>1, <1>2
  <1>4. 0 < n * (q - p) /\ n * (q - p) < n
    BY <1>1, <1>3
  <1>5. q - p \in Int /\ (q - p <= 0 \/ q - p >= 1)
    BY <1>1
  <1>6. q - p >= 1 => n * (q - p) >= n
    BY <1>1
  <1>7. q - p <= 0 => n * (q - p) <= 0
    BY <1>1
  <1>8. QED
    BY <1>1, <1>4, <1>5, <1>6, <1>7

\* n numbers in a row have all the remainders.
LEMMA RemaindersAll ==
  ASSUME NEW a \in Int, NEW n \in Nat \ {0}, NEW i \in 0 .. n - 1
  PROVE  \E b \in a .. a + n - 1 : b % n = i
  <1> DEFINE r == a % n
             b == IF i >= r THEN a + (i - r) ELSE a + (i - r) + n
             p == a \div n
  <1>1. a = n * p + r /\ p \in Int /\ r \in 0 .. n - 1
    OBVIOUS
  <1>2. b \in a .. a + n - 1
    BY <1>1
  <1>3. b = n * p + i \/ b = n * (p + 1) + i
    BY <1>1
  <1> HIDE DEF p, b, r
  <1>4. (n * p + i) % n = i /\ (n * (p + 1) + i) % n = i
    BY <1>1
  <1>5. QED
    BY <1>2, <1>3, <1>4

LEMMA RingSize ==
  ASSUME NEW size \in Nat, NEW ring, DOMAIN ring = 0 .. size - 1
  PROVE  Cardinality(DOMAIN ring) = size
  BY FS_Interval
-----------------------------------------------------------------------------
(* Sets of entities.                                                       *)

AnyState == EntityState \cup {NoEntity}

LEMMA StatesFinite == IsFiniteSet(EntityState) /\ IsFiniteSet(AnyState)
  BY FS_Product, FS_AddElement DEF EntityState, AnyState

LEMMA EntitiesAre ==
  \A e \in EntityState : /\ e[1] \in Entity /\ e[2] \in Value
                         /\ e[1] \in Nat /\ e[2] \in Nat /\ e = <<e[1], e[2]>>
  <1> SUFFICES ASSUME NEW e \in EntityState
               PROVE  /\ e[1] \in Entity /\ e[2] \in Value
                      /\ e[1] \in Nat /\ e[2] \in Nat /\ e = <<e[1], e[2]>>
    OBVIOUS
  <1>1. e \in Entity \X Value
    BY DEF EntityState
  <1>2. e[1] \in Entity /\ e[2] \in Value /\ e = <<e[1], e[2]>>
    BY <1>1
  <1>3. QED
    BY <1>2

LEMMA StatesAre ==
  \A e \in AnyState : e[1] \in Nat /\ e = <<e[1], e[2]>>
  <1>1. NoEntity[1] = 0 /\ NoEntity = <<NoEntity[1], NoEntity[2]>>
    BY DEF NoEntity
  <1>2. QED
    BY <1>1, EntitiesAre DEF AnyState

LEMMA SomeFinite ==
  ASSUME NEW ents \in SUBSET AnyState
  PROVE  IsFiniteSet(ents) /\ Cardinality(ents) \in Nat
  BY StatesFinite, FS_Subset, FS_CardinalityType

\* The place of an entity is less than their number.
LEMMA RankRange ==
  ASSUME NEW ents \in SUBSET AnyState, NEW e \in ents
  PROVE  Rank(e, ents) \in 0 .. Cardinality(ents) - 1
  <1> DEFINE less == {d \in ents : d[1] < e[1]}
  <1>1. e[1] \in Nat /\ less \subseteq ents /\ e \notin less
    BY StatesAre
  <1>2. /\ IsFiniteSet(ents) /\ Cardinality(ents) \in Nat
        /\ Cardinality(less) \in Nat /\ Cardinality(less) <= Cardinality(ents)
        /\ Cardinality(less) # Cardinality(ents)
    BY <1>1, SomeFinite, FS_Subset, FS_CardinalityType
  <1>3. QED
    BY <1>2 DEF Rank

LEMMA RankGrows ==
  ASSUME NEW ents \in SUBSET AnyState, NEW d \in ents, NEW e \in ents, d[1] < e[1]
  PROVE  Rank(d, ents) < Rank(e, ents)
  <1> DEFINE lessD == {c \in ents : c[1] < d[1]}
             lessE == {c \in ents : c[1] < e[1]}
  <1>1. lessD \subseteq lessE /\ d \in lessE /\ d \notin lessD /\ lessE \subseteq ents
    BY StatesAre
  <1>2. lessE \in SUBSET AnyState /\ lessD \in SUBSET AnyState
    BY <1>1
  <1> HIDE DEF lessD, lessE
  <1>3. /\ IsFiniteSet(lessE) /\ Cardinality(lessD) \in Nat /\ Cardinality(lessE) \in Nat
        /\ Cardinality(lessD) <= Cardinality(lessE)
        /\ Cardinality(lessD) # Cardinality(lessE)
    BY <1>1, <1>2, SomeFinite, FS_Subset
  <1>4. QED
    BY <1>3 DEF Rank, lessD, lessE

\* No two entities have the same place, and no place is left free.
LEMMA RankUnique ==
  ASSUME NEW ents \in SUBSET AnyState, Distinct(ents), NEW d \in ents, NEW e \in ents,
         Rank(d, ents) = Rank(e, ents)
  PROVE  d = e
  <1>1. d[1] \in Nat /\ e[1] \in Nat /\ Rank(d, ents) \in Int /\ Rank(e, ents) \in Int
    BY StatesAre, RankRange
  <1>2. ~(d[1] < e[1]) /\ ~(e[1] < d[1])
    BY <1>1, RankGrows
  <1>3. QED
    BY <1>1, <1>2 DEF Distinct

LEMMA RankAll ==
  ASSUME NEW ents \in SUBSET AnyState, Distinct(ents), NEW k \in 0 .. Cardinality(ents) - 1
  PROVE  \E e \in ents : Rank(e, ents) = k
  <1> DEFINE places == 0 .. Cardinality(ents) - 1
             f == [e \in ents |-> Rank(e, ents)]
  <1>1. /\ IsFiniteSet(ents) /\ Cardinality(ents) \in Nat
        /\ IsFiniteSet(places) /\ Cardinality(places) = Cardinality(ents)
    <2>1. IsFiniteSet(ents) /\ Cardinality(ents) \in Nat
      BY SomeFinite
    <2>2. 0 \in Int /\ Cardinality(ents) - 1 \in Int
      BY <2>1
    <2>3. /\ IsFiniteSet(places)
          /\ Cardinality(places) = IF 0 > Cardinality(ents) - 1 THEN 0
                                   ELSE Cardinality(ents) - 1 - 0 + 1
      BY <2>2, FS_Interval
    <2>4. QED
      BY <2>1, <2>3
  <1>2. f \in [ents -> places]
    BY RankRange
  <1>3. \A d, e \in ents : f[d] = f[e] => d = e
    BY RankUnique
  <1> HIDE DEF f, places
  <1>4. f \in Injection(ents, places)
    BY <1>2, <1>3 DEF Injection, IsInjective
  <1>5. f \in Surjection(ents, places)
    BY <1>1, <1>4, FS_Injection
  <1>6. PICK e \in ents : f[e] = k
    BY <1>5 DEF Surjection, places
  <1>7. QED
    BY <1>6 DEF f
-----------------------------------------------------------------------------
(* Rings of entities.                                                      *)

Ring(size) == [0 .. size - 1 -> AnyState]

LEMMA StoredRing ==
  ASSUME NEW size \in Nat \ {0}, NEW ring \in Ring(size), NEW next \in Nat,
         NEW ents \in SUBSET AnyState
  PROVE  /\ Stored(ring, next, ents) \in Ring(size)
         /\ Cardinality(DOMAIN ring) = size
         /\ Cardinality(DOMAIN Stored(ring, next, ents)) = size
         /\ \A i \in 0 .. size - 1 :
              /\ (\A d \in ents : (next + Rank(d, ents)) % size # i)
                   => Stored(ring, next, ents)[i] = ring[i]
              /\ \A e \in ents :
                   (\A d \in ents : (next + Rank(d, ents)) % size = i <=> d = e)
                     => Stored(ring, next, ents)[i] = e
  <1> DEFINE new == Stored(ring, next, ents)
             c == Cardinality(DOMAIN ring)
             For(i) == {ent \in ents : (next + Rank(ent, ents)) % c = i}
  <1>1. DOMAIN ring = 0 .. size - 1 /\ c = size
    BY RingSize DEF Ring
  <1>2. new = [i \in DOMAIN ring |->
                 IF For(i) = {} THEN ring[i] ELSE CHOOSE ent \in For(i) : TRUE]
    BY DEF Stored
  <1> HIDE DEF new, c
  <1>3. /\ DOMAIN new = 0 .. size - 1
        /\ \A i \in 0 .. size - 1 :
             new[i] = IF For(i) = {} THEN ring[i] ELSE CHOOSE ent \in For(i) : TRUE
    BY <1>1, <1>2
  <1>4. ASSUME NEW i \in 0 .. size - 1
        PROVE  /\ For(i) = {} => new[i] = ring[i]
               /\ \A e : For(i) = {e} => new[i] = e
               /\ new[i] \in AnyState
    <2>1. For(i) # {} => (CHOOSE ent \in For(i) : TRUE) \in For(i)
      OBVIOUS
    <2>2. For(i) \subseteq AnyState /\ ring[i] \in AnyState
      BY DEF Ring
    <2> HIDE DEF For
    <2>3. QED
      BY <1>3, <2>1, <2>2
  <1>5. new \in Ring(size)
    BY <1>2, <1>3, <1>4 DEF Ring
  <1>6. Cardinality(DOMAIN new) = size
    BY <1>3, RingSize
  <1>7. ASSUME NEW i \in 0 .. size - 1
        PROVE  /\ (\A d \in ents : (next + Rank(d, ents)) % size # i) => new[i] = ring[i]
               /\ \A e \in ents :
                    (\A d \in ents : (next + Rank(d, ents)) % size = i <=> d = e)
                      => new[i] = e
    <2>1. \A d : d \in For(i) <=> d \in ents /\ (next + Rank(d, ents)) % size = i
      BY <1>1
    <2> HIDE DEF For
    <2>2. (\A d : d \notin For(i)) => For(i) = {}
      OBVIOUS
    <2>3. \A e : (\A d : d \in For(i) <=> d = e) => For(i) = {e}
      OBVIOUS
    <2>4. QED
      BY <1>4, <2>1, <2>2, <2>3
  <1>8. QED
    BY <1>1, <1>5, <1>6, <1>7 DEF new, c

\* What is not older than a ring stays in its place.
LEMMA StoredKeeps ==
  ASSUME NEW size \in Nat \ {0}, NEW ring \in Ring(size), NEW next \in Nat,
         NEW ents \in SUBSET AnyState, NEW k \in Nat, k < next,
         k >= next + Cardinality(ents) - size
  PROVE  Stored(ring, next, ents)[k % size] = ring[k % size]
  <1>1. ASSUME NEW ent \in ents
        PROVE  (next + Rank(ent, ents)) % size # k % size
    <2>1. Rank(ent, ents) \in 0 .. Cardinality(ents) - 1 /\ Cardinality(ents) \in Nat
      BY RankRange, SomeFinite
    <2> DEFINE at == next + Rank(ent, ents)
    <2>2. k \in Int /\ at \in Int /\ k < at /\ at < k + size
      BY <2>1
    <2> HIDE DEF at
    <2>3. k % size # at % size
      BY <2>2, RemaindersDiffer, Zenon
    <2>4. QED
      BY <2>3 DEF at
  <1>2. k % size \in 0 .. size - 1
    OBVIOUS
  <1>3. QED
    BY <1>1, <1>2, StoredRing

LEMMA StoredKeepsWindow ==
  ASSUME NEW size \in Nat \ {0}, NEW ring \in Ring(size), NEW next \in Nat,
         NEW ents \in SUBSET AnyState, NEW first \in Nat, NEW num \in Nat,
         first + num <= next, first >= next + Cardinality(ents) - size
  PROVE  Window(Stored(ring, next, ents), first, num) = Window(ring, first, num)
  <1> DEFINE new == Stored(ring, next, ents)
  <1>1. Cardinality(DOMAIN new) = size /\ Cardinality(DOMAIN ring) = size
    BY StoredRing
  <1>2. ASSUME NEW i \in 0 .. num - 1
        PROVE  new[(first + i) % size] = ring[(first + i) % size]
    <2> DEFINE k == first + i
    <2>1. k \in Nat /\ k < next /\ k >= next + Cardinality(ents) - size
      BY SomeFinite
    <2> HIDE DEF k
    <2>2. new[k % size] = ring[k % size]
      BY <2>1, StoredKeeps
    <2>3. QED
      BY <2>2 DEF k
  <1> HIDE DEF new
  <1>3. Window(new, first, num) = Window(ring, first, num)
    BY <1>1, <1>2 DEF Window
  <1>4. QED
    BY <1>3 DEF new

\* What is stored can be read back.
LEMMA StoredHolds ==
  ASSUME NEW size \in Nat \ {0}, NEW ring \in Ring(size), NEW next \in Nat,
         NEW ents \in SUBSET AnyState, Distinct(ents), Cardinality(ents) <= size
  PROVE  Window(Stored(ring, next, ents), next, Cardinality(ents)) = ents
  <1> DEFINE new == Stored(ring, next, ents)
  <1>1. Cardinality(DOMAIN new) = size /\ Cardinality(ents) \in Nat
    BY StoredRing, SomeFinite
  <1>2. ASSUME NEW e \in ents
        PROVE  new[(next + Rank(e, ents)) % size] = e
    <2> DEFINE at == next + Rank(e, ents)
    <2>1. Rank(e, ents) \in 0 .. Cardinality(ents) - 1 /\ at \in Int
      BY <1>1, RankRange
    <2>2. ASSUME NEW d \in ents, (next + Rank(d, ents)) % size = at % size
          PROVE  d = e
      <3> DEFINE there == next + Rank(d, ents)
      <3>1. Rank(d, ents) \in 0 .. Cardinality(ents) - 1 /\ there \in Int
        BY <1>1, RankRange
      <3>2. there < at + size /\ at < there + size
        BY <1>1, <2>1, <3>1
      <3>3. there % size = at % size
        BY <2>2
      <3> HIDE DEF there, at
      <3>4. ~(there < at) /\ ~(at < there)
        BY <2>1, <3>1, <3>2, <3>3, RemaindersDiffer, Zenon
      <3>5. Rank(d, ents) = Rank(e, ents)
        BY <1>1, <2>1, <3>1, <3>4 DEF there, at
      <3>6. QED
        BY <3>5, RankUnique
    <2> DEFINE place == at % size
    <2>3. /\ place \in 0 .. size - 1
          /\ \A d \in ents : (next + Rank(d, ents)) % size = place <=> d = e
      BY <2>1, <2>2
    <2> HIDE DEF place
    <2>4. new[place] = e
      BY <2>3, StoredRing
    <2>5. QED
      BY <2>4 DEF place
  <1>3. \A i \in 0 .. Cardinality(ents) - 1 : \E e \in ents : Rank(e, ents) = i
    BY RankAll
  <1>4. \A e \in ents : Rank(e, ents) \in 0 .. Cardinality(ents) - 1
    BY RankRange
  <1> HIDE DEF new
  <1>5. Window(new, next, Cardinality(ents)) \subseteq ents
    BY <1>1, <1>2, <1>3 DEF Window
  <1>6. ents \subseteq Window(new, next, Cardinality(ents))
    BY <1>1, <1>2, <1>4 DEF Window
  <1>7. QED
    BY <1>5, <1>6 DEF new

LEMMA WindowStates ==
  ASSUME NEW size \in Nat \ {0}, NEW ring \in Ring(size), NEW first \in Nat, NEW num \in Nat
  PROVE  Window(ring, first, num) \in SUBSET AnyState
  <1>1. Cardinality(DOMAIN ring) = size
    BY RingSize DEF Ring
  <1>2. \A i \in 0 .. num - 1 : (first + i) % size \in 0 .. size - 1
    OBVIOUS
  <1>3. QED
    BY <1>1, <1>2 DEF Window, Ring
-----------------------------------------------------------------------------
(* Deltas.                                                                 *)

\* Distinct entities are no more than there are entity numbers.
LEMMA DistinctFit ==
  ASSUME NEW ents \in SUBSET EntityState, Distinct(ents)
  PROVE  Cardinality(ents) \in 0 .. Cardinality(Entity)
  <1> DEFINE f == [e \in ents |-> e[1]]
  <1>1. f \in [ents -> Entity] /\ IsInjective(f)
    BY EntitiesAre DEF Distinct, IsInjective
  <1> HIDE DEF f
  <1>2. f \in Injection(ents, Entity)
    BY <1>1 DEF Injection
  <1>3. Cardinality(ents) <= Cardinality(Entity)
    BY <1>2, FS_Injection
  <1>4. Cardinality(ents) \in Nat /\ Cardinality(Entity) \in Nat
    BY SomeFinite, FS_CardinalityType DEF AnyState
  <1>5. QED
    BY <1>3, <1>4

Change == Entity \X (Value \cup {Unchanged, Removed})

LEMMA ChangesAre ==
  \A d \in Change : d[1] \in Entity /\ d[2] \in Value \cup {Unchanged, Removed} /\ d = <<d[1], d[2]>>
  <1> SUFFICES ASSUME NEW d \in Change
               PROVE  d[1] \in Entity /\ d[2] \in Value \cup {Unchanged, Removed} /\ d = <<d[1], d[2]>>
    OBVIOUS
  <1>1. d \in Entity \X (Value \cup {Unchanged, Removed})
    BY DEF Change
  <1>2. QED
    BY <1>1

\* A value is none of the marks of a delta.
LEMMA MarksAreNoValues == \A v \in Value : v # Unchanged /\ v # Removed
  BY DEF Unchanged, Removed

\* What is in a delta.
IsDelta(delta, old, new, baseline) ==
  \A d : d \in delta <=>
    \/ \E ent \in new \ old :
         /\ ent[1] \notin NumbersOf(old) /\ ent[2] = baseline[ent[1]]
         /\ d = <<ent[1], Unchanged>>
    \/ /\ d \in new \ old
       /\ ~(d[1] \notin NumbersOf(old) /\ d[2] = baseline[d[1]])
    \/ \E n \in NumbersOf(old) \ NumbersOf(new) : d = <<n, Removed>>

LEMMA DeltaIs ==
  ASSUME NEW old \in SUBSET EntityState, NEW new \in SUBSET EntityState, NEW baseline
  PROVE  /\ Delta(old, new, baseline) \in SUBSET Change
         /\ IsDelta(Delta(old, new, baseline), old, new, baseline)
  <1> DEFINE delta == Delta(old, new, baseline)
  <1>1. \A d : d \in delta <=>
              \/ \E ent \in new \ old :
                   /\ ent[1] \notin NumbersOf(old) /\ ent[2] = baseline[ent[1]]
                   /\ d = <<ent[1], Unchanged>>
              \/ /\ d \in new \ old
                 /\ ~(d[1] \notin NumbersOf(old) /\ d[2] = baseline[d[1]])
              \/ \E n \in NumbersOf(old) \ NumbersOf(new) : d = <<n, Removed>>
    BY DEF Delta
  <1>2. \A n \in Entity : <<n, Unchanged>> \in Change /\ <<n, Removed>> \in Change
    BY DEF Change
  <1>3. new \subseteq Change
    BY EntitiesAre DEF Change, EntityState
  <1>4. \A ent \in old \cup new : ent[1] \in Entity
    BY EntitiesAre
  <1>5. NumbersOf(old) \subseteq Entity
    BY <1>4 DEF NumbersOf
  <1> HIDE DEF delta
  <1>6. ASSUME NEW d \in delta
        PROVE  d \in Change
    <2>1. CASE \E ent \in new \ old : d = <<ent[1], Unchanged>>
      BY <1>2, <1>4, <2>1
    <2>2. CASE d \in new
      BY <1>3, <2>2
    <2>3. CASE \E n \in NumbersOf(old) \ NumbersOf(new) : d = <<n, Removed>>
      BY <1>2, <1>5, <2>3
    <2>4. QED
      BY <1>1, <2>1, <2>2, <2>3
  <1>7. IsDelta(delta, old, new, baseline)
    BY <1>1 DEF IsDelta
  <1>8. QED
    BY <1>6, <1>7 DEF delta

LEMMA PatchedIs ==
  ASSUME NEW old \in SUBSET AnyState, NEW delta \in SUBSET Change,
         NEW baseline \in [Entity -> Value]
  PROVE  /\ Patched(old, delta, baseline) \in SUBSET AnyState
         /\ old \in SUBSET EntityState => Patched(old, delta, baseline) \in SUBSET EntityState
         /\ \A e : e \in Patched(old, delta, baseline) <=>
              \/ e \in old /\ \A d \in delta : d[1] # e[1]
              \/ \E d \in delta : d[2] = Unchanged /\ e = <<d[1], baseline[d[1]]>>
              \/ e \in delta /\ e[2] # Unchanged /\ e[2] # Removed
  <1> DEFINE new == Patched(old, delta, baseline)
  <1>1. Unchanged # Removed
    BY DEF Unchanged, Removed
  <1>2. \A e : e \in new <=>
              \/ e \in old /\ \A d \in delta : d[1] # e[1]
              \/ \E d \in delta : d[2] = Unchanged /\ e = <<d[1], baseline[d[1]]>>
              \/ e \in delta /\ e[2] # Unchanged /\ e[2] # Removed
    BY <1>1 DEF Patched, NumbersOf
  <1>3. \A d \in delta : <<d[1], baseline[d[1]]>> \in EntityState
    BY ChangesAre DEF EntityState
  <1>4. ASSUME NEW e \in delta, e[2] # Unchanged, e[2] # Removed
        PROVE  e \in EntityState
    <2>1. e[1] \in Entity /\ e[2] \in Value /\ e = <<e[1], e[2]>>
      BY <1>4, ChangesAre
    <2>2. QED
      BY <2>1 DEF EntityState
  <1> HIDE DEF new
  <1>5. \A e \in new : e \in old \/ e \in EntityState
    BY <1>2, <1>3, <1>4
  <1>6. QED
    BY <1>2, <1>5 DEF new, AnyState

LEMMA PatchedStates ==
  ASSUME NEW old \in SUBSET AnyState, NEW delta \in SUBSET Change,
         NEW baseline \in [Entity -> Value]
  PROVE  Patched(old, delta, baseline) \in SUBSET AnyState
  BY PatchedIs

\* Applied to the base it was made from, a delta gives back the entities.
LEMMA RoundTrip ==
  ASSUME NEW old \in SUBSET EntityState, Distinct(old),
         NEW new \in SUBSET EntityState, Distinct(new),
         NEW baseline \in [Entity -> Value]
  PROVE  Patched(old, Delta(old, new, baseline), baseline) = new
  <1> DEFINE delta == Delta(old, new, baseline)
             result == Patched(old, delta, baseline)
  <1>1. IsDelta(delta, old, new, baseline)
    BY DeltaIs
  <1>2. \A d : d \in delta <=>
              \/ \E ent \in new \ old :
                   /\ ent[1] \notin NumbersOf(old) /\ ent[2] = baseline[ent[1]]
                   /\ d = <<ent[1], Unchanged>>
              \/ /\ d \in new \ old
                 /\ ~(d[1] \notin NumbersOf(old) /\ d[2] = baseline[d[1]])
              \/ \E n \in NumbersOf(old) \ NumbersOf(new) : d = <<n, Removed>>
    BY <1>1 DEF IsDelta
  <1>3. delta \in SUBSET Change /\ old \in SUBSET AnyState
    BY DeltaIs DEF AnyState
  <1> HIDE DEF delta
  <1>4. \A e : e \in result <=>
              \/ e \in old /\ \A d \in delta : d[1] # e[1]
              \/ \E d \in delta : d[2] = Unchanged /\ e = <<d[1], baseline[d[1]]>>
              \/ e \in delta /\ e[2] # Unchanged /\ e[2] # Removed
    BY <1>3, PatchedIs
  <1> HIDE DEF result
  <1>5. Unchanged # Removed
    BY DEF Unchanged, Removed
  <1>6. \A e \in new : e = <<e[1], e[2]>> /\ e[2] # Unchanged /\ e[2] # Removed
    BY EntitiesAre, MarksAreNoValues
  <1>7. \A e \in old : e[1] \in NumbersOf(old)
    BY DEF NumbersOf
  <1>8. \A e \in new : e[1] \in NumbersOf(new)
    BY DEF NumbersOf
  <1>9. ASSUME NEW e \in old, \A d \in delta : d[1] # e[1]
        PROVE  e \in new
    <2>1. <<e[1], Removed>> \notin delta
      BY <1>9
    <2>2. e[1] \in NumbersOf(new)
      BY <1>2, <1>7, <2>1
    <2>3. PICK f \in new : f[1] = e[1]
      BY <2>2 DEF NumbersOf
    <2>4. f \notin delta
      BY <1>9, <2>3
    <2>5. f \in old
      BY <1>2, <1>7, <2>3, <2>4
    <2>6. QED
      BY <2>3, <2>5 DEF Distinct
  <1>10. ASSUME NEW d \in delta, d[2] = Unchanged
        PROVE  <<d[1], baseline[d[1]]>> \in new
    <2>1. d \notin new
      BY <1>6, <1>10
    <2>2. ~ \E n \in NumbersOf(old) \ NumbersOf(new) : d = <<n, Removed>>
      BY <1>5, <1>10
    <2>3. PICK ent \in new : ent[2] = baseline[ent[1]] /\ d = <<ent[1], Unchanged>>
      BY <1>2, <2>1, <2>2
    <2>4. <<d[1], baseline[d[1]]>> = ent
      BY <1>6, <2>3
    <2>5. QED
      BY <2>4
  <1>11. ASSUME NEW e \in delta, e[2] # Unchanged, e[2] # Removed
         PROVE  e \in new
    BY <1>2, <1>11
  <1>12. ASSUME NEW e \in new, e \notin old
         PROVE  e \in result
    <2>1. CASE e[1] \notin NumbersOf(old) /\ e[2] = baseline[e[1]]
      <3> DEFINE d == <<e[1], Unchanged>>
      <3>1. d \in delta
        BY <1>2, <1>12, <2>1
      <3>2. d[1] = e[1] /\ d[2] = Unchanged
        OBVIOUS
      <3> HIDE DEF d
      <3>3. e = <<d[1], baseline[d[1]]>>
        BY <1>6, <2>1, <3>2
      <3>4. QED
        BY <1>4, <3>1, <3>2, <3>3
    <2>2. CASE ~(e[1] \notin NumbersOf(old) /\ e[2] = baseline[e[1]])
      <3>1. e \in delta
        BY <1>2, <1>12, <2>2
      <3>2. QED
        BY <1>4, <1>6, <3>1
    <2>3. QED
      BY <2>1, <2>2
  <1>13. ASSUME NEW e \in new, e \in old
         PROVE  e \in result
    <2>1. ASSUME NEW d \in delta, d[1] = e[1]
          PROVE  FALSE
      <3>1. CASE \E ent \in new \ old : d = <<ent[1], Unchanged>>
        BY <1>13, <2>1, <3>1 DEF Distinct
      <3>2. CASE d \in new \ old
        BY <1>13, <2>1, <3>2 DEF Distinct
      <3>3. CASE \E n \in NumbersOf(old) \ NumbersOf(new) : d = <<n, Removed>>
        BY <1>8, <2>1, <3>3
      <3>4. QED
        BY <1>2, <3>1, <3>2, <3>3
    <2>2. QED
      BY <1>4, <1>13, <2>1
  <1>14. result = new
    BY <1>4, <1>9, <1>10, <1>11, <1>12, <1>13
  <1>15. QED
    BY <1>14 DEF result, delta

\* A snapshot without a base is parsed to distinct entities, whatever baselines
\* the client has.
LEMMA ParsedFresh ==
  ASSUME NEW new \in SUBSET EntityState, Distinct(new), NEW wrote,
         NEW baseline \in [Entity -> Value]
  PROVE  /\ Patched({}, Delta({}, new, wrote), baseline) \in SUBSET EntityState
         /\ Distinct(Patched({}, Delta({}, new, wrote), baseline))
  <1> DEFINE none == {}
             delta == Delta(none, new, wrote)
             result == Patched(none, delta, baseline)
  <1>1. none \in SUBSET EntityState /\ none \in SUBSET AnyState
    OBVIOUS
  <1>2. NumbersOf(none) = {}
    BY DEF NumbersOf
  <1> HIDE DEF none
  <1>3. IsDelta(delta, none, new, wrote)
    BY <1>1, DeltaIs
  <1>4. \A d : d \in delta <=>
              \/ \E ent \in new \ none :
                   /\ ent[1] \notin NumbersOf(none) /\ ent[2] = wrote[ent[1]]
                   /\ d = <<ent[1], Unchanged>>
              \/ /\ d \in new \ none
                 /\ ~(d[1] \notin NumbersOf(none) /\ d[2] = wrote[d[1]])
              \/ \E n \in NumbersOf(none) \ NumbersOf(new) : d = <<n, Removed>>
    BY <1>3 DEF IsDelta
  <1>5. delta \in SUBSET Change
    BY <1>1, DeltaIs
  <1>6. \A d \in delta : \E ent \in new :
          /\ d[1] = ent[1]
          /\ d = <<ent[1], Unchanged>> \/ d = ent
          /\ ent[2] = wrote[ent[1]] <=> d = <<ent[1], Unchanged>>
    <2>1. \A ent \in new : ent # <<ent[1], Unchanged>>
      BY EntitiesAre, MarksAreNoValues
    <2>2. QED
      BY <1>2, <1>4, <2>1
  <1> HIDE DEF delta
  <1>7. /\ result \in SUBSET EntityState
        /\ \A e : e \in result <=>
              \/ e \in none /\ \A d \in delta : d[1] # e[1]
              \/ \E d \in delta : d[2] = Unchanged /\ e = <<d[1], baseline[d[1]]>>
              \/ e \in delta /\ e[2] # Unchanged /\ e[2] # Removed
    BY <1>1, <1>5, PatchedIs
  <1> HIDE DEF result
  <1>8. \A d, e \in delta : d[1] = e[1] => d = e
    <2> SUFFICES ASSUME NEW d \in delta, NEW e \in delta, d[1] = e[1]
                 PROVE  d = e
      OBVIOUS
    <2>1. PICK a \in new : /\ d[1] = a[1]
                           /\ d = <<a[1], Unchanged>> \/ d = a
                           /\ a[2] = wrote[a[1]] <=> d = <<a[1], Unchanged>>
      BY <1>6
    <2>2. PICK b \in new : /\ e[1] = b[1]
                           /\ e = <<b[1], Unchanged>> \/ e = b
                           /\ b[2] = wrote[b[1]] <=> e = <<b[1], Unchanged>>
      BY <1>6
    <2>3. a = b
      BY <2>1, <2>2 DEF Distinct
    <2>4. QED
      BY <2>1, <2>2, <2>3
  <1>9. \A e \in result : \E d \in delta :
          d[1] = e[1] /\ e = IF d[2] = Unchanged THEN <<d[1], baseline[d[1]]>> ELSE d
    BY <1>7 DEF none
  <1>10. Distinct(result)
    <2> SUFFICES ASSUME NEW a \in result, NEW b \in result, a[1] = b[1]
                 PROVE  a = b
      BY DEF Distinct
    <2>1. PICK d \in delta :
            d[1] = a[1] /\ a = IF d[2] = Unchanged THEN <<d[1], baseline[d[1]]>> ELSE d
      BY <1>9
    <2>2. PICK e \in delta :
            e[1] = b[1] /\ b = IF e[2] = Unchanged THEN <<e[1], baseline[e[1]]>> ELSE e
      BY <1>9
    <2>3. d = e
      BY <1>8, <2>1, <2>2
    <2>4. QED
      BY <2>1, <2>2, <2>3
  <1>11. QED
    BY <1>7, <1>10 DEF result, delta, none
-----------------------------------------------------------------------------
(* Messages in flight.                                                     *)

DownMessage == GameStates \cup SnapshotMessages

\* t is what is left of s without its first d messages, with new behind it.
Moved(t, s, d, new) ==
  /\ d \in Nat /\ DOMAIN t \subseteq Nat /\ DOMAIN s \subseteq Nat
  /\ \A i \in DOMAIN t : \/ i + d \in DOMAIN s /\ t[i] = s[i + d]
                         \/ t[i] \in new /\ \A j \in DOMAIN t : j <= i

LEMMA RestMoved ==
  ASSUME NEW S, NEW s \in Seq(S), NEW k \in DOMAIN s
  PROVE  SubSeq(s, k + 1, Len(s)) \in Seq(S) /\ Moved(SubSeq(s, k + 1, Len(s)), s, k, {})
  <1> DEFINE t == SubSeq(s, k + 1, Len(s))
  <1>1. Len(s) \in Nat /\ DOMAIN s = 1 .. Len(s) /\ \A i \in 1 .. Len(s) : s[i] \in S
    BY LenProperties, ElementOfSeq
  <1>2. k + 1 \in 1 .. Len(s) + 1 /\ \A i \in k + 1 .. Len(s) : s[i] \in S
    BY <1>1
  <1>3. /\ t \in Seq(S)
        /\ Len(t) = IF k + 1 <= Len(s) THEN Len(s) - (k + 1) + 1 ELSE 0
        /\ \A i \in 1 .. Len(s) - (k + 1) + 1 : t[i] = s[(k + 1) + i - 1]
    BY <1>1, <1>2, SubSeqProperties, SMTT(20)
  <1> HIDE DEF t
  <1>4. Len(t) = Len(s) - k /\ DOMAIN t = 1 .. Len(s) - k
    BY <1>1, <1>3, LenProperties
  <1>5. ASSUME NEW i \in DOMAIN t
        PROVE  i + k \in DOMAIN s /\ t[i] = s[i + k]
    <2>1. /\ i \in 1 .. Len(s) - (k + 1) + 1
          /\ i + k \in 1 .. Len(s) /\ (k + 1) + i - 1 = i + k
      BY <1>1, <1>4
    <2>2. QED
      BY <1>1, <1>3, <2>1
  <1>6. QED
    BY <1>1, <1>3, <1>4, <1>5 DEF Moved, t

LEMMA InFlightMoved ==
  ASSUME NEW S, NEW s \in Seq(S), NEW p \in S, NEW bound \in Nat \ {0}
  PROVE  /\ InFlight(s, p, bound) \in Seq(S)
         /\ \E d \in {0, 1} : Moved(InFlight(s, p, bound), s, d, {p})
  <1>1. Len(s) \in Nat /\ DOMAIN s = 1 .. Len(s)
    BY LenProperties
  <1>2. CASE Len(s) < bound
    <2> DEFINE t == Append(s, p)
    <2>1. /\ t \in Seq(S) /\ Len(t) = Len(s) + 1
          /\ \A i \in 1 .. Len(s) : t[i] = s[i]
          /\ t[Len(s) + 1] = p
      BY AppendProperties
    <2> HIDE DEF t
    <2>2. DOMAIN t = 1 .. Len(s) + 1
      BY <2>1, LenProperties
    <2>3. Moved(t, s, 0, {p})
      BY <1>1, <2>1, <2>2 DEF Moved
    <2>4. InFlight(s, p, bound) = t
      BY <1>2 DEF InFlight, t
    <2>5. QED
      BY <2>1, <2>3, <2>4
  <1>3. CASE ~(Len(s) < bound)
    <2>1. s # <<>> /\ Len(s) > 0
      BY <1>1, <1>3, EmptySeq
    <2> DEFINE u == Tail(s)
    <2>2. /\ u \in Seq(S) /\ Len(u) = Len(s) - 1
          /\ \A i \in 1 .. Len(u) : u[i] = s[i + 1]
      BY <2>1, HeadTailProperties
    <2> HIDE DEF u
    <2> DEFINE t == Append(u, p)
    <2>3. /\ t \in Seq(S) /\ Len(t) = Len(u) + 1
          /\ \A i \in 1 .. Len(u) : t[i] = u[i]
          /\ t[Len(u) + 1] = p
      BY <2>2, AppendProperties
    <2> HIDE DEF t
    <2>4. Len(t) = Len(s) /\ DOMAIN t = 1 .. Len(s) /\ t[Len(s)] = p
      BY <1>1, <2>1, <2>2, <2>3, LenProperties
    <2>5. \A i \in 1 .. Len(s) - 1 : t[i] = s[i + 1]
      BY <1>1, <2>2, <2>3
    <2>6. Moved(t, s, 1, {p})
      BY <1>1, <2>4, <2>5 DEF Moved
    <2>7. InFlight(s, p, bound) = t
      BY <1>3 DEF InFlight, t, u
    <2>8. QED
      BY <2>3, <2>6, <2>7
  <1>4. QED
    BY <1>2, <1>3

LEMMA MovedNot ==
  ASSUME NEW S, NEW s \in Seq(S)
  PROVE  Moved(s, s, 0, {})
  <1>1. DOMAIN s \subseteq Nat
    BY LenProperties
  <1>2. \A i \in DOMAIN s : i + 0 = i
    BY <1>1
  <1>3. QED
    BY <1>1, <1>2 DEF Moved

\* What an invariant says of the messages in flight has to be shown of the new
\* one only.
LEMMA DownMoves ==
  ASSUME NetsOK
  PROVE  /\ down' = down => down' \in Seq(DownMessage) /\ Moved(down', down, 0, {})
         /\ \A k \in DOMAIN down : down' = SubSeq(down, k + 1, Len(down)) =>
              down' \in Seq(DownMessage) /\ Moved(down', down, k, {})
         /\ \A p \in DownMessage : down' = InFlight(down, p, MaxDown) =>
              /\ down' \in Seq(DownMessage)
              /\ \E d \in {0, 1} : Moved(down', down, d, {p})
  <1>1. down \in Seq(DownMessage) /\ MaxDown \in Nat \ {0}
    BY DEF NetsOK, DownMessage
  <1>2. Moved(down, down, 0, {})
    BY <1>1, MovedNot
  <1>3. ASSUME NEW k \in DOMAIN down
        PROVE  /\ SubSeq(down, k + 1, Len(down)) \in Seq(DownMessage)
               /\ Moved(SubSeq(down, k + 1, Len(down)), down, k, {})
    BY <1>1, RestMoved
  <1>4. ASSUME NEW p \in DownMessage
        PROVE  /\ InFlight(down, p, MaxDown) \in Seq(DownMessage)
               /\ \E d \in {0, 1} : Moved(InFlight(down, p, MaxDown), down, d, {p})
    BY <1>1, InFlightMoved
  <1>5. QED
    BY <1>1, <1>2, <1>3, <1>4

LEMMA UpMoves ==
  ASSUME NetsOK
  PROVE  /\ up' = up => up' \in Seq(ClientMessages) /\ Moved(up', up, 0, {})
         /\ \A k \in DOMAIN up : up' = SubSeq(up, k + 1, Len(up)) =>
              up' \in Seq(ClientMessages) /\ Moved(up', up, k, {})
         /\ \A p \in ClientMessages : up' = InFlight(up, p, MaxUp) =>
              /\ up' \in Seq(ClientMessages)
              /\ \E d \in {0, 1} : Moved(up', up, d, {p})
  <1>1. up \in Seq(ClientMessages) /\ MaxUp \in Nat \ {0}
    BY DEF NetsOK
  <1>2. Moved(up, up, 0, {})
    BY <1>1, MovedNot
  <1>3. ASSUME NEW k \in DOMAIN up
        PROVE  /\ SubSeq(up, k + 1, Len(up)) \in Seq(ClientMessages)
               /\ Moved(SubSeq(up, k + 1, Len(up)), up, k, {})
    BY <1>1, RestMoved
  <1>4. ASSUME NEW p \in ClientMessages
        PROVE  /\ InFlight(up, p, MaxUp) \in Seq(ClientMessages)
               /\ \E d \in {0, 1} : Moved(InFlight(up, p, MaxUp), up, d, {p})
    BY <1>1, InFlightMoved
  <1>5. QED
    BY <1>1, <1>2, <1>3, <1>4

LEMMA DownAre ==
  ASSUME NEW net \in Seq(DownMessage)
  PROVE  /\ DOMAIN net \subseteq Nat
         /\ \A i \in DOMAIN net :
              /\ net[i].sequence \in Nat /\ net[i].map \in Map
              /\ IsGameState(net[i]) <=> ~IsSnapshot(net[i])
              /\ IsSnapshot(net[i]) =>
                   /\ net[i].deltaNum \in Int /\ net[i].active \in BOOLEAN
                   /\ net[i].delta \in SUBSET Change
                   /\ net[i].built \in SUBSET EntityState
  <1>1. DOMAIN net = 1 .. Len(net) /\ Len(net) \in Nat
    BY LenProperties
  <1>2. ASSUME NEW i \in DOMAIN net
        PROVE  /\ net[i].sequence \in Nat /\ net[i].map \in Map
               /\ IsGameState(net[i]) <=> ~IsSnapshot(net[i])
               /\ IsSnapshot(net[i]) =>
                    /\ net[i].deltaNum \in Int /\ net[i].active \in BOOLEAN
                    /\ net[i].delta \in SUBSET Change
                    /\ net[i].built \in SUBSET EntityState
    <2>1. net[i] \in GameStates \/ net[i] \in SnapshotMessages
      BY <1>1, ElementOfSeq DEF DownMessage
    <2>2. QED
      BY <2>1 DEF GameStates, SnapshotMessages, IsGameState, IsSnapshot, Change
  <1>3. QED
    BY <1>1, <1>2

LEMMA UpAre ==
  ASSUME NEW net \in Seq(ClientMessages)
  PROVE  /\ DOMAIN net \subseteq Nat
         /\ \A i \in DOMAIN net :
              /\ net[i].id \in Map \cup {NoMap} /\ net[i].ack \in Nat
              /\ net[i].move \in {"none", "noDelta", "delta"}
  <1>1. DOMAIN net = 1 .. Len(net) /\ Len(net) \in Nat
    BY LenProperties
  <1>2. \A i \in DOMAIN net : net[i] \in ClientMessages
    BY <1>1, ElementOfSeq
  <1>3. QED
    BY <1>1, <1>2 DEF ClientMessages
-----------------------------------------------------------------------------
(* Types.                                                                  *)

LEMMA SlotRange == \A n \in Int : Slot(n) \in 0 .. PACKET_BACKUP - 1
  BY RemainderRange DEF Slot

LEMMA SlotsDiffer ==
  ASSUME NEW a \in Int, NEW b \in Int, a < b, b < a + PACKET_BACKUP
  PROVE  Slot(a) # Slot(b)
  <1>1. PACKET_BACKUP \in Nat \ {0}
    OBVIOUS
  <1>2. a % PACKET_BACKUP # b % PACKET_BACKUP
    BY <1>1, RemaindersDiffer, Zenon
  <1>3. QED
    BY <1>2 DEF Slot

LEMMA Numbers ==
  ASSUME TypeOK
  PROVE  /\ serverId \in Nat /\ serverId \in Map /\ clServerId \in Nat
         /\ outgoingSequence \in Nat /\ outgoingSequence <= MaxSequence + 1
         /\ deltaMessage \in Int /\ gamestateMessageNum \in Int
         /\ nextSnapshotEntities \in Nat
         /\ serverMessageSequence \in Nat /\ snapNum \in Nat /\ parseEntitiesNum \in Nat
         /\ NumSnapshotEntities \in Nat \ {0} /\ snapshotEntities \in Ring(NumSnapshotEntities)
         /\ MAX_PARSE_ENTITIES \in Nat \ {0} /\ parseEntities \in Ring(MAX_PARSE_ENTITIES)
         /\ Cardinality(Entity) \in Nat
         /\ Baseline[serverId] \in [Entity -> Value] /\ Baseline[clServerId] \in [Entity -> Value]
  <1>1. serverId \in Map /\ clServerId \in Map \cup {NoMap} /\ Map \subseteq Nat
    BY DEF TypeOK, Map
  <1>2. serverId \in Nat /\ clServerId \in Nat
    BY <1>1 DEF NoMap
  <1>3. MaxEntitiesStored[serverId] \in Nat
    BY <1>1
  <1>4. nextSnapshotEntities \in Nat
    BY <1>3 DEF TypeOK
  <1>5. Baseline[serverId] \in [Entity -> Value] /\ Baseline[clServerId] \in [Entity -> Value]
    BY <1>1, BaselineAssumption
  <1>6. snapshotEntities \in Ring(NumSnapshotEntities) /\ parseEntities \in Ring(MAX_PARSE_ENTITIES)
    BY DEF TypeOK, Ring, AnyState
  <1>7. /\ outgoingSequence \in Nat /\ outgoingSequence <= MaxSequence + 1
        /\ deltaMessage \in Int /\ gamestateMessageNum \in Int
        /\ serverMessageSequence \in Nat /\ snapNum \in Nat /\ parseEntitiesNum \in Nat
    BY DEF TypeOK
  <1>8. Cardinality(Entity) \in Nat
    BY FS_CardinalityType
  <1>9. QED
    BY <1>1, <1>2, <1>4, <1>5, <1>6, <1>7, <1>8

LEMMA SnapshotsAre ==
  ASSUME NEW snaps \in [0 .. PACKET_BACKUP - 1 -> Snapshots], NEW i \in 0 .. PACKET_BACKUP - 1
  PROVE  /\ snaps[i] \in Snapshots /\ snaps[i].valid \in BOOLEAN /\ snaps[i].messageNum \in Nat
         /\ snaps[i].first \in Nat /\ snaps[i].num \in Nat
         /\ snaps[i].num <= Cardinality(Entity) /\ snaps[i].active \in BOOLEAN
         /\ snaps[i].built \in SUBSET EntityState /\ snaps[i].map \in Nat
  <1>1. snaps[i] \in Snapshots
    OBVIOUS
  <1>2. Map \cup {NoMap} \subseteq Nat /\ Cardinality(Entity) \in Nat
    BY FS_CardinalityType DEF Map, NoMap
  <1>3. QED
    BY <1>1, <1>2 DEF Snapshots

LEMMA FramesAre ==
  ASSUME TypeOK, NEW i \in 0 .. PACKET_BACKUP - 1
  PROVE  frames[i].first \in Nat /\ frames[i].num \in Nat
  <1>1. frames[i] \in Frames /\ Cardinality(Entity) \in Nat
    BY FS_CardinalityType DEF TypeOK
  <1>2. QED
    BY <1>1 DEF Frames

LEMMA Slots ==
  ASSUME TypeOK
  PROVE  /\ DOMAIN snapshots = 0 .. PACKET_BACKUP - 1
         /\ \A n \in Int : Slot(n) \in DOMAIN snapshots
  <1>1. DOMAIN snapshots = 0 .. PACKET_BACKUP - 1
    BY DEF TypeOK
  <1>2. QED
    BY <1>1, SlotRange

LEMMA ScenesAre ==
  ASSUME NEW scene \in Scene \cup OtherScene
  PROVE  /\ scene \in SUBSET EntityState /\ scene \in SUBSET AnyState
         /\ Distinct(scene)
         /\ Cardinality(scene) \in Nat /\ Cardinality(scene) <= Cardinality(Entity)
         /\ scene \in Scene => /\ Cardinality(scene) <= NumSnapshotEntities
                              /\ Cardinality(scene) <= ParseMargin
  <1>1. scene \in SUBSET EntityState /\ Distinct(scene) /\ scene \in SUBSET AnyState
    BY SceneAssumption DEF AnyState
  <1>2. Cardinality(scene) \in 0 .. Cardinality(Entity) /\ Cardinality(Entity) \in Nat
    BY <1>1, DistinctFit, FS_CardinalityType
  <1>3. scene \in Scene => /\ Cardinality(scene) <= NumSnapshotEntities
                          /\ Cardinality(scene) <= ParseMargin
    BY SceneAssumption
  <1>4. QED
    BY <1>1, <1>2, <1>3

LEMMA EmptyRings ==
  ASSUME NEW size \in Nat \ {0}
  PROVE  EmptyRing(size) \in [0 .. size - 1 -> EntityState \cup {NoEntity}]
  BY DEF EmptyRing
-----------------------------------------------------------------------------
(* The beginning.                                                          *)

LEMMA InitInv == Init => IInv
  <1> SUFFICES ASSUME Init PROVE IInv
    OBVIOUS
  <1>1. Len(<<>>) = 0 /\ down = <<>> /\ up = <<>> /\ DOMAIN down = {} /\ DOMAIN up = {}
    BY DEF Init
  <1>2. Cardinality(Entity) \in Nat /\ NoFrame \in Frames /\ NoSnapshot \in Snapshots
    <2>1. Cardinality(Entity) \in Nat
      BY FS_CardinalityType
    <2>2. NoFrame \in Frames
      BY <2>1 DEF NoFrame, Frames
    <2>3. NoSnapshot \in Snapshots
      BY <2>1 DEF NoSnapshot, Snapshots, NoMap
    <2>4. QED
      BY <2>1, <2>2, <2>3
  <1>3. \A i \in DOMAIN snapshots : snapshots[i] = NoSnapshot /\ ~snapshots[i].valid
    BY DEF Init, NoSnapshot
  <1>4. TypeOK
    <2>1. /\ serverId \in Map /\ clServerId \in Map \cup {NoMap}
          /\ nextSnapshotEntities \in 0 .. MaxEntitiesStored[serverId]
      <3>1. 1 \in Map
        BY DEF Map
      <3>2. MaxEntitiesStored[1] \in Nat
        BY <3>1
      <3>3. QED
        BY <3>1, <3>2 DEF Init
    <2>2. /\ frames \in [0 .. PACKET_BACKUP - 1 -> Frames]
          /\ snapshots \in [0 .. PACKET_BACKUP - 1 -> Snapshots]
      BY <1>2 DEF Init
    <2>3. /\ snapshotEntities \in
               [0 .. NumSnapshotEntities - 1 -> EntityState \cup {NoEntity}]
          /\ parseEntities \in
               [0 .. MAX_PARSE_ENTITIES - 1 -> EntityState \cup {NoEntity}]
      BY EmptyRings DEF Init
    <2>4. /\ state \in {"connected", "primed", "active"}
          /\ outgoingSequence \in 1 .. MaxSequence + 1
          /\ deltaMessage \in -1 .. MaxSequence
          /\ gamestateMessageNum \in -1 .. MaxSequence
          /\ serverMessageSequence \in 0 .. MaxSequence /\ snapNum \in 0 .. MaxSequence
          /\ parseEntitiesNum \in Nat
      BY DEF Init
    <2>5. QED
      BY <2>1, <2>2, <2>3, <2>4 DEF TypeOK
  <1>5. NetsOK
    BY <1>1, EmptySeq DEF NetsOK
  <1>6. OrderInv /\ GameStateInv /\ ActiveInv /\ HeldInv /\ DeltaInv
    BY <1>1 DEF Init, OrderInv, GameStateInv, ActiveInv, HeldInv, DeltaInv, NoMap
  <1>7. SnapshotInv /\ FrameInv /\ ParsedInv
    BY <1>1, <1>3 DEF Init, SnapshotInv, FrameInv, ParsedInv
  <1>8. QED
    BY <1>4, <1>5, <1>6, <1>7 DEF IInv
-----------------------------------------------------------------------------
(* What a step keeps.                                                      *)

LEMMA SameHeld ==
  ASSUME UNCHANGED <<snapNum, snapshots, clServerId>>, NEW n, Held(n)
  PROVE  Held(n)'
  BY DEF Held

LEMMA FrameStays ==
  ASSUME UNCHANGED <<frames, snapshotEntities, nextSnapshotEntities>>,
         TypeOK, outgoingSequence' \in Nat, outgoingSequence <= outgoingSequence',
         NEW n \in Int, NEW ents, FrameHolds(n, ents)
  PROVE  FrameHolds(n, ents)'
  <1>1. outgoingSequence' - n <= PACKET_BACKUP => outgoingSequence - n <= PACKET_BACKUP
    BY Numbers
  <1>2. QED
    BY <1>1 DEF FrameHolds

\* A frame holds its entities while others are stored behind them.
LEMMA FrameKept ==
  ASSUME TypeOK, NEW scene \in SUBSET AnyState,
         snapshotEntities' = Stored(snapshotEntities, nextSnapshotEntities, scene),
         nextSnapshotEntities' = nextSnapshotEntities + Cardinality(scene),
         outgoingSequence' \in Nat, outgoingSequence <= outgoingSequence',
         NEW n \in Int, NEW ents, FrameHolds(n, ents),
         outgoingSequence' - n <= PACKET_BACKUP => frames'[Slot(n)] = frames[Slot(n)]
  PROVE  FrameHolds(n, ents)'
  <1> DEFINE frame == frames[Slot(n)]
             next == nextSnapshotEntities
             size == NumSnapshotEntities
  <1>1. /\ frame.first \in Nat /\ frame.num \in Nat /\ next \in Nat /\ size \in Nat \ {0}
        /\ Cardinality(scene) \in Nat /\ snapshotEntities \in Ring(size)
        /\ outgoingSequence \in Nat
    BY Numbers, FramesAre, SlotRange, SomeFinite
  <1> SUFFICES ASSUME outgoingSequence' - n <= PACKET_BACKUP,
                      frame.first > nextSnapshotEntities' - size
               PROVE  /\ frame.first + frame.num <= nextSnapshotEntities'
                      /\ Window(snapshotEntities', frame.first, frame.num) = ents
    BY DEF FrameHolds
  <1>2. outgoingSequence - n <= PACKET_BACKUP /\ frame.first > next - size
    BY <1>1
  <1>3. /\ frame.first + frame.num <= next
        /\ Window(snapshotEntities, frame.first, frame.num) = ents
    BY <1>2 DEF FrameHolds
  <1>4. frame.first >= next + Cardinality(scene) - size
    BY <1>1
  <1> HIDE DEF frame, next, size
  <1>5. Window(Stored(snapshotEntities, next, scene), frame.first, frame.num) = ents
    BY <1>1, <1>3, <1>4, StoredKeepsWindow
  <1>6. frame.first + frame.num <= next + Cardinality(scene)
    BY <1>1, <1>3
  <1>7. QED
    BY <1>5, <1>6 DEF next

LEMMA FrameInvKept ==
  ASSUME TypeOK, NetsOK, OrderInv, SnapshotInv, FrameInv,
         serverId' = serverId, down' \in Seq(DownMessage),
         \A n \in Int : \A ents :
           n < outgoingSequence /\ FrameHolds(n, ents) => FrameHolds(n, ents)',
         NEW d, NEW new, Moved(down', down, d, new),
         \A msg \in new : IsSnapshot(msg) /\ msg.map = serverId =>
           FrameHolds(msg.sequence, msg.built)'
  PROVE  /\ \A i \in DOMAIN down' : IsSnapshot(down'[i]) /\ down'[i].map = serverId' =>
              FrameHolds(down[i].sequence, down[i].built)'
         /\ \A i \in DOMAIN snapshots : snapshots[i].valid /\ snapshots[i].map = serverId =>
              \E n, ents : /\ n = snapshots[i].messageNum /\ ents = snapshots[i].built
                          /\ FrameHolds(n, ents)'
  <1>1. ASSUME NEW i \in DOMAIN snapshots, snapshots[i].valid, snapshots[i].map = serverId
        PROVE  \E n, ents : /\ n = snapshots[i].messageNum /\ ents = snapshots[i].built
                           /\ FrameHolds(n, ents)'
    <2>1. PICK n, ents : n = snapshots[i].messageNum /\ ents = snapshots[i].built
      OBVIOUS
    <2>2. n \in Int /\ n < outgoingSequence
      <3>1. n \in 1 .. snapNum
        BY <1>1, <2>1 DEF SnapshotInv
      <3>2. /\ snapNum \in Nat /\ serverMessageSequence \in Nat /\ outgoingSequence \in Nat
            /\ snapNum <= serverMessageSequence /\ serverMessageSequence < outgoingSequence
        BY Numbers DEF OrderInv
      <3>3. QED
        BY <3>1, <3>2
    <2>3. FrameHolds(n, ents)'
      BY <1>1, <2>1, <2>2 DEF FrameInv
    <2>4. QED
      BY <2>1, <2>3
  <1>2. ASSUME NEW i \in DOMAIN down', IsSnapshot(down'[i]), down'[i].map = serverId
        PROVE  FrameHolds(down[i].sequence, down[i].built)'
    <2>1. PICK n, ents : n = down'[i].sequence /\ ents = down'[i].built
      OBVIOUS
    <2>2. CASE i + d \in DOMAIN down /\ down'[i] = down[i + d]
      <3>1. n \in Int /\ n < outgoingSequence
        <4>1. down \in Seq(DownMessage) /\ outgoingSequence \in Nat /\ serverMessageSequence \in Nat
          BY Numbers DEF NetsOK, DownMessage
        <4>2. down[i + d].sequence \in serverMessageSequence + 1 .. outgoingSequence - 1
          BY <2>2 DEF OrderInv
        <4>3. QED
          BY <2>1, <2>2, <4>1, <4>2
      <3>2. FrameHolds(n, ents)
        <4>1. IsSnapshot(down[i + d]) /\ down[i + d].map = serverId
          BY <1>2, <2>2 DEF IsSnapshot
        <4>2. QED
          BY <2>1, <2>2, <4>1 DEF FrameInv
      <3>3. FrameHolds(n, ents)'
        BY <3>1, <3>2
      <3>4. QED
        BY <2>1, <3>3
    <2>3. CASE down'[i] \in new
      <3>1. PICK msg \in new : msg = down'[i]
        BY <2>3
      <3>2. FrameHolds(msg.sequence, msg.built)'
        BY <1>2, <3>1 DEF IsSnapshot
      <3>3. QED
        BY <3>1, <3>2
    <2>4. QED
      BY <2>2, <2>3 DEF Moved
  <1>3. QED
    BY <1>1, <1>2

\* So does a snapshot of the client.
LEMMA ParsedKept ==
  ASSUME TypeOK, NEW ents \in SUBSET AnyState,
         parseEntities' = Stored(parseEntities, parseEntitiesNum, ents),
         parseEntitiesNum' = parseEntitiesNum + Cardinality(ents),
         NEW first \in Nat, NEW num \in Nat, first + num <= parseEntitiesNum
  PROVE  /\ first + num <= parseEntitiesNum'
         /\ parseEntitiesNum' - first <= MAX_PARSE_ENTITIES =>
              /\ parseEntitiesNum - first <= MAX_PARSE_ENTITIES
              /\ Window(parseEntities', first, num) = Window(parseEntities, first, num)
  <1>1. /\ parseEntitiesNum \in Nat /\ Cardinality(ents) \in Nat
        /\ MAX_PARSE_ENTITIES \in Nat \ {0} /\ parseEntities \in Ring(MAX_PARSE_ENTITIES)
    BY Numbers, SomeFinite
  <1>2. first + num <= parseEntitiesNum'
    BY <1>1
  <1>3. ASSUME parseEntitiesNum' - first <= MAX_PARSE_ENTITIES
        PROVE  /\ parseEntitiesNum - first <= MAX_PARSE_ENTITIES
               /\ first >= parseEntitiesNum + Cardinality(ents) - MAX_PARSE_ENTITIES
    BY <1>1, <1>3
  <1>4. ASSUME parseEntitiesNum' - first <= MAX_PARSE_ENTITIES
        PROVE  Window(parseEntities', first, num) = Window(parseEntities, first, num)
    BY <1>1, <1>3, <1>4, StoredKeepsWindow
  <1>5. QED
    BY <1>2, <1>3, <1>4
-----------------------------------------------------------------------------
(* The steps of the server without the network.                            *)

LEMMA SpawnInv == ASSUME IInv, SV_SpawnServer PROVE IInv'
  <1>1. /\ serverId' = serverId + 1 /\ serverId < MaxMaps
        /\ state' = "connected"
        /\ snapshotEntities' = EmptyRing(NumSnapshotEntities)
        /\ nextSnapshotEntities' = 0
        /\ UNCHANGED <<outgoingSequence, deltaMessage, gamestateMessageNum, frames,
                       clServerId, serverMessageSequence, snapNum, snapshots,
                       parseEntities, parseEntitiesNum, down, up>>
    BY DEF SV_SpawnServer, clVars
  <1>2. /\ TypeOK /\ NetsOK /\ OrderInv /\ GameStateInv /\ ActiveInv /\ SnapshotInv
        /\ HeldInv /\ DeltaInv /\ FrameInv /\ ParsedInv
    BY DEF IInv
  <1>3. /\ serverId \in Nat /\ serverId \in Map /\ clServerId \in Nat
        /\ clServerId <= serverId
    BY <1>2, Numbers DEF OrderInv
  <1>4. down \in Seq(DownMessage) /\ up \in Seq(ClientMessages)
    BY <1>2 DEF NetsOK, DownMessage
  <1>5. TypeOK'
    <2>1. serverId' \in Map
      BY <1>1, <1>3 DEF Map
    <2>2. nextSnapshotEntities' \in 0 .. MaxEntitiesStored[serverId']
      BY <1>1, <2>1
    <2>3. snapshotEntities' \in [0 .. NumSnapshotEntities - 1 -> EntityState \cup {NoEntity}]
      BY <1>1, EmptyRings
    <2>4. QED
      BY <1>1, <1>2, <2>1, <2>2, <2>3 DEF TypeOK
  <1>6. NetsOK'
    BY <1>1, <1>2 DEF NetsOK
  <1>7. OrderInv'
    <2>1. \A i \in DOMAIN down : down[i].map \in Nat
      BY <1>4, DownAre DEF Map
    <2>2. \A i \in DOMAIN down : down[i].map \in clServerId .. serverId + 1
      BY <1>2, <1>3, <2>1 DEF OrderInv
    <2>3. clServerId <= serverId + 1
      BY <1>3
    <2>4. QED
      BY <1>1, <1>2, <2>2, <2>3 DEF OrderInv
  <1>8. GameStateInv'
    <2>1. clServerId # serverId + 1
      BY <1>3
    <2>2. QED
      BY <1>1, <1>2, <2>1 DEF GameStateInv, IsGameState
  <1>9. ActiveInv'
    BY <1>1, <1>2 DEF ActiveInv, IsSnapshot, IsGameState
  <1>10. SnapshotInv'
    <2>1. DOMAIN snapshots = 0 .. PACKET_BACKUP - 1
      BY <1>2 DEF TypeOK
    <2>2. \A i \in DOMAIN snapshots : snapshots[i].valid => snapshots[i].map \in clServerId .. serverId + 1
      BY <1>2, <1>3 DEF SnapshotInv
    <2>3. QED
      BY <1>1, <1>2, <2>2 DEF SnapshotInv
  <1>11. HeldInv'
    <2>1. \A i \in DOMAIN up : up[i].id \in Nat /\ up[i].id <= clServerId
      BY <1>2, <1>4, UpAre DEF OrderInv, Map, NoMap
    <2>2. \A i \in DOMAIN up : up[i].id # serverId + 1
      BY <1>3, <2>1
    <2>3. \A i \in DOMAIN down : IsSnapshot(down[i]) /\ down[i].deltaNum > 0 =>
            Held(down[i].deltaNum)'
      BY <1>1, <1>2, SameHeld DEF HeldInv, Held
    <2>4. QED
      BY <1>1, <1>2, <2>2, <2>3 DEF HeldInv, IsSnapshot, Held
  <1>12. DeltaInv'
    BY <1>1, <1>2 DEF DeltaInv, IsSnapshot
  <1>13. FrameInv'
    <2>1. \A i \in DOMAIN down : down[i].map # serverId + 1
      BY <1>2, <1>3, <1>4, DownAre DEF OrderInv
    <2>2. \A i \in DOMAIN snapshots : snapshots[i].valid => snapshots[i].map # serverId + 1
      BY <1>2, <1>3 DEF SnapshotInv
    <2>3. QED
      BY <1>1, <2>1, <2>2 DEF FrameInv
  <1>14. ParsedInv'
    BY <1>1, <1>2 DEF ParsedInv, EntitiesIn
  <1>15. QED
    BY <1>5, <1>6, <1>7, <1>8, <1>9, <1>10, <1>11, <1>12, <1>13, <1>14 DEF IInv

LEMMA OtherSnapshotInv ==
  ASSUME IInv, NEW scene \in OtherScene, SV_BuildOtherSnapshot(scene)
  PROVE  IInv'
  <1>1. /\ nextSnapshotEntities' = nextSnapshotEntities + Cardinality(scene)
        /\ nextSnapshotEntities' <= MaxEntitiesStored[serverId]
        /\ snapshotEntities' = Stored(snapshotEntities, nextSnapshotEntities, scene)
        /\ UNCHANGED <<serverId, state, outgoingSequence, deltaMessage,
                       gamestateMessageNum, frames, clVars, down, up>>
    BY DEF SV_BuildOtherSnapshot
  <1>2. UNCHANGED <<clServerId, serverMessageSequence, snapNum, snapshots,
                    parseEntities, parseEntitiesNum>>
    BY <1>1 DEF clVars
  <1>3. /\ TypeOK /\ NetsOK /\ OrderInv /\ GameStateInv /\ ActiveInv /\ SnapshotInv
        /\ HeldInv /\ DeltaInv /\ FrameInv /\ ParsedInv
    BY DEF IInv
  <1>4. scene \in SUBSET AnyState /\ Cardinality(scene) \in Nat
    BY ScenesAre
  <1>5. TypeOK'
    <2>1. nextSnapshotEntities' \in 0 .. MaxEntitiesStored[serverId]
      BY <1>1, <1>3, <1>4, Numbers
    <2>2. snapshotEntities' \in [0 .. NumSnapshotEntities - 1 -> EntityState \cup {NoEntity}]
      BY <1>1, <1>3, <1>4, Numbers, StoredRing DEF Ring, AnyState
    <2>3. QED
      BY <1>1, <1>2, <1>3, <2>1, <2>2 DEF TypeOK
  <1>6. NetsOK' /\ OrderInv' /\ GameStateInv' /\ ActiveInv'
    BY <1>1, <1>2, <1>3 DEF NetsOK, OrderInv, GameStateInv, ActiveInv, IsSnapshot, IsGameState
  <1>7. SnapshotInv' /\ DeltaInv' /\ ParsedInv'
    BY <1>1, <1>2, <1>3 DEF SnapshotInv, DeltaInv, IsSnapshot, ParsedInv, EntitiesIn
  <1>8. HeldInv'
    BY <1>1, <1>2, <1>3 DEF HeldInv, IsSnapshot, Held
  <1>9. FrameInv'
    <2>1. down \in Seq(DownMessage) /\ outgoingSequence \in Nat
      BY <1>3, Numbers DEF NetsOK, DownMessage
    <2>2. ASSUME NEW n \in Int, NEW ents, FrameHolds(n, ents)
          PROVE  FrameHolds(n, ents)'
      BY <1>1, <1>3, <1>4, <2>1, <2>2, FrameKept
    <2>3. down' \in Seq(DownMessage) /\ Moved(down', down, 0, {})
      BY <1>1, <1>3, DownMoves
    <2>4. QED
      BY <1>1, <1>2, <1>3, <2>2, <2>3, FrameInvKept DEF FrameInv
  <1>10. QED
    BY <1>3, <1>5, <1>6, <1>7, <1>8, <1>9 DEF IInv
-----------------------------------------------------------------------------
(* A message of the client arrives.                                        *)

LEMMA UpReceived ==
  ASSUME NetsOK, NEW k \in DOMAIN up, up' = SubSeq(up, k + 1, Len(up))
  PROVE  /\ up' \in Seq(ClientMessages) /\ k \in Nat
         /\ \A i \in DOMAIN up' : i \in Nat /\ i + k \in DOMAIN up /\ up'[i] = up[i + k]
  BY UpMoves DEF Moved

LEMMA DownReceived ==
  ASSUME NetsOK, NEW k \in DOMAIN down, down' = SubSeq(down, k + 1, Len(down))
  PROVE  /\ down' \in Seq(DownMessage) /\ k \in Nat
         /\ Moved(down', down, k, {})
         /\ \A i \in DOMAIN down' : /\ i \in Nat /\ i > 0
                                    /\ i + k \in DOMAIN down /\ down'[i] = down[i + k]
  <1>1. down' \in Seq(DownMessage) /\ Moved(down', down, k, {})
    BY DownMoves
  <1>2. DOMAIN down' = 1 .. Len(down') /\ Len(down') \in Nat
    BY <1>1, LenProperties
  <1>3. k \in Nat /\ \A i \in DOMAIN down' : /\ i + k \in DOMAIN down
                                           /\ down'[i] = down[i + k]
    BY <1>1, SMTT(20) DEF Moved
  <1>4. \A i \in DOMAIN down' : i \in Nat /\ i > 0
    BY <1>2
  <1>5. QED
    BY <1>1, <1>3, <1>4

\* What the invariant says of the client's messages, once one is taken.
UpOrder == \A i \in DOMAIN up :
  /\ up[i].ack <= serverMessageSequence /\ up[i].id <= clServerId
  /\ \A j \in DOMAIN up : i < j => up[i].ack <= up[j].ack

LEMMA UpOrderKept ==
  ASSUME NetsOK, OrderInv, NEW k \in DOMAIN up, up' = SubSeq(up, k + 1, Len(up)),
         UNCHANGED <<serverMessageSequence, clServerId>>
  PROVE  UpOrder'
  <1>1. UpOrder /\ DOMAIN up \subseteq Nat
    BY UpAre DEF OrderInv, UpOrder, NetsOK
  <1>2. /\ k \in Nat
        /\ \A i \in DOMAIN up' : i \in Nat /\ i + k \in DOMAIN up /\ up'[i] = up[i + k]
    BY UpReceived
  <1>3. ASSUME NEW i \in DOMAIN up', NEW j \in DOMAIN up', i < j
        PROVE  up'[i].ack <= up'[j].ack
    <2>1. i + k < j + k
      BY <1>1, <1>2, <1>3
    <2>2. up[i + k].ack <= up[j + k].ack
      BY <1>1, <1>2, <2>1 DEF UpOrder
    <2>3. QED
      BY <1>2, <2>2
  <1>4. \A i \in DOMAIN up' : /\ up'[i].ack <= serverMessageSequence
                              /\ up'[i].id <= clServerId
    BY <1>1, <1>2 DEF UpOrder
  <1>5. QED
    BY <1>3, <1>4 DEF UpOrder

\* A message less leaves the others what they were.
LEMMA UpHeldKept ==
  ASSUME NetsOK, HeldInv, NEW k \in DOMAIN up, up' = SubSeq(up, k + 1, Len(up)),
         UNCHANGED <<serverId, snapNum, snapshots, clServerId, down>>
  PROVE  /\ \A i \in DOMAIN up' :
              up'[i].id = serverId' /\ up'[i].move = "delta" => Held(up[i].ack)'
         /\ \A i \in DOMAIN down : IsSnapshot(down[i]) /\ down[i].deltaNum > 0 =>
              /\ Held(down[i].deltaNum)'
              /\ down[i].sequence - down[i].deltaNum < PACKET_BACKUP
  <1>1. ASSUME NEW i \in DOMAIN up', up'[i].id = serverId', up'[i].move = "delta"
        PROVE  Held(up[i].ack)'
    <2>1. i + k \in DOMAIN up /\ up'[i] = up[i + k]
      BY UpReceived
    <2>2. PICK n : n = up[i + k].ack
      OBVIOUS
    <2>3. Held(n)
      BY <1>1, <2>1, <2>2 DEF HeldInv
    <2>4. Held(n)'
      BY <2>3, SameHeld
    <2>5. QED
      BY <2>1, <2>2, <2>4
  <1>2. ASSUME NEW i \in DOMAIN down, IsSnapshot(down[i]), down[i].deltaNum > 0
        PROVE  /\ Held(down[i].deltaNum)'
               /\ down[i].sequence - down[i].deltaNum < PACKET_BACKUP
    <2>1. PICK n : n = down[i].deltaNum
      OBVIOUS
    <2>2. Held(n) /\ down[i].sequence - n < PACKET_BACKUP
      BY <1>2, <2>1 DEF HeldInv
    <2>3. Held(n)'
      BY <2>2, SameHeld
    <2>4. QED
      BY <2>1, <2>2, <2>3
  <1>3. QED
    BY <1>1, <1>2

LEMMA IgnoredInv ==
  ASSUME IInv, NEW k \in DOMAIN up, up' = SubSeq(up, k + 1, Len(up)),
         UNCHANGED <<svVars, clVars, down>>
  PROVE  IInv'
  <1>1. UNCHANGED <<serverId, state, outgoingSequence, deltaMessage,
                    gamestateMessageNum, frames, snapshotEntities, nextSnapshotEntities,
                    clServerId, serverMessageSequence, snapNum, snapshots,
                    parseEntities, parseEntitiesNum, down>>
    BY DEF svVars, clVars
  <1>2. /\ TypeOK /\ NetsOK /\ OrderInv /\ GameStateInv /\ ActiveInv /\ SnapshotInv
        /\ HeldInv /\ DeltaInv /\ FrameInv /\ ParsedInv
    BY DEF IInv
  <1>3. /\ up' \in Seq(ClientMessages)
        /\ \A i \in DOMAIN up' : i + k \in DOMAIN up /\ up'[i] = up[i + k]
    BY <1>2, UpReceived
  <1>4. TypeOK' /\ NetsOK' /\ ActiveInv' /\ SnapshotInv' /\ DeltaInv' /\ ParsedInv'
    <2>1. TypeOK' /\ NetsOK'
      BY <1>1, <1>2, <1>3 DEF TypeOK, NetsOK
    <2>2. ActiveInv' /\ SnapshotInv' /\ DeltaInv' /\ ParsedInv'
      BY <1>1, <1>2 DEF ActiveInv, SnapshotInv, DeltaInv, ParsedInv, EntitiesIn,
                        IsSnapshot, IsGameState
    <2>3. QED
      BY <2>1, <2>2
  <1>5. OrderInv'
    BY <1>1, <1>2, UpOrderKept DEF OrderInv, UpOrder
  <1>6. GameStateInv'
    BY <1>1, <1>2, <1>3 DEF GameStateInv, IsGameState
  <1>7. HeldInv'
    <2>1. state' = "active" /\ deltaMessage' > 0 => Held(deltaMessage)'
      BY <1>1, <1>2 DEF HeldInv, Held
    <2>2. QED
      BY <1>1, <1>2, <2>1, UpHeldKept DEF HeldInv, IsSnapshot
  <1>8. FrameInv'
    BY <1>1, <1>2 DEF FrameInv, FrameHolds, IsSnapshot
  <1>9. QED
    BY <1>4, <1>5, <1>6, <1>7, <1>8 DEF IInv

LEMMA UserMoveInv ==
  ASSUME IInv, NEW k \in DOMAIN up, up' = SubSeq(up, k + 1, Len(up)),
         SV_UserMove(up[k]), UNCHANGED clVars
  PROVE  IInv'
  <1> DEFINE msg == up[k]
  <1>1. /\ msg.id = serverId
        /\ state' = IF state = "primed" THEN "active" ELSE state
        /\ deltaMessage' = IF msg.move = "delta" /\ state = "active" THEN msg.ack ELSE -1
        /\ UNCHANGED <<serverId, outgoingSequence, gamestateMessageNum,
                       frames, snapshotEntities, nextSnapshotEntities,
                       clServerId, serverMessageSequence, snapNum, snapshots,
                       parseEntities, parseEntitiesNum, down>>
    BY DEF SV_UserMove, clVars
  <1>2. /\ TypeOK /\ NetsOK /\ OrderInv /\ GameStateInv /\ ActiveInv /\ SnapshotInv
        /\ HeldInv /\ DeltaInv /\ FrameInv /\ ParsedInv
    BY DEF IInv
  <1>3. /\ up' \in Seq(ClientMessages)
        /\ \A i \in DOMAIN up' : i + k \in DOMAIN up /\ up'[i] = up[i + k]
    BY <1>2, UpReceived
  <1>4. msg.ack \in Nat /\ msg.ack <= serverMessageSequence /\ msg.id <= clServerId
    BY <1>2, UpAre DEF NetsOK, OrderInv
  <1>5. clServerId = serverId
    BY <1>1, <1>2, <1>4, Numbers, SMTT(20) DEF OrderInv
  <1> HIDE DEF msg
  <1>6. TypeOK' /\ NetsOK'
    <2>1. deltaMessage' \in -1 .. MaxSequence
      <3>1. msg.ack \in -1 .. MaxSequence
        BY <1>2, <1>4 DEF TypeOK
      <3>2. QED
        BY <1>1, <3>1
    <2>2. state' \in {"connected", "primed", "active"}
      BY <1>1, <1>2 DEF TypeOK
    <2>3. TypeOK'
      BY <1>1, <1>2, <2>1, <2>2 DEF TypeOK
    <2>4. NetsOK'
      BY <1>1, <1>2, <1>3 DEF NetsOK
    <2>5. QED
      BY <2>3, <2>4
  <1>7. ActiveInv' /\ SnapshotInv' /\ DeltaInv' /\ ParsedInv'
    BY <1>1, <1>2 DEF ActiveInv, SnapshotInv, DeltaInv, ParsedInv, EntitiesIn,
                      IsSnapshot, IsGameState
  <1>8. OrderInv'
    BY <1>1, <1>2, UpOrderKept DEF OrderInv, UpOrder
  <1>9. GameStateInv'
    BY <1>1, <1>2, <1>3, <1>5 DEF GameStateInv, IsGameState
  <1>10. HeldInv'
    <2>1. \A n : Held(n) => Held(n)'
      BY <1>1 DEF Held
    <2>2. state' = "active" /\ deltaMessage' > 0 => Held(deltaMessage')
      <3>1. CASE msg.move = "delta" /\ state = "active"
        BY <1>1, <1>2, <3>1 DEF HeldInv, msg
      <3>2. CASE ~(msg.move = "delta" /\ state = "active")
        BY <1>1, <3>2
      <3>3. QED
        BY <3>1, <3>2
    <2>3. state' = "active" /\ deltaMessage' > 0 => Held(deltaMessage)'
      BY <1>1, <2>2 DEF Held
    <2>4. QED
      BY <1>1, <1>2, <2>3, UpHeldKept DEF HeldInv, IsSnapshot
  <1>11. FrameInv'
    BY <1>1, <1>2 DEF FrameInv, FrameHolds, IsSnapshot
  <1>12. QED
    BY <1>6, <1>7, <1>8, <1>9, <1>10, <1>11 DEF IInv

\* A client that asks for a delta names the last snapshot, which it has.
LEMMA WritePacketInv == ASSUME IInv, CL_WritePacket PROVE IInv'
  <1> DEFINE msg == [id |-> clServerId, ack |-> serverMessageSequence, move |-> Move]
  <1>1. /\ up' = InFlight(up, msg, MaxUp)
        /\ UNCHANGED <<serverId, state, outgoingSequence, deltaMessage,
                       gamestateMessageNum, frames, snapshotEntities, nextSnapshotEntities,
                       clServerId, serverMessageSequence, snapNum, snapshots,
                       parseEntities, parseEntitiesNum, down>>
    BY DEF CL_WritePacket, svVars, clVars
  <1>2. /\ TypeOK /\ NetsOK /\ OrderInv /\ GameStateInv /\ ActiveInv /\ SnapshotInv
        /\ HeldInv /\ DeltaInv /\ FrameInv /\ ParsedInv
    BY DEF IInv
  <1>3. /\ clServerId \in Map \cup {NoMap} /\ serverMessageSequence \in Nat
        /\ clServerId \in Nat /\ serverId \in Nat /\ snapNum \in Nat
    BY <1>2, Numbers DEF TypeOK
  <1>4. msg \in ClientMessages
    <2>1. Move \in {"none", "noDelta", "delta"}
      BY DEF Move
    <2>2. QED
      BY <1>3, <2>1 DEF ClientMessages
  <1>5. /\ msg.id = clServerId /\ msg.ack = serverMessageSequence
        /\ msg.move = "delta" => snapNum # 0 /\ serverMessageSequence = snapNum
    BY DEF Move
  <1> HIDE DEF msg
  <1>6. PICK d \in {0, 1} : Moved(up', up, d, {msg})
    BY <1>1, <1>2, <1>4, UpMoves
  <1>7. up' \in Seq(ClientMessages)
    BY <1>1, <1>2, <1>4, UpMoves
  <1>8. \A i \in DOMAIN up' : \/ i + d \in DOMAIN up /\ up'[i] = up[i + d]
                              \/ up'[i] = msg /\ \A j \in DOMAIN up' : j <= i
    BY <1>6 DEF Moved
  <1>9. DOMAIN up \subseteq Nat /\ DOMAIN up' \subseteq Nat
    BY <1>6 DEF Moved
  <1>10. TypeOK' /\ NetsOK'
    BY <1>1, <1>2, <1>7 DEF TypeOK, NetsOK
  <1>11. ActiveInv' /\ SnapshotInv' /\ DeltaInv' /\ ParsedInv'
    BY <1>1, <1>2 DEF ActiveInv, SnapshotInv, DeltaInv, ParsedInv, EntitiesIn,
                      IsSnapshot, IsGameState
  <1>12. OrderInv'
    <2>1. \A i \in DOMAIN up' : /\ up'[i].ack <= serverMessageSequence
                                /\ up'[i].id <= clServerId
      BY <1>2, <1>3, <1>5, <1>8 DEF OrderInv
    <2>2. ASSUME NEW i \in DOMAIN up', NEW j \in DOMAIN up', i < j
          PROVE  up'[i].ack <= up'[j].ack
      <3>1. CASE up'[j] = msg
        BY <1>5, <2>1, <3>1
      <3>2. CASE j + d \in DOMAIN up /\ up'[j] = up[j + d]
        <4>1. i + d \in DOMAIN up /\ up'[i] = up[i + d]
          BY <1>8, <1>9, <2>2
        <4>2. i + d < j + d
          BY <1>9, <2>2
        <4>3. QED
          BY <1>2, <3>2, <4>1, <4>2 DEF OrderInv
      <3>3. QED
        BY <1>8, <3>1, <3>2
    <2>3. QED
      BY <1>1, <1>2, <2>1, <2>2 DEF OrderInv
  <1>13. GameStateInv'
    <2>1. \A i \in DOMAIN up' : up'[i].ack > gamestateMessageNum => up'[i].id = clServerId
      BY <1>2, <1>5, <1>8 DEF GameStateInv
    <2>2. QED
      BY <1>1, <1>2, <2>1 DEF GameStateInv, IsGameState
  <1>14. HeldInv'
    <2>1. state' = "active" /\ deltaMessage' > 0 => Held(deltaMessage)'
      BY <1>1, <1>2 DEF HeldInv, Held
    <2>2. ASSUME NEW i \in DOMAIN down, IsSnapshot(down[i]), down[i].deltaNum > 0
          PROVE  /\ Held(down[i].deltaNum)'
                 /\ down[i].sequence - down[i].deltaNum < PACKET_BACKUP
      <3>1. Held(down[i].deltaNum) /\ down[i].sequence - down[i].deltaNum < PACKET_BACKUP
        BY <1>2, <2>2 DEF HeldInv
      <3>2. QED
        BY <1>1, <3>1 DEF Held
    <2>3. ASSUME NEW i \in DOMAIN up', up'[i].id = serverId, up'[i].move = "delta"
          PROVE  Held(up[i].ack)'
      <3>1. CASE i + d \in DOMAIN up /\ up'[i] = up[i + d]
        <4>1. PICK n : n = up[i + d].ack
          OBVIOUS
        <4>2. Held(n)
          BY <1>2, <2>3, <3>1, <4>1 DEF HeldInv
        <4>3. Held(n)'
          BY <1>1, <4>2, SameHeld
        <4>4. QED
          BY <3>1, <4>1, <4>3
      <3>2. CASE up'[i] = msg
        <4>1. PICK n : n = snapNum
          OBVIOUS
        <4>2. n \in Nat /\ n > 0 /\ n = up'[i].ack /\ clServerId = serverId
          BY <1>3, <1>5, <2>3, <3>2, <4>1
        <4>3. snapshots[Slot(n)].valid /\ snapshots[Slot(n)].messageNum = n
          BY <1>2, <4>1, <4>2 DEF SnapshotInv
        <4>4. Slot(n) \in DOMAIN snapshots
          <5>1. n \in Int /\ TypeOK
            BY <1>2, <4>2
          <5>2. QED
            BY <5>1, Slots
        <4>5. snapshots[Slot(n)].map \in clServerId .. serverId
          BY <1>2, <4>3, <4>4 DEF SnapshotInv
        <4>6. Held(n)
          BY <1>3, <4>1, <4>2, <4>3, <4>5 DEF Held
        <4>7. Held(n)'
          BY <1>1, <4>6, SameHeld
        <4>8. QED
          BY <4>2, <4>7
      <3>3. QED
        BY <1>8, <3>1, <3>2
    <2>4. QED
      BY <1>1, <2>1, <2>2, <2>3 DEF HeldInv, IsSnapshot
  <1>15. FrameInv'
    BY <1>1, <1>2 DEF FrameInv, FrameHolds, IsSnapshot
  <1>16. QED
    BY <1>10, <1>11, <1>12, <1>13, <1>14, <1>15 DEF IInv
-----------------------------------------------------------------------------
(* A message of the server is sent.                                        *)

\* The order of the messages, of which the new one is the last.
LEMMA DownOrderSent ==
  ASSUME TypeOK, NetsOK, OrderInv, NEW msg \in DownMessage,
         msg.sequence = outgoingSequence, msg.map = serverId,
         down' = InFlight(down, msg, MaxDown),
         outgoingSequence' = outgoingSequence + 1,
         UNCHANGED <<serverId, clServerId, serverMessageSequence>>
  PROVE  \A i \in DOMAIN down' :
           /\ down'[i].sequence \in serverMessageSequence' + 1 .. outgoingSequence' - 1
           /\ down'[i].map \in clServerId' .. serverId'
           /\ \A j \in DOMAIN down' : i < j => /\ down'[i].sequence < down'[j].sequence
                                             /\ down'[i].map <= down'[j].map
  <1>1. PICK d \in {0, 1} : Moved(down', down, d, {msg})
    BY DownMoves
  <1>2. /\ DOMAIN down \subseteq Nat /\ DOMAIN down' \subseteq Nat
        /\ \A i \in DOMAIN down' : \/ i + d \in DOMAIN down /\ down'[i] = down[i + d]
                                   \/ down'[i] = msg /\ \A j \in DOMAIN down' : j <= i
    BY <1>1 DEF Moved
  <1>3. /\ serverId \in Nat /\ clServerId \in Nat /\ clServerId <= serverId
        /\ outgoingSequence \in Nat /\ serverMessageSequence \in Nat
        /\ serverMessageSequence < outgoingSequence
    BY Numbers DEF OrderInv
  <1>4. ASSUME NEW i \in DOMAIN down, NEW j \in DOMAIN down
        PROVE  /\ down[i].sequence \in serverMessageSequence + 1 .. outgoingSequence - 1
               /\ down[i].map \in clServerId .. serverId
               /\ i < j => down[i].sequence < down[j].sequence /\ down[i].map <= down[j].map
    BY DEF OrderInv
  <1>5. ASSUME NEW i \in DOMAIN down'
        PROVE  /\ down'[i].sequence \in serverMessageSequence + 1 .. outgoingSequence
               /\ down'[i].map \in clServerId .. serverId
    <2>1. CASE i + d \in DOMAIN down /\ down'[i] = down[i + d]
      BY <1>3, <1>4, <2>1
    <2>2. CASE down'[i] = msg
      BY <1>3, <2>2
    <2>3. QED
      BY <1>2, <2>1, <2>2
  <1>6. ASSUME NEW i \in DOMAIN down', NEW j \in DOMAIN down', i < j
        PROVE  down'[i].sequence < down'[j].sequence /\ down'[i].map <= down'[j].map
    <2>1. i + d \in DOMAIN down /\ down'[i] = down[i + d]
      BY <1>2, <1>6
    <2>2. CASE j + d \in DOMAIN down /\ down'[j] = down[j + d]
      <3>1. i + d < j + d
        BY <1>2, <1>6
      <3>2. QED
        BY <1>4, <2>1, <2>2, <3>1
    <2>3. CASE down'[j] = msg
      BY <1>3, <1>4, <2>1, <2>3
    <2>4. QED
      BY <1>2, <2>2, <2>3
  <1>7. serverMessageSequence + 1 .. outgoingSequence \subseteq
          serverMessageSequence' + 1 .. outgoingSequence' - 1
    BY <1>3
  <1>8. QED
    BY <1>5, <1>6, <1>7

\* A gamestate goes to a client that lacks the map, and no other is in flight.
LEMMA GameStateSentInv ==
  ASSUME IInv, NEW k \in DOMAIN up, up' = SubSeq(up, k + 1, Len(up)),
         up[k].id # serverId, up[k].ack > gamestateMessageNum,
         SV_SendClientGameState, UNCHANGED clVars
  PROVE  IInv'
  <1> DEFINE msg == [type |-> "gamestate", sequence |-> outgoingSequence, map |-> serverId]
  <1>1. /\ state' = "primed" /\ gamestateMessageNum' = outgoingSequence
        /\ outgoingSequence <= MaxSequence
        /\ outgoingSequence' = outgoingSequence + 1
        /\ down' = InFlight(down, msg, MaxDown)
        /\ UNCHANGED <<serverId, deltaMessage, frames, snapshotEntities,
                       nextSnapshotEntities, clServerId, serverMessageSequence,
                       snapNum, snapshots, parseEntities, parseEntitiesNum>>
    BY DEF SV_SendClientGameState, Send, clVars
  <1>2. /\ TypeOK /\ NetsOK /\ OrderInv /\ GameStateInv /\ ActiveInv /\ SnapshotInv
        /\ HeldInv /\ DeltaInv /\ FrameInv /\ ParsedInv
    BY DEF IInv
  <1>3. /\ serverId \in Nat /\ serverId \in Map /\ clServerId \in Nat
        /\ outgoingSequence \in Nat /\ serverMessageSequence \in Nat
        /\ gamestateMessageNum \in Int /\ serverMessageSequence < outgoingSequence
    BY <1>2, Numbers DEF OrderInv
  <1>4. /\ msg \in DownMessage /\ msg.sequence = outgoingSequence /\ msg.map = serverId
        /\ ~IsSnapshot(msg) /\ IsGameState(msg)
    BY <1>3 DEF DownMessage, GameStates, IsSnapshot, IsGameState
  <1> HIDE DEF msg
  <1>5. PICK d \in {0, 1} : Moved(down', down, d, {msg})
    BY <1>1, <1>2, <1>4, DownMoves
  <1>6. down' \in Seq(DownMessage)
    BY <1>1, <1>2, <1>4, DownMoves
  <1>7. /\ DOMAIN down \subseteq Nat /\ DOMAIN down' \subseteq Nat
        /\ \A i \in DOMAIN down' : \/ i + d \in DOMAIN down /\ down'[i] = down[i + d]
                                   \/ down'[i] = msg /\ \A j \in DOMAIN down' : j <= i
    BY <1>5 DEF Moved
  <1>8. /\ up' \in Seq(ClientMessages) /\ DOMAIN up \subseteq Nat
        /\ \A i \in DOMAIN up' : i + k \in DOMAIN up /\ up'[i] = up[i + k]
        /\ \A i \in DOMAIN up : up[i].ack \in Nat /\ up[i].ack <= serverMessageSequence
    BY <1>2, UpReceived, UpAre DEF NetsOK, OrderInv
  <1>9. clServerId # serverId /\ \A i \in DOMAIN down : ~IsGameState(down[i])
    <2>1. up[k].id = clServerId
      BY <1>2 DEF GameStateInv
    <2>2. ASSUME NEW i \in DOMAIN down, IsGameState(down[i])
          PROVE  FALSE
      <3>1. /\ down[i].sequence <= gamestateMessageNum
            /\ down[i].sequence \in serverMessageSequence + 1 .. outgoingSequence - 1
        BY <1>2, <2>2 DEF GameStateInv, OrderInv
      <3>2. QED
        BY <1>3, <1>8, <3>1, SMTT(20)
    <2>3. QED
      BY <2>1, <2>2
  <1>10. TypeOK'
    <2>1. outgoingSequence' \in 1 .. MaxSequence + 1 /\ gamestateMessageNum' \in -1 .. MaxSequence
      BY <1>1, <1>3
    <2>2. QED
      BY <1>1, <1>2, <2>1 DEF TypeOK
  <1>11. NetsOK'
    BY <1>6, <1>8 DEF NetsOK, DownMessage
  <1>12. OrderInv'
    <2>1. gamestateMessageNum' < outgoingSequence' /\ serverMessageSequence' < outgoingSequence'
      BY <1>1, <1>3
    <2>2. UpOrder'
      BY <1>1, <1>2, UpOrderKept
    <2>3. \A i \in DOMAIN down' :
            /\ down'[i].sequence \in serverMessageSequence' + 1 .. outgoingSequence' - 1
            /\ down'[i].map \in clServerId' .. serverId'
            /\ \A j \in DOMAIN down' : i < j => /\ down'[i].sequence < down'[j].sequence
                                              /\ down'[i].map <= down'[j].map
      BY <1>1, <1>2, <1>4, DownOrderSent
    <2>4. QED
      BY <1>1, <1>2, <2>1, <2>2, <2>3 DEF OrderInv, UpOrder
  <1>13. GameStateInv'
    <2>1. ASSUME NEW i \in DOMAIN up'
          PROVE  ~(up'[i].ack > gamestateMessageNum')
      <3>1. i + k \in DOMAIN up /\ up'[i] = up[i + k]
        BY <1>8
      <3>2. up[i + k].ack \in Nat /\ up[i + k].ack <= serverMessageSequence
        BY <1>8, <3>1
      <3>3. gamestateMessageNum' = outgoingSequence /\ up'[i].ack = up[i + k].ack
        BY <1>1, <3>1
      <3>4. ~(up[i + k].ack > outgoingSequence)
        BY <1>3, <3>2, SMTT(20)
      <3>5. QED
        BY <3>3, <3>4
    <2>2. ASSUME NEW i \in DOMAIN down', IsGameState(down'[i])
          PROVE  /\ down'[i].sequence <= gamestateMessageNum'
                 /\ \A j \in DOMAIN down' : i # j => ~IsGameState(down'[j])
      <3>1. down'[i] = msg /\ \A j \in DOMAIN down' : j <= i
        BY <1>7, <1>9, <2>2
      <3>2. ASSUME NEW j \in DOMAIN down', i # j
            PROVE  ~IsGameState(down'[j])
        BY <1>7, <1>9, <3>1, <3>2
      <3>3. QED
        BY <1>1, <1>3, <1>4, <3>1, <3>2
    <2>3. QED
      BY <1>1, <1>9, <2>1, <2>2 DEF GameStateInv, IsGameState
  <1>14. ActiveInv'
    <2>1. ASSUME NEW i \in DOMAIN down', IsSnapshot(down'[i])
          PROVE  /\ down'[i].deltaNum > 0 => down'[i].active
                 /\ down'[i].active =>
                      /\ down'[i].map = clServerId
                      /\ \A j \in DOMAIN down' : j < i => ~IsGameState(down'[j])
      <3>1. i + d \in DOMAIN down /\ down'[i] = down[i + d]
        BY <1>4, <1>7, <2>1
      <3>2. ASSUME NEW j \in DOMAIN down', j < i
            PROVE  ~IsGameState(down'[j])
        BY <1>7, <1>9, <3>2
      <3>3. QED
        BY <1>2, <2>1, <3>1, <3>2 DEF ActiveInv
    <2>2. QED
      BY <1>1, <2>1 DEF ActiveInv, IsSnapshot, IsGameState
  <1>15. SnapshotInv' /\ ParsedInv'
    BY <1>1, <1>2 DEF SnapshotInv, ParsedInv, EntitiesIn
  <1>16. HeldInv'
    <2>1. ASSUME NEW i \in DOMAIN up', up'[i].id = serverId, up'[i].move = "delta"
          PROVE  Held(up[i].ack)'
      <3>1. PICK n : n = up[i + k].ack
        OBVIOUS
      <3>2. Held(n)
        BY <1>2, <1>8, <2>1, <3>1 DEF HeldInv
      <3>3. Held(n)'
        BY <1>1, <3>2, SameHeld
      <3>4. QED
        BY <1>8, <3>1, <3>3
    <2>2. ASSUME NEW i \in DOMAIN down', IsSnapshot(down'[i]), down'[i].deltaNum > 0
          PROVE  /\ Held(down[i].deltaNum)'
                 /\ down'[i].sequence - down'[i].deltaNum < PACKET_BACKUP
      <3>1. i + d \in DOMAIN down /\ down'[i] = down[i + d]
        BY <1>4, <1>7, <2>2
      <3>2. PICK n : n = down[i + d].deltaNum
        OBVIOUS
      <3>3. Held(n) /\ down[i + d].sequence - n < PACKET_BACKUP
        BY <1>2, <2>2, <3>1, <3>2 DEF HeldInv
      <3>4. Held(n)'
        BY <1>1, <3>3, SameHeld
      <3>5. QED
        BY <3>1, <3>2, <3>3, <3>4
    <2>3. QED
      BY <1>1, <2>1, <2>2 DEF HeldInv, IsSnapshot
  <1>17. DeltaInv'
    BY <1>1, <1>2, <1>4, <1>7 DEF DeltaInv
  <1>18. FrameInv'
    <2>1. outgoingSequence' \in Nat /\ outgoingSequence <= outgoingSequence'
      BY <1>1, <1>3
    <2>2. ASSUME NEW n \in Int, NEW ents, FrameHolds(n, ents)
          PROVE  FrameHolds(n, ents)'
      BY <1>1, <1>2, <2>1, <2>2, FrameStays
    <2>3. QED
      BY <1>1, <1>2, <1>4, <1>5, <1>6, <2>2, FrameInvKept DEF FrameInv
  <1>19. QED
    BY <1>10, <1>11, <1>12, <1>13, <1>14, <1>15, <1>16, <1>17, <1>18 DEF IInv

\* The base of a delta is what the server built under its number: the client
\* still has it, the frame still holds it.
LEMMA BaseIsBuilt ==
  ASSUME IInv, NEW scene \in SUBSET AnyState, NEW frs,
         NEW next, next = nextSnapshotEntities + Cardinality(scene),
         \A n \in Int : Slot(n) # Slot(outgoingSequence) => frs[Slot(n)] = frames[Slot(n)],
         MayDelta(frs, next)
  PROVE  LET old  == frs[Slot(deltaMessage)]
             ring == Stored(snapshotEntities, nextSnapshotEntities, scene)
             snap == snapshots[Slot(deltaMessage)]
         IN  /\ Held(deltaMessage) /\ outgoingSequence - deltaMessage < PACKET_BACKUP
             /\ Slot(deltaMessage) \in DOMAIN snapshots /\ snap.valid
             /\ Window(ring, old.first, old.num) = snap.built
  <1> DEFINE n == deltaMessage
             old == frs[Slot(n)]
             snap == snapshots[Slot(n)]
             size == NumSnapshotEntities
             this == nextSnapshotEntities
  <1>1. /\ TypeOK /\ OrderInv /\ GameStateInv /\ SnapshotInv /\ HeldInv /\ FrameInv
    BY DEF IInv
  <1>2. /\ n > 0 /\ state = "active"
        /\ outgoingSequence - n < PACKET_BACKUP - DeltaMargin
        /\ old.first > next - size
    BY DEF MayDelta
  <1>3. /\ n \in Int /\ outgoingSequence \in Nat /\ snapNum \in Nat
        /\ serverMessageSequence \in Nat /\ serverId \in Nat /\ clServerId \in Nat
        /\ serverMessageSequence < outgoingSequence /\ snapNum <= serverMessageSequence
        /\ clServerId = serverId
    BY <1>1, <1>2, Numbers DEF OrderInv, GameStateInv
  <1>4. outgoingSequence - n < PACKET_BACKUP
    BY <1>2, <1>3
  <1>5. Held(n)
    BY <1>1, <1>2 DEF HeldInv
  <1>6. n < outgoingSequence /\ snapNum - n < PACKET_BACKUP
    BY <1>3, <1>4, <1>5 DEF Held
  <1>7. snap.valid /\ snap.messageNum = n /\ snap.map = clServerId
    BY <1>5, <1>6 DEF Held
  <1>8. Slot(n) \in DOMAIN snapshots
    BY <1>1, <1>3, Slots
  <1>9. FrameHolds(n, snap.built)
    BY <1>1, <1>3, <1>7, <1>8 DEF FrameInv
  <1>10. old = frames[Slot(n)]
    <2>1. outgoingSequence < n + PACKET_BACKUP
      BY <1>3, <1>4
    <2>2. Slot(n) # Slot(outgoingSequence)
      BY <1>3, <1>6, <2>1, SlotsDiffer
    <2>3. QED
      BY <1>3, <2>2
  <1>11. /\ this \in Nat /\ Cardinality(scene) \in Nat /\ size \in Nat \ {0}
         /\ snapshotEntities \in Ring(size) /\ old.first \in Nat /\ old.num \in Nat
    BY <1>1, <1>3, <1>10, Numbers, SomeFinite, FramesAre, SlotRange
  <1>12. old.first > this - size /\ old.first >= this + Cardinality(scene) - size
    BY <1>2, <1>11
  <1>13. old.first + old.num <= this /\ Window(snapshotEntities, old.first, old.num) = snap.built
    <2>1. outgoingSequence - n <= PACKET_BACKUP
      BY <1>3, <1>4
    <2>2. QED
      BY <1>9, <1>10, <1>12, <2>1 DEF FrameHolds
  <1> HIDE DEF old, this, size, snap
  <1>14. Window(Stored(snapshotEntities, this, scene), old.first, old.num) = snap.built
    BY <1>11, <1>12, <1>13, StoredKeepsWindow
  <1>15. QED
    BY <1>4, <1>5, <1>7, <1>8, <1>14 DEF old, this, snap

LEMMA SnapshotSentInv ==
  ASSUME IInv, NEW scene \in Scene, SV_SendClientSnapshot(scene)
  PROVE  IInv'
  <1> DEFINE next == nextSnapshotEntities + Cardinality(scene)
             ring == Stored(snapshotEntities, nextSnapshotEntities, scene)
             frame == [first |-> nextSnapshotEntities, num |-> Cardinality(scene)]
             frs == [frames EXCEPT ![Slot(outgoingSequence)] = frame]
             old == frs[Slot(deltaMessage)]
             base == IF MayDelta(frs, next) THEN Window(ring, old.first, old.num) ELSE {}
             msg == [type     |-> "snapshot",
                     sequence |-> outgoingSequence,
                     deltaNum |-> IF MayDelta(frs, next) THEN deltaMessage ELSE -1,
                     active   |-> state = "active",
                     delta    |-> Delta(base, scene, Baseline[serverId]),
                     built    |-> scene,
                     map      |-> serverId]
  <1>1. /\ next <= MaxEntitiesStored[serverId]
        /\ frames' = frs /\ snapshotEntities' = ring /\ nextSnapshotEntities' = next
        /\ outgoingSequence <= MaxSequence
        /\ outgoingSequence' = outgoingSequence + 1
        /\ down' = InFlight(down, msg, MaxDown)
        /\ UNCHANGED <<serverId, state, deltaMessage, gamestateMessageNum,
                       clServerId, serverMessageSequence, snapNum, snapshots,
                       parseEntities, parseEntitiesNum, up>>
    BY DEF SV_SendClientSnapshot, Send, clVars
  <1>2. /\ TypeOK /\ NetsOK /\ OrderInv /\ GameStateInv /\ ActiveInv /\ SnapshotInv
        /\ HeldInv /\ DeltaInv /\ FrameInv /\ ParsedInv
    BY DEF IInv
  <1>3. /\ serverId \in Nat /\ serverId \in Map /\ clServerId \in Nat
        /\ outgoingSequence \in Nat /\ serverMessageSequence \in Nat /\ snapNum \in Nat
        /\ serverMessageSequence < outgoingSequence /\ snapNum <= serverMessageSequence
        /\ deltaMessage \in Int /\ nextSnapshotEntities \in Nat
        /\ NumSnapshotEntities \in Nat \ {0} /\ snapshotEntities \in Ring(NumSnapshotEntities)
    BY <1>2, Numbers DEF OrderInv
  <1>4. /\ scene \in SUBSET EntityState /\ scene \in SUBSET AnyState /\ Distinct(scene)
        /\ Cardinality(scene) \in Nat /\ Cardinality(scene) <= Cardinality(Entity)
        /\ Cardinality(scene) <= NumSnapshotEntities
    BY ScenesAre
  <1>5. /\ frs[Slot(outgoingSequence)] = frame
        /\ \A n \in Int : Slot(n) # Slot(outgoingSequence) => frs[Slot(n)] = frames[Slot(n)]
        /\ frs \in [0 .. PACKET_BACKUP - 1 -> Frames]
    <2>1. frame \in Frames /\ frames \in [0 .. PACKET_BACKUP - 1 -> Frames]
      <3>1. Cardinality(scene) \in 0 .. Cardinality(Entity)
        BY <1>4, FS_CardinalityType
      <3>2. QED
        BY <1>2, <1>3, <3>1 DEF Frames, TypeOK
    <2> HIDE DEF frame
    <2>2. Slot(outgoingSequence) \in 0 .. PACKET_BACKUP - 1
      BY <1>3, SlotRange
    <2>3. /\ frs[Slot(outgoingSequence)] = frame
          /\ frs \in [0 .. PACKET_BACKUP - 1 -> Frames]
      BY <2>1, <2>2
    <2>4. ASSUME NEW n \in Int, Slot(n) # Slot(outgoingSequence)
          PROVE  frs[Slot(n)] = frames[Slot(n)]
      <3>1. Slot(n) \in 0 .. PACKET_BACKUP - 1
        BY SlotRange
      <3>2. QED
        BY <2>1, <2>4, <3>1
    <2>5. QED
      BY <2>3, <2>4
  <1>6. frame.first = nextSnapshotEntities /\ frame.num = Cardinality(scene)
    OBVIOUS
  <1> HIDE DEF frame, frs
  <1>7. MayDelta(frs, next) =>
          /\ Held(deltaMessage) /\ outgoingSequence - deltaMessage < PACKET_BACKUP
          /\ Slot(deltaMessage) \in DOMAIN snapshots
          /\ snapshots[Slot(deltaMessage)].valid
          /\ base = snapshots[Slot(deltaMessage)].built
    BY <1>4, <1>5, BaseIsBuilt
  <1>8. base \in SUBSET EntityState
    <2>1. CASE MayDelta(frs, next)
      BY <1>2, <1>7, <2>1, Slots, SnapshotsAre DEF TypeOK
    <2>2. CASE ~MayDelta(frs, next)
      BY <2>2
    <2>3. QED
      BY <2>1, <2>2
  <1> HIDE DEF base
  <1>9. Delta(base, scene, Baseline[serverId]) \in SUBSET Change
    BY <1>4, <1>8, DeltaIs
  <1>10. /\ msg.type = "snapshot" /\ msg.sequence = outgoingSequence /\ msg.map = serverId
         /\ msg.active = (state = "active") /\ msg.built = scene
         /\ msg.delta = Delta(base, scene, Baseline[serverId])
         /\ msg.deltaNum = IF MayDelta(frs, next) THEN deltaMessage ELSE -1
    OBVIOUS
  <1>11. msg \in DownMessage
    <2>1. msg.deltaNum \in Int
      BY <1>3
    <2>2. msg \in SnapshotMessages
      BY <1>3, <1>4, <1>9, <2>1 DEF SnapshotMessages, Change
    <2>3. QED
      BY <2>2 DEF DownMessage
  <1> HIDE DEF msg
  <1>12. IsSnapshot(msg) /\ ~IsGameState(msg)
    BY <1>10 DEF IsSnapshot, IsGameState
  <1>13. PICK d \in {0, 1} : Moved(down', down, d, {msg})
    BY <1>1, <1>2, <1>11, DownMoves
  <1>14. down' \in Seq(DownMessage)
    BY <1>1, <1>2, <1>11, DownMoves
  <1>15. /\ DOMAIN down \subseteq Nat /\ DOMAIN down' \subseteq Nat
         /\ \A i \in DOMAIN down' : \/ i + d \in DOMAIN down /\ down'[i] = down[i + d]
                                    \/ down'[i] = msg /\ \A j \in DOMAIN down' : j <= i
    BY <1>13 DEF Moved
  <1>16. MayDelta(frs, next) => deltaMessage > 0 /\ state = "active"
    BY DEF MayDelta
  <1>17. TypeOK'
    <2>1. outgoingSequence' \in 1 .. MaxSequence + 1
      BY <1>1, <1>3
    <2>2. nextSnapshotEntities' \in 0 .. MaxEntitiesStored[serverId]
      BY <1>1, <1>3, <1>4
    <2>3. snapshotEntities' \in [0 .. NumSnapshotEntities - 1 -> EntityState \cup {NoEntity}]
      BY <1>1, <1>3, <1>4, StoredRing DEF Ring, AnyState
    <2>4. QED
      BY <1>1, <1>2, <1>5, <2>1, <2>2, <2>3 DEF TypeOK
  <1>18. NetsOK'
    BY <1>1, <1>2, <1>14 DEF NetsOK, DownMessage
  <1>19. OrderInv'
    <2>1. gamestateMessageNum' < outgoingSequence' /\ serverMessageSequence' < outgoingSequence'
      BY <1>1, <1>2, <1>3, Numbers DEF OrderInv
    <2>2. \A i \in DOMAIN down' :
            /\ down'[i].sequence \in serverMessageSequence' + 1 .. outgoingSequence' - 1
            /\ down'[i].map \in clServerId' .. serverId'
            /\ \A j \in DOMAIN down' : i < j => /\ down'[i].sequence < down'[j].sequence
                                              /\ down'[i].map <= down'[j].map
      BY <1>1, <1>2, <1>10, <1>11, DownOrderSent
    <2>3. QED
      BY <1>1, <1>2, <2>1, <2>2 DEF OrderInv
  <1>20. GameStateInv'
    <2>1. ASSUME NEW i \in DOMAIN down', IsGameState(down'[i])
          PROVE  /\ down'[i].sequence <= gamestateMessageNum
                 /\ clServerId # serverId
                 /\ \A j \in DOMAIN down' : i # j => ~IsGameState(down'[j])
      <3>1. i + d \in DOMAIN down /\ down'[i] = down[i + d]
        BY <1>12, <1>15, <2>1
      <3>2. ASSUME NEW j \in DOMAIN down', i # j
            PROVE  ~IsGameState(down'[j])
        <4>1. CASE j + d \in DOMAIN down /\ down'[j] = down[j + d]
          <5>1. i + d # j + d
            BY <1>15, <3>2
          <5>2. QED
            BY <1>2, <2>1, <3>1, <4>1, <5>1 DEF GameStateInv
        <4>2. QED
          BY <1>12, <1>15, <4>1
      <3>3. QED
        BY <1>2, <2>1, <3>1, <3>2 DEF GameStateInv
    <2>2. QED
      BY <1>1, <1>2, <2>1 DEF GameStateInv, IsGameState
  <1>21. ActiveInv'
    <2>1. ASSUME NEW i \in DOMAIN down', IsSnapshot(down'[i])
          PROVE  /\ down'[i].deltaNum > 0 => down'[i].active
                 /\ down'[i].active =>
                      /\ down'[i].map = clServerId
                      /\ \A j \in DOMAIN down' : j < i => ~IsGameState(down'[j])
      <3>1. CASE i + d \in DOMAIN down /\ down'[i] = down[i + d]
        <4>1. ASSUME NEW j \in DOMAIN down', j < i, down'[i].active
              PROVE  ~IsGameState(down'[j])
          <5>1. \/ j + d \in DOMAIN down /\ down'[j] = down[j + d]
                \/ down'[j] = msg
            BY <1>15
          <5>2. j + d < i + d
            BY <1>15, <4>1
          <5>3. QED
            BY <1>2, <1>12, <2>1, <3>1, <4>1, <5>1, <5>2 DEF ActiveInv
        <4>2. QED
          BY <1>2, <2>1, <3>1, <4>1 DEF ActiveInv
      <3>2. CASE down'[i] = msg
        <4>1. msg.deltaNum > 0 => msg.active
          <5>1. CASE MayDelta(frs, next)
            BY <1>10, <1>16, <5>1
          <5>2. CASE ~MayDelta(frs, next)
            BY <1>10, <5>2
          <5>3. QED
            BY <5>1, <5>2
        <4>2. ASSUME msg.active
              PROVE  /\ msg.map = clServerId
                     /\ \A j \in DOMAIN down' : ~IsGameState(down'[j])
          <5>1. clServerId = serverId /\ \A j \in DOMAIN down : ~IsGameState(down[j])
            BY <1>2, <1>10, <4>2 DEF GameStateInv
          <5>2. QED
            BY <1>10, <1>12, <1>15, <5>1
        <4>3. QED
          BY <3>2, <4>1, <4>2
      <3>3. QED
        BY <1>15, <3>1, <3>2
    <2>2. QED
      BY <1>1, <2>1 DEF ActiveInv, IsSnapshot, IsGameState
  <1>22. SnapshotInv' /\ ParsedInv'
    BY <1>1, <1>2 DEF SnapshotInv, ParsedInv, EntitiesIn
  <1>23. HeldInv'
    <2>1. state' = "active" /\ deltaMessage' > 0 => Held(deltaMessage)'
      BY <1>1, <1>2 DEF HeldInv, Held
    <2>2. ASSUME NEW i \in DOMAIN up, up[i].id = serverId, up[i].move = "delta"
          PROVE  Held(up[i].ack)'
      BY <1>1, <1>2, <2>2 DEF HeldInv, Held
    <2>3. ASSUME NEW i \in DOMAIN down', IsSnapshot(down'[i]), down'[i].deltaNum > 0
          PROVE  /\ Held(down[i].deltaNum)'
                 /\ down'[i].sequence - down'[i].deltaNum < PACKET_BACKUP
      <3>1. PICK n : n = down'[i].deltaNum
        OBVIOUS
      <3>2. Held(n) /\ down'[i].sequence - n < PACKET_BACKUP
        <4>1. CASE i + d \in DOMAIN down /\ down'[i] = down[i + d]
          BY <1>2, <2>3, <3>1, <4>1 DEF HeldInv
        <4>2. CASE down'[i] = msg
          BY <1>7, <1>10, <2>3, <3>1, <4>2
        <4>3. QED
          BY <1>15, <4>1, <4>2
      <3>3. Held(n)'
        BY <1>1, <3>2, SameHeld
      <3>4. QED
        BY <3>1, <3>2, <3>3
    <2>4. QED
      BY <1>1, <2>1, <2>2, <2>3 DEF HeldInv, IsSnapshot
  <1>24. DeltaInv'
    <2>1. ASSUME NEW i \in DOMAIN down', IsSnapshot(down'[i])
          PROVE  LET m == down'[i]
                     b == IF m.deltaNum > 0 THEN snapshots[Slot(m.deltaNum)].built ELSE {}
                 IN  m.built \in Scene /\ m.delta = Delta(b, m.built, Baseline[m.map])
      <3>1. CASE i + d \in DOMAIN down /\ down'[i] = down[i + d]
        BY <1>2, <2>1, <3>1 DEF DeltaInv
      <3>2. CASE down'[i] = msg
        <4>1. base = IF msg.deltaNum > 0 THEN snapshots[Slot(msg.deltaNum)].built ELSE {}
          BY <1>7, <1>10, <1>16 DEF base
        <4>2. QED
          BY <1>4, <1>10, <3>2, <4>1
      <3>3. QED
        BY <1>15, <3>1, <3>2
    <2>2. QED
      BY <1>1, <2>1 DEF DeltaInv, IsSnapshot
  <1>25. FrameInv'
    <2>1. outgoingSequence' \in Nat /\ outgoingSequence <= outgoingSequence'
      BY <1>1, <1>3
    <2>2. ASSUME NEW n \in Int, NEW ents, n < outgoingSequence, FrameHolds(n, ents)
          PROVE  FrameHolds(n, ents)'
      <3>1. ASSUME outgoingSequence' - n <= PACKET_BACKUP
            PROVE  frames'[Slot(n)] = frames[Slot(n)]
        <4>1. outgoingSequence < n + PACKET_BACKUP
          BY <1>1, <1>3, <3>1
        <4>2. Slot(n) # Slot(outgoingSequence)
          BY <1>3, <2>2, <4>1, SlotsDiffer
        <4>3. QED
          BY <1>1, <1>5, <4>2
      <3>2. QED
        BY <1>1, <1>2, <1>4, <2>1, <2>2, <3>1, FrameKept
    <2>3. PICK m : m = msg
      OBVIOUS
    <2>4. FrameHolds(m.sequence, m.built)'
      <3>1. PICK n, ents : n = outgoingSequence /\ ents = scene
        OBVIOUS
      <3>2. frames'[Slot(n)] = frame
        BY <1>1, <1>5, <3>1
      <3>3. Window(snapshotEntities', frame.first, frame.num) = scene
        BY <1>1, <1>3, <1>4, <1>6, StoredHolds
      <3>4. frame.first + frame.num <= nextSnapshotEntities'
        BY <1>1, <1>3, <1>4, <1>6
      <3>5. FrameHolds(n, ents)'
        BY <3>1, <3>2, <3>3, <3>4 DEF FrameHolds
      <3>6. n = m.sequence /\ ents = m.built
        BY <1>10, <2>3, <3>1
      <3>7. QED
        BY <3>5, <3>6, Zenon
    <2>5. Moved(down', down, d, {m})
      BY <1>13, <2>3
    <2>6. QED
      BY <1>1, <1>2, <1>14, <2>2, <2>4, <2>5, FrameInvKept DEF FrameInv
  <1>26. QED
    BY <1>17, <1>18, <1>19, <1>20, <1>21, <1>22, <1>23, <1>24, <1>25 DEF IInv
-----------------------------------------------------------------------------
(* A message of the server arrives.                                        *)

LEMMA DownOrderReceived ==
  ASSUME TypeOK, NetsOK, OrderInv, NEW k \in DOMAIN down,
         down' = SubSeq(down, k + 1, Len(down)),
         serverMessageSequence' = down[k].sequence,
         UNCHANGED <<svVars, up>>
  PROVE  /\ serverMessageSequence' \in 0 .. MaxSequence
         /\ serverMessageSequence' \in Nat /\ serverMessageSequence' < outgoingSequence
         /\ serverMessageSequence < serverMessageSequence'
         /\ down[k].map \in Map /\ down[k].map \in clServerId .. serverId
         /\ \A i \in DOMAIN down' :
              /\ down'[i].sequence \in serverMessageSequence' + 1 .. outgoingSequence' - 1
              /\ down'[i].map \in down[k].map .. serverId'
              /\ \A j \in DOMAIN down' : i < j => /\ down'[i].sequence < down'[j].sequence
                                                /\ down'[i].map <= down'[j].map
         /\ \A i \in DOMAIN up' :
              /\ up'[i].ack <= serverMessageSequence'
              /\ \A j \in DOMAIN up' : i < j => up'[i].ack <= up'[j].ack
  <1>1. /\ serverId \in Nat /\ clServerId \in Nat /\ outgoingSequence \in Nat
        /\ outgoingSequence <= MaxSequence + 1 /\ serverMessageSequence \in Nat
    BY Numbers
  <1>2. UNCHANGED <<serverId, outgoingSequence, up>>
    BY DEF svVars
  <1>3. down \in Seq(DownMessage) /\ up \in Seq(ClientMessages)
    BY DEF NetsOK, DownMessage
  <1>4. /\ DOMAIN down \subseteq Nat
        /\ \A i \in DOMAIN down : down[i].sequence \in Nat /\ down[i].map \in Map
    BY <1>3, DownAre
  <1>5. Map \subseteq Nat
    BY DEF Map
  <1>6. ASSUME NEW i \in DOMAIN down, NEW j \in DOMAIN down
        PROVE  /\ down[i].sequence \in serverMessageSequence + 1 .. outgoingSequence - 1
               /\ down[i].map \in clServerId .. serverId
               /\ i < j => down[i].sequence < down[j].sequence /\ down[i].map <= down[j].map
    BY DEF OrderInv
  <1>7. /\ serverMessageSequence' \in 0 .. MaxSequence
        /\ serverMessageSequence' \in Nat /\ serverMessageSequence' < outgoingSequence
        /\ serverMessageSequence < serverMessageSequence'
        /\ down[k].map \in Map /\ down[k].map \in clServerId .. serverId
    <2>1. PICK n : n = down[k].sequence
      OBVIOUS
    <2>2. n \in serverMessageSequence + 1 .. outgoingSequence - 1
      BY <1>6, <2>1
    <2>3. n \in 0 .. MaxSequence /\ n \in Nat /\ n < outgoingSequence /\ serverMessageSequence < n
      BY <1>1, <2>2, BoundAssumption
    <2>4. down[k].map \in Map /\ down[k].map \in clServerId .. serverId
      BY <1>4, <1>6
    <2>5. QED
      BY <2>1, <2>3, <2>4
  <1>8. \A i \in DOMAIN down' : /\ i \in Nat /\ i > 0
                                /\ i + k \in DOMAIN down /\ down'[i] = down[i + k]
    BY DownReceived
  <1>9. ASSUME NEW i \in DOMAIN down'
        PROVE  /\ down'[i].sequence \in serverMessageSequence' + 1 .. outgoingSequence - 1
               /\ down'[i].map \in down[k].map .. serverId
    <2>1. PICK n \in DOMAIN down : down'[i] = down[n] /\ k < n
      <3>1. i + k \in DOMAIN down /\ down'[i] = down[i + k]
        BY <1>8
      <3>2. k < i + k
        BY <1>4, <1>8
      <3>3. QED
        BY <3>1, <3>2
    <2>2. /\ down[n].sequence \in Nat /\ down[n].map \in Nat
          /\ down[k].sequence \in Nat /\ down[k].map \in Nat
      BY <1>4, <1>5
    <2>3. /\ down[k].sequence < down[n].sequence /\ down[k].map <= down[n].map
          /\ down[n].sequence <= outgoingSequence - 1 /\ down[n].map <= serverId
      <3>1. /\ down[n].sequence \in serverMessageSequence + 1 .. outgoingSequence - 1
            /\ down[n].map \in clServerId .. serverId
        BY <1>6
      <3>2. down[k].sequence < down[n].sequence /\ down[k].map <= down[n].map
        BY <1>6, <2>1
      <3>3. QED
        BY <1>1, <3>1, <3>2
    <2>4. down[n].sequence \in down[k].sequence + 1 .. outgoingSequence - 1
      <3>1. PICK x, y : x = down[n].sequence /\ y = down[k].sequence
        OBVIOUS
      <3>2. x \in Nat /\ y \in Nat /\ y < x /\ x <= outgoingSequence - 1
        BY <2>2, <2>3, <3>1
      <3>3. x \in y + 1 .. outgoingSequence - 1
        BY <1>1, <3>2
      <3>4. QED
        BY <3>1, <3>3
    <2>5. down[n].map \in down[k].map .. serverId
      BY <1>1, <2>2, <2>3
    <2>6. QED
      BY <2>1, <2>4, <2>5
  <1>10. ASSUME NEW i \in DOMAIN down', NEW j \in DOMAIN down', i < j
         PROVE  down'[i].sequence < down'[j].sequence /\ down'[i].map <= down'[j].map
    <2>1. i + k \in DOMAIN down /\ down'[i] = down[i + k]
      BY <1>8
    <2>2. j + k \in DOMAIN down /\ down'[j] = down[j + k]
      BY <1>8
    <2>3. i + k < j + k
      BY <1>4, <1>8, <1>10
    <2>4. QED
      BY <1>6, <2>1, <2>2, <2>3
  <1>11. \A i \in DOMAIN up :
           /\ up[i].ack <= serverMessageSequence'
           /\ \A j \in DOMAIN up : i < j => up[i].ack <= up[j].ack
    <2>1. \A i \in DOMAIN up : up[i].ack \in Nat /\ up[i].ack <= serverMessageSequence
      BY <1>3, UpAre DEF OrderInv
    <2>2. \A i \in DOMAIN up : up[i].ack <= serverMessageSequence'
      BY <1>1, <1>7, <2>1, SMTT(20)
    <2>3. \A i, j \in DOMAIN up : i < j => up[i].ack <= up[j].ack
      BY DEF OrderInv
    <2>4. QED
      BY <2>2, <2>3
  <1>12. QED
    BY <1>2, <1>7, <1>9, <1>10, <1>11

\* The map changes: nothing the client asked for or the server sent before
\* concerns the snapshots it now forgets.
LEMMA ParseGamestateInv ==
  ASSUME IInv, NEW k \in DOMAIN down,
         down' = SubSeq(down, k + 1, Len(down)),
         serverMessageSequence' = down[k].sequence,
         CL_ParseGamestate(down[k]), UNCHANGED <<svVars, up>>
  PROVE  IInv'
  <1> DEFINE msg == down[k]
  <1>1. /\ IsGameState(msg) /\ clServerId' = msg.map /\ snapNum' = 0
        /\ snapshots' = [i \in 0 .. PACKET_BACKUP - 1 |-> NoSnapshot]
        /\ parseEntities' = EmptyRing(MAX_PARSE_ENTITIES) /\ parseEntitiesNum' = 0
        /\ UNCHANGED <<serverId, state, outgoingSequence, deltaMessage, gamestateMessageNum,
                       frames, snapshotEntities, nextSnapshotEntities, up>>
    BY DEF CL_ParseGamestate, IsGameState, svVars
  <1>2. /\ TypeOK /\ NetsOK /\ OrderInv /\ GameStateInv /\ ActiveInv /\ SnapshotInv
        /\ HeldInv /\ DeltaInv /\ FrameInv /\ ParsedInv
    BY DEF IInv
  <1>3. /\ serverId \in Nat /\ clServerId \in Nat /\ outgoingSequence \in Nat
        /\ serverMessageSequence \in Nat /\ gamestateMessageNum \in Int
        /\ clServerId <= serverId
    BY <1>2, Numbers DEF OrderInv
  <1>4. /\ serverMessageSequence' \in 0 .. MaxSequence
        /\ serverMessageSequence' \in Nat /\ serverMessageSequence' < outgoingSequence
        /\ serverMessageSequence < serverMessageSequence'
        /\ msg.map \in Map /\ msg.map \in clServerId .. serverId
        /\ \A i \in DOMAIN down' :
             /\ down'[i].sequence \in serverMessageSequence' + 1 .. outgoingSequence' - 1
             /\ down'[i].map \in msg.map .. serverId'
             /\ \A j \in DOMAIN down' : i < j => /\ down'[i].sequence < down'[j].sequence
                                               /\ down'[i].map <= down'[j].map
        /\ \A i \in DOMAIN up' :
             /\ up'[i].ack <= serverMessageSequence'
             /\ \A j \in DOMAIN up' : i < j => up'[i].ack <= up'[j].ack
    BY <1>2, DownOrderReceived
  <1>5. /\ down' \in Seq(DownMessage) /\ k \in Nat /\ Moved(down', down, k, {})
        /\ \A i \in DOMAIN down' : /\ i \in Nat /\ i > 0
                                   /\ i + k \in DOMAIN down /\ down'[i] = down[i + k]
    BY <1>2, DownReceived
  <1>6. /\ msg.sequence <= gamestateMessageNum /\ clServerId # serverId
        /\ state # "active"
        /\ \A j \in DOMAIN down : k # j => ~IsGameState(down[j])
    BY <1>1, <1>2 DEF GameStateInv
  <1>7. /\ serverMessageSequence < gamestateMessageNum
        /\ \A i \in DOMAIN up : /\ up[i].ack \in Nat /\ up[i].ack <= serverMessageSequence
                                /\ up[i].id \in Nat /\ up[i].id <= clServerId
    <2>1. msg.sequence = serverMessageSequence'
      OBVIOUS
    <2>2. serverMessageSequence < gamestateMessageNum
      BY <1>3, <1>4, <1>6, <2>1
    <2>3. \A i \in DOMAIN up : up[i].ack \in Nat /\ up[i].id \in Nat
      <3>1. up \in Seq(ClientMessages) /\ Map \cup {NoMap} \subseteq Nat
        BY <1>2 DEF NetsOK, Map, NoMap
      <3>2. QED
        BY <3>1, UpAre
    <2>4. QED
      BY <1>2, <2>2, <2>3 DEF OrderInv
  <1> HIDE DEF msg
  <1>8. \A i \in DOMAIN down' : ~IsGameState(down'[i])
    <2> SUFFICES ASSUME NEW i \in DOMAIN down' PROVE ~IsGameState(down'[i])
      OBVIOUS
    <2>1. i + k # k /\ i + k \in DOMAIN down /\ down'[i] = down[i + k]
      BY <1>5, SMTT(20)
    <2>2. QED
      BY <1>6, <2>1
  <1>9. ASSUME NEW i \in DOMAIN down', IsSnapshot(down'[i])
        PROVE  ~down'[i].active /\ ~(down'[i].deltaNum > 0)
    <2>1. k < i + k /\ i + k \in DOMAIN down /\ down'[i] = down[i + k]
      BY <1>5, SMTT(20)
    <2>2. ~down[i + k].active /\ (down[i + k].deltaNum > 0 => down[i + k].active)
      BY <1>1, <1>2, <1>9, <2>1 DEF ActiveInv, msg
    <2>3. QED
      BY <2>1, <2>2
  <1>10. \A i \in DOMAIN snapshots' : ~snapshots'[i].valid
    BY <1>1 DEF NoSnapshot
  <1>11. TypeOK'
    <2>1. snapshots' \in [0 .. PACKET_BACKUP - 1 -> Snapshots]
      <3>1. Cardinality(Entity) \in Nat
        BY FS_CardinalityType
      <3>2. NoSnapshot \in Snapshots
        BY <3>1 DEF NoSnapshot, Snapshots, NoMap
      <3>3. QED
        BY <1>1, <3>2
    <2>2. parseEntities' \in [0 .. MAX_PARSE_ENTITIES - 1 -> EntityState \cup {NoEntity}]
      BY <1>1, EmptyRings
    <2>3. /\ serverMessageSequence' \in 0 .. MaxSequence /\ snapNum' \in 0 .. MaxSequence
          /\ parseEntitiesNum' \in Nat /\ clServerId' \in Map \cup {NoMap}
      BY <1>1, <1>4
    <2>4. QED
      BY <1>1, <1>2, <2>1, <2>2, <2>3 DEF TypeOK
  <1>12. NetsOK'
    BY <1>1, <1>2, <1>5 DEF NetsOK, DownMessage
  <1>13. OrderInv'
    <2>1. snapNum' <= serverMessageSequence' /\ clServerId' <= serverId'
      BY <1>1, <1>3, <1>4
    <2>2. \A i \in DOMAIN up' : up'[i].id <= clServerId'
      BY <1>1, <1>3, <1>4, <1>7
    <2>3. QED
      BY <1>1, <1>2, <1>4, <2>1, <2>2 DEF OrderInv
  <1>14. GameStateInv'
    <2>1. \A i \in DOMAIN up : ~(up[i].ack > gamestateMessageNum)
      BY <1>3, <1>7
    <2>2. QED
      BY <1>1, <1>6, <1>8, <2>1 DEF GameStateInv, IsGameState
  <1>15. ActiveInv'
    BY <1>9 DEF ActiveInv, IsSnapshot
  <1>16. SnapshotInv' /\ ParsedInv'
    <2>1. ~(snapNum' > 0)
      BY <1>1
    <2>2. SnapshotInv'
      BY <1>10, <2>1 DEF SnapshotInv
    <2>3. ParsedInv'
      BY <1>10 DEF ParsedInv
    <2>4. QED
      BY <2>2, <2>3
  <1>17. HeldInv'
    <2>1. \A i \in DOMAIN up : up[i].id # serverId
      BY <1>3, <1>6, <1>7
    <2>2. QED
      BY <1>1, <1>6, <1>9, <2>1 DEF HeldInv, IsSnapshot
  <1>18. DeltaInv'
    <2>1. ASSUME NEW i \in DOMAIN down', IsSnapshot(down'[i])
          PROVE  LET m == down'[i]
                     b == IF m.deltaNum > 0 THEN snapshots'[Slot(m.deltaNum)].built ELSE {}
                 IN  m.built \in Scene /\ m.delta = Delta(b, m.built, Baseline[m.map])
      <3>1. PICK n \in DOMAIN down : down'[i] = down[n]
        BY <1>5
      <3>2. IsSnapshot(down[n]) /\ ~(down[n].deltaNum > 0)
        BY <1>9, <2>1, <3>1
      <3>3. /\ down[n].built \in Scene
            /\ down[n].delta = Delta({}, down[n].built, Baseline[down[n].map])
        BY <1>2, <3>2 DEF DeltaInv
      <3>4. QED
        BY <3>1, <3>2, <3>3
    <2>2. QED
      BY <2>1 DEF DeltaInv, IsSnapshot
  <1>19. FrameInv'
    <2>1. outgoingSequence' \in Nat /\ outgoingSequence <= outgoingSequence'
      BY <1>1, <1>3
    <2>2. ASSUME NEW n \in Int, NEW ents, FrameHolds(n, ents)
          PROVE  FrameHolds(n, ents)'
      BY <1>1, <1>2, <2>1, <2>2, FrameStays
    <2>3. QED
      <3>1. \A i \in DOMAIN down' : IsSnapshot(down'[i]) /\ down'[i].map = serverId' =>
              FrameHolds(down[i].sequence, down[i].built)'
        <4> DEFINE none == {}
        <4>1. Moved(down', down, k, none) /\ down' \in Seq(DownMessage)
          BY <1>5
        <4>2. serverId' = serverId /\ \A m \in none : IsSnapshot(m) /\ m.map = serverId =>
                FrameHolds(m.sequence, m.built)'
          BY <1>1
        <4>3. \A n \in Int : \A ents : n < outgoingSequence /\ FrameHolds(n, ents) =>
                FrameHolds(n, ents)'
          BY <2>2
        <4> HIDE DEF none
        <4>4. QED
          BY <1>2, <4>1, <4>2, <4>3, FrameInvKept
      <3>2. QED
        BY <1>10, <3>1 DEF FrameInv, IsSnapshot
  <1>20. QED
    BY <1>11, <1>12, <1>13, <1>14, <1>15, <1>16, <1>17, <1>18, <1>19 DEF IInv

\* What a snapshot leaves as it was, kept or not.
LEMMA SnapshotReceived ==
  ASSUME IInv, NEW k \in DOMAIN down,
         down' = SubSeq(down, k + 1, Len(down)),
         serverMessageSequence' = down[k].sequence,
         clServerId' = clServerId, snapNum' \in Nat, snapNum' <= serverMessageSequence',
         UNCHANGED <<svVars, up>>
  PROVE  NetsOK' /\ OrderInv' /\ GameStateInv' /\ ActiveInv'
  <1>1. UNCHANGED <<serverId, state, outgoingSequence, deltaMessage, gamestateMessageNum,
                    frames, snapshotEntities, nextSnapshotEntities, up>>
    BY DEF svVars
  <1>2. TypeOK /\ NetsOK /\ OrderInv /\ GameStateInv /\ ActiveInv
    BY DEF IInv
  <1>3. /\ serverId \in Nat /\ clServerId \in Nat /\ clServerId <= serverId
        /\ outgoingSequence \in Nat
    BY <1>2, Numbers DEF OrderInv
  <1>4. /\ serverMessageSequence' < outgoingSequence
        /\ down[k].map \in Map /\ down[k].map \in clServerId .. serverId
        /\ \A i \in DOMAIN down' :
             /\ down'[i].sequence \in serverMessageSequence' + 1 .. outgoingSequence' - 1
             /\ down'[i].map \in down[k].map .. serverId'
             /\ \A j \in DOMAIN down' : i < j => /\ down'[i].sequence < down'[j].sequence
                                               /\ down'[i].map <= down'[j].map
        /\ \A i \in DOMAIN up' :
             /\ up'[i].ack <= serverMessageSequence'
             /\ \A j \in DOMAIN up' : i < j => up'[i].ack <= up'[j].ack
    BY <1>2, DownOrderReceived
  <1>5. /\ down' \in Seq(DownMessage) /\ k \in Nat
        /\ \A i \in DOMAIN down' : /\ i \in Nat /\ i > 0
                                   /\ i + k \in DOMAIN down /\ down'[i] = down[i + k]
    BY <1>2, DownReceived
  <1>6. NetsOK'
    BY <1>1, <1>2, <1>5 DEF NetsOK, DownMessage
  <1>7. OrderInv'
    <2>1. down[k].map .. serverId \subseteq clServerId .. serverId
      BY <1>3, <1>4
    <2>2. \A i \in DOMAIN down' : down'[i].map \in clServerId' .. serverId'
      BY <1>1, <1>4, <2>1
    <2>3. \A i \in DOMAIN up' : up'[i].id <= clServerId'
      BY <1>1, <1>2 DEF OrderInv
    <2>4. QED
      BY <1>1, <1>2, <1>4, <2>2, <2>3 DEF OrderInv
  <1>8. GameStateInv'
    <2>1. ASSUME NEW i \in DOMAIN down', IsGameState(down'[i])
          PROVE  /\ down'[i].sequence <= gamestateMessageNum
                 /\ clServerId # serverId
                 /\ \A j \in DOMAIN down' : i # j => ~IsGameState(down'[j])
      <3>1. i + k \in DOMAIN down /\ down'[i] = down[i + k]
        BY <1>5
      <3>2. ASSUME NEW j \in DOMAIN down', i # j
            PROVE  ~IsGameState(down'[j])
        <4>1. j + k \in DOMAIN down /\ down'[j] = down[j + k]
          BY <1>5
        <4>2. i + k # j + k
          BY <1>5, <3>2, SMTT(20)
        <4>3. QED
          BY <1>2, <2>1, <3>1, <4>1, <4>2 DEF GameStateInv
      <3>3. QED
        BY <1>2, <2>1, <3>1, <3>2 DEF GameStateInv
    <2>2. QED
      BY <1>1, <1>2, <2>1 DEF GameStateInv, IsGameState
  <1>9. ActiveInv'
    <2>1. ASSUME NEW i \in DOMAIN down', IsSnapshot(down'[i])
          PROVE  /\ down'[i].deltaNum > 0 => down'[i].active
                 /\ down'[i].active =>
                      /\ down'[i].map = clServerId
                      /\ \A j \in DOMAIN down' : j < i => ~IsGameState(down'[j])
      <3>1. i + k \in DOMAIN down /\ down'[i] = down[i + k]
        BY <1>5
      <3>2. ASSUME NEW j \in DOMAIN down', j < i, down'[i].active
            PROVE  ~IsGameState(down'[j])
        <4>1. j + k \in DOMAIN down /\ down'[j] = down[j + k]
          BY <1>5
        <4>2. j + k < i + k
          BY <1>5, <3>2
        <4>3. QED
          BY <1>2, <2>1, <3>1, <3>2, <4>1, <4>2 DEF ActiveInv
      <3>3. QED
        BY <1>2, <2>1, <3>1, <3>2 DEF ActiveInv
    <2>2. QED
      BY <1>1, <2>1 DEF ActiveInv, IsSnapshot, IsGameState
  <1>10. QED
    BY <1>6, <1>7, <1>8, <1>9

\* A snapshot that is not kept disturbs none that is: what it leaves in the
\* ring is counted.
LEMMA DumpSnapshotInv ==
  ASSUME IInv, NEW k \in DOMAIN down,
         down' = SubSeq(down, k + 1, Len(down)),
         serverMessageSequence' = down[k].sequence,
         IsSnapshot(down[k]), CL_DumpSnapshot(down[k]),
         clServerId' = clServerId, UNCHANGED <<svVars, up>>
  PROVE  IInv'
  <1> DEFINE msg == down[k]
             snap == snapshots[Slot(msg.deltaNum)]
             ents == Patched(EntitiesIn(snap), msg.delta, Baseline[clServerId])
  <1>1. /\ parseEntities' = Stored(parseEntities, parseEntitiesNum, ents)
        /\ parseEntitiesNum' = parseEntitiesNum + Cardinality(ents)
        /\ UNCHANGED <<serverId, state, outgoingSequence, deltaMessage, gamestateMessageNum,
                       frames, snapshotEntities, nextSnapshotEntities, up,
                       clServerId, snapshots, snapNum>>
    BY DEF CL_DumpSnapshot, svVars
  <1>2. /\ TypeOK /\ NetsOK /\ OrderInv /\ GameStateInv /\ ActiveInv /\ SnapshotInv
        /\ HeldInv /\ DeltaInv /\ FrameInv /\ ParsedInv
    BY DEF IInv
  <1>3. /\ snapNum \in Nat /\ outgoingSequence \in Nat /\ serverMessageSequence \in Nat
        /\ snapNum <= serverMessageSequence /\ parseEntitiesNum \in Nat
        /\ MAX_PARSE_ENTITIES \in Nat \ {0} /\ parseEntities \in Ring(MAX_PARSE_ENTITIES)
        /\ Baseline[clServerId] \in [Entity -> Value]
    BY <1>2, Numbers DEF OrderInv
  <1>4. /\ serverMessageSequence' \in 0 .. MaxSequence /\ serverMessageSequence' \in Nat
        /\ serverMessageSequence < serverMessageSequence'
    BY <1>2, DownOrderReceived
  <1>5. /\ down' \in Seq(DownMessage) /\ Moved(down', down, k, {})
        /\ \A i \in DOMAIN down' : i + k \in DOMAIN down /\ down'[i] = down[i + k]
    BY <1>2, DownReceived
  <1>6. ents \in SUBSET AnyState /\ Cardinality(ents) \in Nat
    <2>1. msg.deltaNum \in Int /\ msg.delta \in SUBSET Change
      BY <1>2, DownAre DEF NetsOK, DownMessage
    <2>2. snap.first \in Nat /\ snap.num \in Nat
      <3>1. Slot(msg.deltaNum) \in 0 .. PACKET_BACKUP - 1
        BY <2>1, SlotRange
      <3>2. QED
        BY <1>2, <3>1, SnapshotsAre DEF TypeOK
    <2> HIDE DEF snap, msg
    <2>3. EntitiesIn(snap) \in SUBSET AnyState
      BY <1>3, <2>2, WindowStates DEF EntitiesIn
    <2>4. ents \in SUBSET AnyState
      BY <1>3, <2>1, <2>3, PatchedStates
    <2>5. QED
      BY <2>4, SomeFinite
  <1> HIDE DEF ents, msg
  <1>7. NetsOK' /\ OrderInv' /\ GameStateInv' /\ ActiveInv'
    <2>1. snapNum' \in Nat /\ snapNum' <= serverMessageSequence'
      BY <1>1, <1>3, <1>4
    <2>2. QED
      BY <2>1, SnapshotReceived
  <1>8. TypeOK'
    <2>1. parseEntities' \in [0 .. MAX_PARSE_ENTITIES - 1 -> EntityState \cup {NoEntity}]
      BY <1>1, <1>3, <1>6, StoredRing DEF Ring, AnyState
    <2>2. parseEntitiesNum' \in Nat
      BY <1>1, <1>3, <1>6
    <2>3. QED
      BY <1>1, <1>2, <1>4, <2>1, <2>2 DEF TypeOK
  <1>9. SnapshotInv'
    BY <1>1, <1>2 DEF SnapshotInv
  <1>10. HeldInv'
    <2>1. state' = "active" /\ deltaMessage' > 0 => Held(deltaMessage)'
      BY <1>1, <1>2 DEF HeldInv, Held
    <2>2. ASSUME NEW i \in DOMAIN up, up[i].id = serverId, up[i].move = "delta"
          PROVE  Held(up[i].ack)'
      BY <1>1, <1>2, <2>2 DEF HeldInv, Held
    <2>3. ASSUME NEW i \in DOMAIN down', IsSnapshot(down'[i]), down'[i].deltaNum > 0
          PROVE  /\ Held(down[i].deltaNum)'
                 /\ down'[i].sequence - down'[i].deltaNum < PACKET_BACKUP
      <3>1. PICK n : n = down'[i].deltaNum
        OBVIOUS
      <3>2. Held(n) /\ down'[i].sequence - n < PACKET_BACKUP
        BY <1>2, <1>5, <2>3, <3>1 DEF HeldInv
      <3>3. Held(n)'
        BY <1>1, <3>2, SameHeld
      <3>4. QED
        BY <3>1, <3>2, <3>3
    <2>4. QED
      BY <1>1, <2>1, <2>2, <2>3 DEF HeldInv, IsSnapshot
  <1>11. DeltaInv'
    <2>1. ASSUME NEW i \in DOMAIN down', IsSnapshot(down'[i])
          PROVE  LET m == down'[i]
                     b == IF m.deltaNum > 0 THEN snapshots[Slot(m.deltaNum)].built ELSE {}
                 IN  m.built \in Scene /\ m.delta = Delta(b, m.built, Baseline[m.map])
      BY <1>2, <1>5, <2>1 DEF DeltaInv
    <2>2. QED
      BY <1>1, <2>1 DEF DeltaInv, IsSnapshot
  <1>12. FrameInv'
    <2> DEFINE none == {}
    <2>1. Moved(down', down, k, none) /\ \A m \in none : IsSnapshot(m) /\ m.map = serverId =>
            FrameHolds(m.sequence, m.built)'
      BY <1>5
    <2> HIDE DEF none
    <2>2. outgoingSequence' \in Nat /\ outgoingSequence <= outgoingSequence'
      BY <1>1, <1>3
    <2>3. \A n \in Int : \A ents1 : n < outgoingSequence /\ FrameHolds(n, ents1) =>
            FrameHolds(n, ents1)'
      BY <1>1, <1>2, <2>2, FrameStays
    <2>4. QED
      BY <1>1, <1>2, <1>5, <2>1, <2>3, FrameInvKept DEF FrameInv
  <1>13. ParsedInv'
    <2>1. ASSUME NEW i \in DOMAIN snapshots, snapshots[i].valid
          PROVE  /\ snapshots[i].first + snapshots[i].num <= parseEntitiesNum'
                 /\ snapshots[i].map = clServerId
                      /\ parseEntitiesNum' - snapshots[i].first <= MAX_PARSE_ENTITIES =>
                    Window(parseEntities', snapshots[i].first, snapshots[i].num)
                      = snapshots[i].built
      <3>1. snapshots[i].first \in Nat /\ snapshots[i].num \in Nat
        BY <1>2, Slots, SnapshotsAre DEF TypeOK
      <3>2. /\ snapshots[i].first + snapshots[i].num <= parseEntitiesNum
            /\ snapshots[i].map = clServerId
                 /\ parseEntitiesNum - snapshots[i].first <= MAX_PARSE_ENTITIES =>
               Window(parseEntities, snapshots[i].first, snapshots[i].num) = snapshots[i].built
        BY <1>2, <2>1 DEF ParsedInv, EntitiesIn
      <3>3. QED
        BY <1>1, <1>2, <1>6, <3>1, <3>2, ParsedKept
    <2>2. QED
      BY <1>1, <2>1 DEF ParsedInv, EntitiesIn
  <1>14. QED
    BY <1>7, <1>8, <1>9, <1>10, <1>11, <1>12, <1>13 DEF IInv

\* Of the snapshots the client had, those up to PACKET_BACKUP - 1 older than
\* the new one stay as they are, and no others stay valid.
LEMMA KeptAre ==
  ASSUME TypeOK, SnapshotInv, NEW n \in Nat, n > snapNum
  PROVE  /\ Kept(n) \in [0 .. PACKET_BACKUP - 1 -> Snapshots]
         /\ \A i \in 0 .. PACKET_BACKUP - 1 :
              /\ Kept(n)[i].valid => Kept(n)[i] = snapshots[i]
              /\ Kept(n)[i].built = snapshots[i].built
              /\ Kept(n)[i].valid /\ i # Slot(n) => n - snapshots[i].messageNum < PACKET_BACKUP
         /\ \A m \in 1 .. snapNum : n - m < PACKET_BACKUP =>
              Kept(n)[Slot(m)] = snapshots[Slot(m)]
  <1> DEFINE firstMissing == IF n - (snapNum + 1) >= PACKET_BACKUP
                             THEN n - (PACKET_BACKUP - 1) ELSE snapNum + 1
             missing == {Slot(m) : m \in firstMissing .. n - 1}
             kept == Kept(n)
  <1>1. snapNum \in Nat /\ PACKET_BACKUP \in Nat \ {0}
    BY Numbers
  <1>2. snapshots \in [0 .. PACKET_BACKUP - 1 -> Snapshots]
    BY DEF TypeOK
  <1>3. kept = [i \in DOMAIN snapshots |->
                  IF i \in missing THEN [snapshots[i] EXCEPT !.valid = FALSE]
                                   ELSE snapshots[i]]
    BY DEF Kept
  <1>4. firstMissing \in Int /\ firstMissing >= snapNum + 1
    BY <1>1
  <1>5. firstMissing = snapNum + 1 \/ firstMissing = n - (PACKET_BACKUP - 1)
    OBVIOUS
  <1> HIDE DEF kept, firstMissing
  <1>6. ASSUME NEW i \in 0 .. PACKET_BACKUP - 1
        PROVE  /\ kept[i] \in Snapshots
               /\ kept[i].built = snapshots[i].built
               /\ kept[i].valid => kept[i] = snapshots[i]
               /\ kept[i].valid => i \notin missing
               /\ i \notin missing => kept[i] = snapshots[i]
    <2>1. snapshots[i] \in Snapshots
      BY <1>2
    <2>2. kept[i] = IF i \in missing THEN [snapshots[i] EXCEPT !.valid = FALSE]
                                     ELSE snapshots[i]
      BY <1>2, <1>3
    <2> HIDE DEF missing
    <2>3. CASE i \in missing
      <3>1. kept[i] = [snapshots[i] EXCEPT !.valid = FALSE]
        BY <2>2, <2>3
      <3>2. kept[i] \in Snapshots /\ kept[i].built = snapshots[i].built /\ ~kept[i].valid
        BY <2>1, <3>1 DEF Snapshots
      <3>3. QED
        BY <2>3, <3>2
    <2>4. CASE i \notin missing
      BY <2>1, <2>2, <2>4
    <2>5. QED
      BY <2>3, <2>4
  <1>7. kept \in [0 .. PACKET_BACKUP - 1 -> Snapshots]
    BY <1>2, <1>3, <1>6
  <1>8. ASSUME NEW i \in 0 .. PACKET_BACKUP - 1, kept[i].valid, i # Slot(n)
        PROVE  n - snapshots[i].messageNum < PACKET_BACKUP
    <2> DEFINE a == snapshots[i].messageNum
               b0 == n - (PACKET_BACKUP - 1)
    <2>1. snapshots[i].valid /\ i \notin missing
      BY <1>6, <1>8
    <2>2. /\ Slot(a) = i /\ a \in 1 .. snapNum /\ snapNum - a < PACKET_BACKUP
      BY <1>2, <2>1 DEF SnapshotInv
    <2>3. b0 \in Int /\ b0 + PACKET_BACKUP - 1 = n
      BY <1>1
    <2> HIDE DEF b0
    <2>4. PICK b \in b0 .. b0 + PACKET_BACKUP - 1 : b % PACKET_BACKUP = i
      <3>1. b0 \in Int /\ PACKET_BACKUP \in Nat \ {0}
        BY <1>1, <2>3
      <3>2. i \in 0 .. PACKET_BACKUP - 1
        BY <1>8
      <3>3. \E b \in b0 .. b0 + PACKET_BACKUP - 1 : b % PACKET_BACKUP = i
        BY <3>1, <3>2, RemaindersAll, ZenonT(30)
      <3>4. QED
        BY <3>3, Zenon
    <2>5. Slot(b) = i /\ b \in Int /\ b # n /\ b <= n - 1
      <3>1. Slot(b) = i
        BY <2>4 DEF Slot
      <3>2. b \in Int /\ b <= n
        BY <2>3, <2>4
      <3>3. b # n
        BY <1>8, <3>1
      <3>4. QED
        BY <3>1, <3>2, <3>3
    <2>6. b < firstMissing
      <3>1. b \notin firstMissing .. n - 1
        BY <2>1, <2>5
      <3>2. QED
        BY <1>4, <2>5, <3>1
    <2>7. b >= b0 /\ firstMissing # b0 /\ firstMissing = snapNum + 1
      BY <1>4, <1>5, <2>3, <2>4, <2>6 DEF b0
    <2>8. b <= snapNum /\ b > snapNum - PACKET_BACKUP
      BY <1>1, <2>3, <2>5, <2>6, <2>7
    <2> HIDE DEF a
    <2>9. a \in Int /\ ~(a < b) /\ ~(b < a)
      <3>1. a \in Int /\ a <= snapNum /\ snapNum < a + PACKET_BACKUP
        BY <1>1, <2>2
      <3>2. b < a + PACKET_BACKUP /\ a < b + PACKET_BACKUP
        BY <1>1, <2>5, <2>8, <3>1
      <3>3. QED
        BY <2>2, <2>5, <3>1, <3>2, SlotsDiffer
    <2>10. a = b
      BY <2>5, <2>9
    <2>11. n - a < PACKET_BACKUP
      BY <1>1, <2>3, <2>7, <2>9, <2>10
    <2>12. QED
      BY <2>11 DEF a
  <1>9. ASSUME NEW m \in 1 .. snapNum, n - m < PACKET_BACKUP
        PROVE  kept[Slot(m)] = snapshots[Slot(m)]
    <2>1. m \in Int /\ Slot(m) \in 0 .. PACKET_BACKUP - 1
      BY SlotRange
    <2>2. ASSUME NEW x \in firstMissing .. n - 1
          PROVE  Slot(x) # Slot(m)
      <3>1. x \in Int /\ m < x /\ x < m + PACKET_BACKUP
        BY <1>1, <1>4, <1>9
      <3>2. QED
        BY <2>1, <3>1, SlotsDiffer
    <2>3. Slot(m) \notin missing
      BY <2>2
    <2>4. QED
      BY <1>6, <2>1, <2>3
  <1>10. QED
    BY <1>6, <1>7, <1>8, <1>9 DEF kept

\* The client gets what the server built, if it has the same map; otherwise it
\* gets distinct entities.
LEMMA ParsedIs ==
  ASSUME IInv, NEW k \in DOMAIN down, IsSnapshot(down[k]),
         down[k].deltaNum <= 0 \/ Available(down[k])
  PROVE  LET msg == down[k]
             base == IF msg.deltaNum <= 0 THEN {}
                     ELSE EntitiesIn(snapshots[Slot(msg.deltaNum)])
             ents == Patched(base, msg.delta, Baseline[clServerId])
         IN  /\ ents \in SUBSET EntityState /\ Distinct(ents)
             /\ msg.map = clServerId => ents = msg.built
  <1> DEFINE msg == down[k]
             n == msg.deltaNum
             snap == snapshots[Slot(n)]
             base == IF n <= 0 THEN {} ELSE EntitiesIn(snap)
             ents == Patched(base, msg.delta, Baseline[clServerId])
  <1>1. /\ TypeOK /\ NetsOK /\ OrderInv /\ ActiveInv /\ SnapshotInv
        /\ HeldInv /\ DeltaInv /\ ParsedInv
    BY DEF IInv
  <1>2. /\ n \in Int /\ msg.sequence \in Nat /\ msg.map \in Map
        /\ msg.built \in SUBSET EntityState
    BY <1>1, DownAre DEF NetsOK, DownMessage
  <1>3. /\ Baseline[clServerId] \in [Entity -> Value]
        /\ snapNum \in Nat /\ serverMessageSequence \in Nat /\ outgoingSequence \in Nat
        /\ parseEntitiesNum \in Nat /\ MAX_PARSE_ENTITIES \in Nat
    BY <1>1, Numbers
  <1>4. Distinct(msg.built)
    BY <1>1, ScenesAre DEF DeltaInv
  <1>5. CASE n <= 0
    <2> DEFINE none == {}
    <2>1. none \in SUBSET EntityState /\ Distinct(none)
      BY DEF Distinct
    <2>2. ~(n > 0)
      BY <1>2, <1>5
    <2>3. msg.delta = Delta(none, msg.built, Baseline[msg.map]) /\ base = none
      BY <1>1, <1>5, <2>2 DEF DeltaInv
    <2>4. /\ Patched({}, Delta({}, msg.built, Baseline[msg.map]), Baseline[clServerId])
               \in SUBSET EntityState
          /\ Distinct(Patched({}, Delta({}, msg.built, Baseline[msg.map]),
                              Baseline[clServerId]))
      BY <1>2, <1>3, <1>4, ParsedFresh
    <2>5. ents \in SUBSET EntityState /\ Distinct(ents)
      BY <2>3, <2>4
    <2> HIDE DEF none
    <2>6. Patched(none, Delta(none, msg.built, Baseline[clServerId]), Baseline[clServerId])
            = msg.built
      BY <1>2, <1>3, <1>4, <2>1, RoundTrip
    <2>7. msg.map = clServerId => ents = msg.built
      BY <2>3, <2>6
    <2>8. QED
      BY <2>5, <2>7
  <1>6. CASE ~(n <= 0)
    <2>1. n > 0 /\ Available(msg)
      BY <1>2, <1>6
    <2>2. Held(n) /\ msg.sequence - n < PACKET_BACKUP
      BY <1>1, <2>1 DEF HeldInv
    <2>3. snapNum - n < PACKET_BACKUP
      <3>1. msg.sequence \in serverMessageSequence + 1 .. outgoingSequence - 1
        BY <1>1 DEF OrderInv
      <3>2. snapNum <= serverMessageSequence
        BY <1>1 DEF OrderInv
      <3>3. QED
        BY <1>2, <1>3, <2>2, <3>1, <3>2
    <2>4. snap.valid /\ snap.map = clServerId
      BY <2>2, <2>3 DEF Held
    <2>5. Slot(n) \in DOMAIN snapshots /\ snap.first \in Nat /\ snap.built \in SUBSET EntityState
      <3>1. Slot(n) \in 0 .. PACKET_BACKUP - 1
        BY <1>2, SlotRange
      <3>2. QED
        BY <1>1, <3>1, SnapshotsAre DEF TypeOK
    <2>6. parseEntitiesNum - snap.first <= MAX_PARSE_ENTITIES
      <3>1. parseEntitiesNum - snap.first <= MAX_PARSE_ENTITIES - ParseMargin
        BY <2>1 DEF Available
      <3>2. QED
        BY <1>3, <2>5, <3>1
    <2>7. EntitiesIn(snap) = snap.built /\ Distinct(snap.built)
      BY <1>1, <2>4, <2>5, <2>6 DEF ParsedInv, SnapshotInv
    <2>8. msg.map = clServerId
      BY <1>1, <2>1 DEF ActiveInv
    <2>9. msg.delta = Delta(snap.built, msg.built, Baseline[clServerId]) /\ base = snap.built
      BY <1>1, <1>6, <2>1, <2>7, <2>8 DEF DeltaInv
    <2>10. Patched(snap.built, Delta(snap.built, msg.built, Baseline[clServerId]),
                   Baseline[clServerId]) = msg.built
      BY <1>2, <1>3, <1>4, <2>5, <2>7, RoundTrip
    <2>11. ents = msg.built
      BY <2>9, <2>10
    <2>12. QED
      BY <1>2, <1>4, <2>11
  <1>7. QED
    BY <1>5, <1>6

LEMMA KeepSnapshotInv ==
  ASSUME IInv, NEW k \in DOMAIN down,
         down' = SubSeq(down, k + 1, Len(down)),
         serverMessageSequence' = down[k].sequence,
         IsSnapshot(down[k]), CL_KeepSnapshot(down[k]),
         clServerId' = clServerId, UNCHANGED <<svVars, up>>
  PROVE  IInv'
  <1> DEFINE msg == down[k]
             n == msg.sequence
             base == IF msg.deltaNum <= 0 THEN {}
                     ELSE EntitiesIn(snapshots[Slot(msg.deltaNum)])
             ents == Patched(base, msg.delta, Baseline[clServerId])
             snap == [valid |-> TRUE, messageNum |-> n, first |-> parseEntitiesNum,
                      num |-> Cardinality(ents), active |-> msg.active,
                      built |-> msg.built, map |-> msg.map]
  <1>1. /\ parseEntities' = Stored(parseEntities, parseEntitiesNum, ents)
        /\ parseEntitiesNum' = parseEntitiesNum + Cardinality(ents)
        /\ snapshots' = [Kept(n) EXCEPT ![Slot(n)] = snap]
        /\ snapNum' = n
        /\ UNCHANGED <<serverId, state, outgoingSequence, deltaMessage, gamestateMessageNum,
                       frames, snapshotEntities, nextSnapshotEntities, up, clServerId>>
    BY DEF CL_KeepSnapshot, svVars
  <1>2. /\ TypeOK /\ NetsOK /\ OrderInv /\ GameStateInv /\ ActiveInv /\ SnapshotInv
        /\ HeldInv /\ DeltaInv /\ FrameInv /\ ParsedInv
    BY DEF IInv
  <1>3. /\ snapNum \in Nat /\ outgoingSequence \in Nat /\ serverMessageSequence \in Nat
        /\ snapNum <= serverMessageSequence /\ parseEntitiesNum \in Nat
        /\ MAX_PARSE_ENTITIES \in Nat \ {0} /\ parseEntities \in Ring(MAX_PARSE_ENTITIES)
        /\ clServerId \in Nat /\ serverId \in Nat /\ Cardinality(Entity) \in Nat
    BY <1>2, Numbers DEF OrderInv
  <1>4. /\ n \in 0 .. MaxSequence /\ n \in Nat /\ n < outgoingSequence
        /\ serverMessageSequence < n
        /\ msg.map \in Map /\ msg.map \in clServerId .. serverId
        /\ \A i \in DOMAIN down' : down'[i].sequence \in n + 1 .. outgoingSequence' - 1
    BY <1>2, DownOrderReceived
  <1>5. /\ down' \in Seq(DownMessage) /\ Moved(down', down, k, {})
        /\ \A i \in DOMAIN down' : i + k \in DOMAIN down /\ down'[i] = down[i + k]
    BY <1>2, DownReceived
  <1>6. /\ msg.active \in BOOLEAN /\ msg.built \in SUBSET EntityState /\ msg.deltaNum \in Int
        /\ msg.active => msg.map = clServerId
        /\ Distinct(msg.built) /\ Cardinality(msg.built) <= ParseMargin
    <2>1. /\ msg.active \in BOOLEAN /\ msg.built \in SUBSET EntityState /\ msg.deltaNum \in Int
          /\ msg.active => msg.map = clServerId
      BY <1>2, DownAre DEF NetsOK, DownMessage, ActiveInv
    <2>2. msg.built \in Scene
      BY <1>2 DEF DeltaInv
    <2>3. QED
      BY <2>1, <2>2, ScenesAre
  <1>7. /\ ents \in SUBSET EntityState /\ Distinct(ents)
        /\ msg.map = clServerId => ents = msg.built
    <2>1. msg.deltaNum <= 0 \/ Available(msg)
      BY DEF CL_KeepSnapshot
    <2>2. QED
      BY <2>1, ParsedIs
  <1>8. /\ ents \in SUBSET AnyState /\ Cardinality(ents) \in Nat
        /\ Cardinality(ents) <= Cardinality(Entity)
        /\ msg.map = clServerId => Cardinality(ents) <= MAX_PARSE_ENTITIES
    <2>1. ents \in SUBSET AnyState
      BY <1>7 DEF AnyState
    <2>2. Cardinality(ents) \in 0 .. Cardinality(Entity)
      BY <1>7, DistinctFit
    <2> HIDE DEF ents, msg
    <2>3. ASSUME msg.map = clServerId
          PROVE  Cardinality(ents) <= MAX_PARSE_ENTITIES
      <3>1. Cardinality(ents) <= ParseMargin
        BY <1>6, <1>7, <2>3
      <3>2. QED
        BY <1>3, <2>2, <3>1
    <2>4. QED
      BY <1>3, <2>1, <2>2, <2>3
  <1> HIDE DEF ents, n
  <1>9. /\ snap.valid /\ snap.messageNum = n /\ snap.first = parseEntitiesNum
        /\ snap.num = Cardinality(ents) /\ snap.active = msg.active
        /\ snap.built = msg.built /\ snap.map = msg.map /\ snap \in Snapshots
    BY <1>3, <1>4, <1>6, <1>8 DEF Snapshots
  <1> HIDE DEF snap, msg
  <1>10. n > snapNum
    BY <1>3, <1>4
  <1>11. /\ Kept(n) \in [0 .. PACKET_BACKUP - 1 -> Snapshots]
         /\ \A i \in 0 .. PACKET_BACKUP - 1 :
              /\ Kept(n)[i].valid => Kept(n)[i] = snapshots[i]
              /\ Kept(n)[i].built = snapshots[i].built
              /\ Kept(n)[i].valid /\ i # Slot(n) => n - snapshots[i].messageNum < PACKET_BACKUP
         /\ \A m \in 1 .. snapNum : n - m < PACKET_BACKUP =>
              Kept(n)[Slot(m)] = snapshots[Slot(m)]
    BY <1>2, <1>4, <1>10, KeptAre
  <1>12. /\ Slot(n) \in 0 .. PACKET_BACKUP - 1
         /\ DOMAIN snapshots = 0 .. PACKET_BACKUP - 1
    BY <1>2, <1>4, SlotRange, Slots
  <1>13. /\ snapshots' \in [0 .. PACKET_BACKUP - 1 -> Snapshots]
         /\ DOMAIN snapshots' = 0 .. PACKET_BACKUP - 1
         /\ snapshots'[Slot(n)] = snap
         /\ \A i \in 0 .. PACKET_BACKUP - 1 : i # Slot(n) => snapshots'[i] = Kept(n)[i]
    BY <1>1, <1>9, <1>11, <1>12
  <1>14. ASSUME NEW i \in 0 .. PACKET_BACKUP - 1, snapshots'[i].valid
         PROVE  \/ i = Slot(n) /\ snapshots'[i] = snap
                \/ /\ i # Slot(n) /\ snapshots'[i] = snapshots[i] /\ snapshots[i].valid
                   /\ n - snapshots[i].messageNum < PACKET_BACKUP
    BY <1>11, <1>13, <1>14
  <1>15. ASSUME NEW m \in Int, m \in 1 .. snapNum, n - m < PACKET_BACKUP
         PROVE  snapshots'[Slot(m)] = snapshots[Slot(m)]
    <2>1. m < n /\ n < m + PACKET_BACKUP
      <3>1. m <= snapNum /\ PACKET_BACKUP \in Int /\ n \in Int
        BY <1>3, <1>4, <1>15, BackupAssumption
      <3>2. n - m < PACKET_BACKUP /\ m \in Int
        BY <1>15
      <3>3. m < n
        BY <1>3, <1>10, <3>1, <3>2
      <3>4. n < m + PACKET_BACKUP
        BY <3>1, <3>2
      <3>5. QED
        BY <3>3, <3>4
    <2>2. Slot(m) # Slot(n) /\ Slot(m) \in 0 .. PACKET_BACKUP - 1
      <3>1. m \in Nat /\ n \in Nat
        BY <1>3, <1>4, <1>15
      <3>2. Slot(m) # Slot(n)
        BY <2>1, <3>1, SlotsDiffer
      <3>3. QED
        BY <3>1, <3>2, SlotRange
    <2>3. QED
      BY <1>11, <1>13, <1>15, <2>2
  <1>16. ASSUME NEW m, Held(m)
         PROVE  Held(m)'
    <2>1. m \in 1 .. snapNum /\ m \in Int /\ m \in 1 .. n
      BY <1>3, <1>4, <1>10, <1>16 DEF Held
    <2>2. ASSUME n - m < PACKET_BACKUP
          PROVE  /\ snapshots'[Slot(m)].valid /\ snapshots'[Slot(m)].messageNum = m
                 /\ snapshots'[Slot(m)].map = clServerId
      <3>1. snapNum - m < PACKET_BACKUP
        BY <1>3, <1>4, <1>10, <2>1, <2>2
      <3>2. snapshots'[Slot(m)] = snapshots[Slot(m)]
        BY <1>15, <2>1, <2>2
      <3>3. QED
        BY <1>16, <3>1, <3>2 DEF Held
    <2>3. QED
      BY <1>1, <2>1, <2>2 DEF Held
  <1>17. NetsOK' /\ OrderInv' /\ GameStateInv' /\ ActiveInv'
    <2>1. snapNum' \in Nat /\ snapNum' <= serverMessageSequence'
      BY <1>1, <1>4 DEF n, msg
    <2>2. QED
      BY <2>1, SnapshotReceived
  <1>18. TypeOK'
    <2>1. parseEntities' \in [0 .. MAX_PARSE_ENTITIES - 1 -> EntityState \cup {NoEntity}]
      BY <1>1, <1>3, <1>8, StoredRing DEF Ring, AnyState
    <2>2. parseEntitiesNum' \in Nat
      BY <1>1, <1>3, <1>8
    <2>3. serverMessageSequence' \in 0 .. MaxSequence /\ snapNum' \in 0 .. MaxSequence
      BY <1>1, <1>4 DEF n, msg
    <2>4. QED
      BY <1>1, <1>2, <1>13, <2>1, <2>2, <2>3 DEF TypeOK
  <1>19. SnapshotInv'
    <2>1. ASSUME NEW i \in DOMAIN snapshots', snapshots'[i].valid
          PROVE  /\ Slot(snapshots'[i].messageNum) = i
                 /\ snapshots'[i].messageNum \in 1 .. n
                 /\ n - snapshots'[i].messageNum < PACKET_BACKUP
                 /\ snapshots'[i].map \in clServerId .. serverId
                 /\ snapshots'[i].active => snapshots'[i].map = clServerId
                 /\ Distinct(snapshots'[i].built)
      <3>1. CASE i = Slot(n) /\ snapshots'[i] = snap
        <4>1. n \in 1 .. n /\ n - n < PACKET_BACKUP
          BY <1>3, <1>4
        <4>2. /\ Slot(snap.messageNum) = i /\ snap.messageNum \in 1 .. n
              /\ n - snap.messageNum < PACKET_BACKUP
          BY <1>9, <3>1, <4>1
        <4>3. snap.map \in clServerId .. serverId /\ Distinct(snap.built)
          <5>1. msg.map \in clServerId .. serverId
            BY <1>4
          <5>2. snap.map = msg.map /\ snap.built = msg.built /\ Distinct(msg.built)
            BY <1>6, <1>9, Zenon
          <5>3. QED
            BY <5>1, <5>2, Zenon
        <4>4. snap.active => snap.map = clServerId
          BY <1>6, <1>9, Zenon
        <4>5. QED
          BY <3>1, <4>2, <4>3, <4>4
      <3>2. CASE /\ i # Slot(n) /\ snapshots'[i] = snapshots[i] /\ snapshots[i].valid
                 /\ n - snapshots[i].messageNum < PACKET_BACKUP
        <4>1. 1 .. snapNum \subseteq 1 .. n
          BY <1>3, <1>4, <1>10
        <4>2. QED
          BY <1>2, <1>12, <1>13, <3>2, <4>1 DEF SnapshotInv
      <3>3. QED
        BY <1>13, <1>14, <2>1, <3>1, <3>2
    <2>2. snapshots'[Slot(n)].valid /\ snapshots'[Slot(n)].messageNum = n
      BY <1>9, <1>13
    <2>3. QED
      BY <1>1, <2>1, <2>2 DEF SnapshotInv
  <1>20. HeldInv'
    <2>1. state' = "active" /\ deltaMessage' > 0 => Held(deltaMessage)'
      <3>1. PICK m : m = deltaMessage
        OBVIOUS
      <3>2. state = "active" /\ m > 0 => Held(m)'
        BY <1>2, <1>16, <3>1 DEF HeldInv
      <3>3. QED
        BY <1>1, <3>1, <3>2
    <2>2. ASSUME NEW i \in DOMAIN up, up[i].id = serverId, up[i].move = "delta"
          PROVE  Held(up[i].ack)'
      <3>1. PICK m : m = up[i].ack
        OBVIOUS
      <3>2. Held(m)'
        BY <1>2, <1>16, <2>2, <3>1 DEF HeldInv
      <3>3. QED
        BY <1>1, <3>1, <3>2
    <2>3. ASSUME NEW i \in DOMAIN down', IsSnapshot(down'[i]), down'[i].deltaNum > 0
          PROVE  /\ Held(down[i].deltaNum)'
                 /\ down'[i].sequence - down'[i].deltaNum < PACKET_BACKUP
      <3>1. PICK m : m = down'[i].deltaNum
        OBVIOUS
      <3>2. Held(m) /\ down'[i].sequence - m < PACKET_BACKUP
        BY <1>2, <1>5, <2>3, <3>1 DEF HeldInv
      <3>3. Held(m)'
        BY <1>16, <3>2
      <3>4. QED
        BY <3>1, <3>2, <3>3
    <2>4. QED
      BY <1>1, <2>1, <2>2, <2>3 DEF HeldInv, IsSnapshot
  <1>21. DeltaInv'
    <2>1. ASSUME NEW i \in DOMAIN down', IsSnapshot(down'[i])
          PROVE  LET m == down'[i]
                     b == IF m.deltaNum > 0 THEN snapshots'[Slot(m.deltaNum)].built ELSE {}
                 IN  m.built \in Scene /\ m.delta = Delta(b, m.built, Baseline[m.map])
      <3>1. PICK j \in DOMAIN down : down'[i] = down[j]
        BY <1>5
      <3>2. IsSnapshot(down[j])
        BY <2>1, <3>1
      <3>3. LET m == down[j]
                b == IF m.deltaNum > 0 THEN snapshots[Slot(m.deltaNum)].built ELSE {}
            IN  m.built \in Scene /\ m.delta = Delta(b, m.built, Baseline[m.map])
        BY <1>2, <3>2 DEF DeltaInv
      <3>4. ASSUME down[j].deltaNum > 0
            PROVE  snapshots'[Slot(down[j].deltaNum)] = snapshots[Slot(down[j].deltaNum)]
        <4>1. /\ Held(down[j].deltaNum)
              /\ down[j].sequence - down[j].deltaNum < PACKET_BACKUP
          BY <1>2, <3>2, <3>4 DEF HeldInv
        <4>2. down[j].deltaNum \in 1 .. snapNum /\ down[j].deltaNum \in Int
          BY <1>3, <4>1 DEF Held
        <4>3. down[j].sequence \in n + 1 .. outgoingSequence' - 1
          BY <1>4, <3>1
        <4>4. outgoingSequence' \in Int
          BY <1>1, <1>3
        <4>5. PICK x, y : x = down[j].sequence /\ y = down[j].deltaNum
          OBVIOUS
        <4>6. x \in Int /\ x > n
          BY <1>4, <4>3, <4>4, <4>5, SMTT(20)
        <4>7. y \in Int /\ x - y < PACKET_BACKUP
          BY <4>1, <4>2, <4>5
        <4>8. n - y < PACKET_BACKUP
          BY <1>4, <4>6, <4>7, BackupAssumption
        <4>9. QED
          BY <1>15, <4>2, <4>5, <4>8
      <3>5. QED
        BY <3>1, <3>3, <3>4
    <2>2. QED
      BY <2>1 DEF DeltaInv, IsSnapshot
  <1>22. FrameInv'
    <2> DEFINE none == {}
    <2>1. Moved(down', down, k, none) /\ \A m \in none : IsSnapshot(m) /\ m.map = serverId =>
            FrameHolds(m.sequence, m.built)'
      BY <1>5
    <2> HIDE DEF none
    <2>2. outgoingSequence' \in Nat /\ outgoingSequence <= outgoingSequence'
      BY <1>1, <1>3
    <2>3. \A m \in Int : \A set : m < outgoingSequence /\ FrameHolds(m, set) =>
            FrameHolds(m, set)'
      BY <1>1, <1>2, <2>2, FrameStays
    <2>4. /\ \A i \in DOMAIN down' : IsSnapshot(down'[i]) /\ down'[i].map = serverId' =>
               FrameHolds(down[i].sequence, down[i].built)'
          /\ \A i \in DOMAIN snapshots : snapshots[i].valid /\ snapshots[i].map = serverId =>
               \E m, set : /\ m = snapshots[i].messageNum /\ set = snapshots[i].built
                           /\ FrameHolds(m, set)'
      BY <1>1, <1>2, <1>5, <2>1, <2>3, FrameInvKept
    <2>5. ASSUME NEW i \in DOMAIN snapshots', snapshots'[i].valid, snapshots'[i].map = serverId
          PROVE  FrameHolds(snapshots[i].messageNum, snapshots[i].built)'
      <3>1. CASE i = Slot(n) /\ snapshots'[i] = snap
        <4>1. PICK m, set : m = n /\ set = msg.built
          OBVIOUS
        <4>2. FrameHolds(m, set)
          BY <1>2, <1>9, <2>5, <3>1, <4>1 DEF FrameInv, n, msg
        <4>3. FrameHolds(m, set)'
          BY <1>4, <2>3, <4>1, <4>2
        <4>4. QED
          BY <1>9, <3>1, <4>1, <4>3
      <3>2. CASE snapshots'[i] = snapshots[i] /\ snapshots[i].valid
        <4>1. PICK m, set : /\ m = snapshots[i].messageNum /\ set = snapshots[i].built
                            /\ FrameHolds(m, set)'
          BY <1>12, <1>13, <2>4, <2>5, <3>2
        <4>2. QED
          BY <3>2, <4>1
      <3>3. QED
        BY <1>13, <1>14, <2>5, <3>1, <3>2
    <2>6. QED
      BY <1>1, <2>4, <2>5 DEF FrameInv, IsSnapshot
  <1>23. ParsedInv'
    <2>1. ASSUME NEW i \in DOMAIN snapshots', snapshots'[i].valid
          PROVE  /\ snapshots'[i].first + snapshots'[i].num <= parseEntitiesNum'
                 /\ snapshots'[i].map = clServerId
                      /\ parseEntitiesNum' - snapshots'[i].first <= MAX_PARSE_ENTITIES =>
                    Window(parseEntities', snapshots'[i].first, snapshots'[i].num)
                      = snapshots'[i].built
      <3>1. CASE i = Slot(n) /\ snapshots'[i] = snap
        <4>1. msg.map = clServerId =>
                Window(parseEntities', parseEntitiesNum, Cardinality(ents)) = ents
          BY <1>1, <1>3, <1>7, <1>8, StoredHolds
        <4>2. parseEntitiesNum + Cardinality(ents) <= parseEntitiesNum'
          BY <1>1, <1>3, <1>8
        <4>3. QED
          BY <1>7, <1>9, <3>1, <4>1, <4>2
      <3>2. CASE snapshots'[i] = snapshots[i] /\ snapshots[i].valid
        <4>1. snapshots[i].first \in Nat /\ snapshots[i].num \in Nat
          BY <1>2, <1>13, SnapshotsAre DEF TypeOK
        <4>2. /\ snapshots[i].first + snapshots[i].num <= parseEntitiesNum
              /\ snapshots[i].map = clServerId
                   /\ parseEntitiesNum - snapshots[i].first <= MAX_PARSE_ENTITIES =>
                 Window(parseEntities, snapshots[i].first, snapshots[i].num) = snapshots[i].built
          BY <1>2, <1>12, <1>13, <3>2 DEF ParsedInv, EntitiesIn
        <4>3. PICK first \in Nat, num \in Nat :
                first = snapshots[i].first /\ num = snapshots[i].num
          BY <4>1
        <4>4. /\ first + num <= parseEntitiesNum'
              /\ parseEntitiesNum' - first <= MAX_PARSE_ENTITIES =>
                   /\ parseEntitiesNum - first <= MAX_PARSE_ENTITIES
                   /\ Window(parseEntities', first, num) = Window(parseEntities, first, num)
          BY <1>1, <1>2, <1>8, <4>2, <4>3, ParsedKept
        <4>5. QED
          BY <3>2, <4>2, <4>3, <4>4
      <3>3. QED
        BY <1>13, <1>14, <2>1, <3>1, <3>2
    <2>2. QED
      BY <1>1, <2>1 DEF ParsedInv, EntitiesIn
  <1>24. QED
    BY <1>17, <1>18, <1>19, <1>20, <1>21, <1>22, <1>23 DEF IInv
-----------------------------------------------------------------------------
(* The theorems.                                                           *)

LEMMA StepInv == IInv /\ [Next]_vars => IInv'
  <1> SUFFICES ASSUME IInv, [Next]_vars PROVE IInv'
    OBVIOUS
  <1>1. CASE \E scene \in Scene : SV_SendClientSnapshot(scene)
    BY <1>1, SnapshotSentInv
  <1>2. CASE \E scene \in OtherScene : SV_BuildOtherSnapshot(scene)
    BY <1>2, OtherSnapshotInv
  <1>3. CASE SV_SpawnServer
    BY <1>3, SpawnInv
  <1>4. CASE \E k \in DOMAIN up : SV_ExecuteClientMessage(k)
    <2>1. PICK k \in DOMAIN up : SV_ExecuteClientMessage(k)
      BY <1>4
    <2>2. /\ up' = SubSeq(up, k + 1, Len(up))
          /\ SV_OutdatedMessage(up[k]) \/ SV_UserMove(up[k])
          /\ UNCHANGED clVars
      BY <2>1 DEF SV_ExecuteClientMessage
    <2>3. CASE SV_UserMove(up[k])
      BY <2>2, <2>3, UserMoveInv
    <2>4. CASE SV_OutdatedMessage(up[k])
      <3>1. CASE up[k].ack > gamestateMessageNum
        <4>1. up[k].id # serverId /\ SV_SendClientGameState
          BY <2>4, <3>1 DEF SV_OutdatedMessage
        <4>2. QED
          BY <2>2, <3>1, <4>1, GameStateSentInv
      <3>2. CASE ~(up[k].ack > gamestateMessageNum)
        <4>1. UNCHANGED <<svVars, clVars, down>>
          BY <2>2, <2>4, <3>2 DEF SV_OutdatedMessage
        <4>2. QED
          BY <2>2, <4>1, IgnoredInv
      <3>3. QED
        BY <3>1, <3>2
    <2>5. QED
      BY <2>2, <2>3, <2>4
  <1>5. CASE \E k \in DOMAIN down : CL_ParseServerMessage(k)
    <2>1. PICK k \in DOMAIN down : CL_ParseServerMessage(k)
      BY <1>5
    <2>2. /\ serverMessageSequence' = down[k].sequence
          /\ down' = SubSeq(down, k + 1, Len(down))
          /\ CL_ParseGamestate(down[k]) \/ CL_ParseSnapshot(down[k])
          /\ UNCHANGED <<svVars, up>>
      BY <2>1 DEF CL_ParseServerMessage
    <2>3. CASE CL_ParseGamestate(down[k])
      BY <2>2, <2>3, ParseGamestateInv
    <2>4. CASE CL_ParseSnapshot(down[k])
      <3>1. /\ IsSnapshot(down[k]) /\ clServerId' = clServerId
            /\ CL_KeepSnapshot(down[k]) \/ CL_DumpSnapshot(down[k])
        BY <2>4 DEF CL_ParseSnapshot, IsSnapshot
      <3>2. QED
        BY <2>2, <3>1, KeepSnapshotInv, DumpSnapshotInv
    <2>5. QED
      BY <2>2, <2>3, <2>4
  <1>6. CASE CL_WritePacket
    BY <1>6, WritePacketInv
  <1>7. CASE UNCHANGED vars
    <2>1. UNCHANGED <<serverId, state, outgoingSequence, deltaMessage, gamestateMessageNum,
                      frames, snapshotEntities, nextSnapshotEntities,
                      clServerId, serverMessageSequence, snapNum, snapshots,
                      parseEntities, parseEntitiesNum, down, up>>
      BY <1>7 DEF vars, svVars, clVars
    <2>2. TypeOK' /\ NetsOK'
      BY <2>1 DEF IInv, TypeOK, NetsOK
    <2>3. OrderInv' /\ GameStateInv'
      BY <2>1 DEF IInv, OrderInv, GameStateInv, IsGameState
    <2>4. ActiveInv'
      BY <2>1 DEF IInv, ActiveInv, IsSnapshot
    <2>5. SnapshotInv' /\ DeltaInv' /\ ParsedInv'
      BY <2>1 DEF IInv, SnapshotInv, DeltaInv, ParsedInv, EntitiesIn, IsSnapshot
    <2>6. HeldInv'
      BY <2>1 DEF IInv, HeldInv, Held, IsSnapshot
    <2>7. FrameInv'
      BY <2>1 DEF IInv, FrameInv, FrameHolds, IsSnapshot
    <2>8. QED
      BY <2>2, <2>3, <2>4, <2>5, <2>6, <2>7 DEF IInv
  <1>8. QED
    BY <1>1, <1>2, <1>3, <1>4, <1>5, <1>6, <1>7 DEF Next

\* The inductive invariant holds throughout.
THEOREM Inductive == Spec => []IInv
  BY InitInv, StepInv, PTL DEF Spec

\* Types: frames and snapshots are windows of at most one snapshot's entities.
THEOREM TypeCorrect == Spec => []TypeOK
  <1>1. IInv => TypeOK
    BY DEF IInv
  <1>2. QED
    BY <1>1, Inductive, PTL

\* A snapshot in a slot under which cgame can ask for n is that of n.
LEMMA ReadableIs ==
  ASSUME IInv, NEW n \in 1 .. snapNum, Readable(n)
  PROVE  /\ Slot(n) \in DOMAIN snapshots /\ snapshots[Slot(n)].valid
         /\ snapshots[Slot(n)].messageNum = n
         /\ parseEntitiesNum - snapshots[Slot(n)].first < MAX_PARSE_ENTITIES
  <1> DEFINE m == snapshots[Slot(n)].messageNum
  <1>1. TypeOK /\ SnapshotInv
    BY DEF IInv
  <1>2. /\ snapNum - n < PACKET_BACKUP /\ snapshots[Slot(n)].valid
        /\ parseEntitiesNum - snapshots[Slot(n)].first < MAX_PARSE_ENTITIES
    BY DEF Readable
  <1>3. snapNum \in Nat /\ n \in Int /\ Slot(n) \in DOMAIN snapshots
    <2>1. n \in Int
      OBVIOUS
    <2>2. QED
      BY <1>1, <2>1, Numbers, Slots
  <1>4. Slot(m) = Slot(n) /\ m \in 1 .. snapNum /\ snapNum - m < PACKET_BACKUP
    BY <1>1, <1>2, <1>3 DEF SnapshotInv
  <1> HIDE DEF m
  <1>5. m \in Int /\ m < n + PACKET_BACKUP /\ n < m + PACKET_BACKUP
    BY <1>2, <1>3, <1>4
  <1>6. ~(m < n) /\ ~(n < m)
    BY <1>3, <1>4, <1>5, SlotsDiffer
  <1>7. m = n
    BY <1>3, <1>5, <1>6
  <1>8. QED
    BY <1>2, <1>3, <1>7 DEF m

\* Whatever was lost and however often the four rings have wrapped, a snapshot
\* cgame can get under a number is the one of that number, and holds the very
\* entities the server built for it on the client's map.
THEOREM Exact == Spec => []SnapshotExact
  <1>1. ASSUME IInv
        PROVE  SnapshotExact
    <2> SUFFICES ASSUME NEW n \in 1 .. snapNum, Readable(n)
                 PROVE  /\ snapshots[Slot(n)].messageNum = n
                        /\ snapshots[Slot(n)].map = clServerId =>
                             EntitiesIn(snapshots[Slot(n)]) = snapshots[Slot(n)].built
      BY DEF SnapshotExact
    <2>1. /\ Slot(n) \in DOMAIN snapshots /\ snapshots[Slot(n)].valid
          /\ snapshots[Slot(n)].messageNum = n
          /\ parseEntitiesNum - snapshots[Slot(n)].first < MAX_PARSE_ENTITIES
      BY <1>1, ReadableIs
    <2>2. /\ parseEntitiesNum \in Nat /\ MAX_PARSE_ENTITIES \in Nat
          /\ snapshots[Slot(n)].first \in Nat
      BY <1>1, <2>1, Numbers, Slots, SnapshotsAre DEF IInv, TypeOK
    <2>3. parseEntitiesNum - snapshots[Slot(n)].first <= MAX_PARSE_ENTITIES
      BY <2>1, <2>2
    <2>4. QED
      BY <1>1, <2>1, <2>3 DEF IInv, ParsedInv
  <1>2. QED
    BY <1>1, Inductive, PTL

\* A snapshot the server built on another map is never flagged as one of an
\* active client.
THEOREM ForeignFlagged == Spec => []ForeignSnapshotFlagged
  <1>1. ASSUME IInv
        PROVE  ForeignSnapshotFlagged
    <2> SUFFICES ASSUME NEW n \in 1 .. snapNum, Readable(n), snapshots[Slot(n)].active
                 PROVE  snapshots[Slot(n)].map = clServerId
      BY DEF ForeignSnapshotFlagged
    <2>1. Slot(n) \in DOMAIN snapshots /\ snapshots[Slot(n)].valid
      BY <1>1, ReadableIs
    <2>2. QED
      BY <1>1, <2>1 DEF IInv, SnapshotInv
  <1>2. QED
    BY <1>1, Inductive, PTL

\* The base of a delta that arrives is a snapshot the client has under that
\* number.
THEOREM BaseThere == Spec => []BaseReceived
  <1>1. ASSUME IInv
        PROVE  BaseReceived
    <2> SUFFICES ASSUME NEW i \in DOMAIN down, IsSnapshot(down[i]), down[i].deltaNum > 0
                 PROVE  /\ snapshots[Slot(down[i].deltaNum)].valid
                        /\ snapshots[Slot(down[i].deltaNum)].messageNum = down[i].deltaNum
      BY DEF BaseReceived, IsSnapshot
    <2> DEFINE n == down[i].deltaNum
               m == down[i].sequence
    <2>1. Held(n) /\ m - n < PACKET_BACKUP
      BY <1>1 DEF IInv, HeldInv
    <2>2. /\ m \in serverMessageSequence + 1 .. outgoingSequence - 1
          /\ snapNum <= serverMessageSequence
      BY <1>1 DEF IInv, OrderInv
    <2>3. snapNum \in Nat /\ serverMessageSequence \in Nat /\ outgoingSequence \in Nat
      BY <1>1, Numbers DEF IInv
    <2> HIDE DEF n, m
    <2>4. n \in 1 .. snapNum
      BY <2>1 DEF Held
    <2>5. snapNum - n < PACKET_BACKUP
      BY <2>1, <2>2, <2>3, <2>4
    <2>6. snapshots[Slot(n)].valid /\ snapshots[Slot(n)].messageNum = n
      BY <2>1, <2>5 DEF Held
    <2>7. QED
      BY <2>6 DEF n
  <1>2. QED
    BY <1>1, Inductive, PTL

\* Messages in the order of their numbers: what is parsed is newer than the
\* snapshots the client has.
LEMMA NewerThanKept ==
  ASSUME IInv, NEW k \in DOMAIN down, down' = SubSeq(down, k + 1, Len(down)),
         serverMessageSequence' = down[k].sequence, UNCHANGED <<svVars, up>>
  PROVE  down[k].sequence \in Nat /\ snapNum < down[k].sequence
  <1>1. TypeOK /\ NetsOK /\ OrderInv
    BY DEF IInv
  <1>2. serverMessageSequence' \in Nat /\ serverMessageSequence < serverMessageSequence'
    BY <1>1, DownOrderReceived
  <1>3. down[k].sequence \in Nat /\ serverMessageSequence < down[k].sequence
    BY <1>2
  <1>4. snapNum \in Nat /\ serverMessageSequence \in Nat /\ snapNum <= serverMessageSequence
    BY <1>1, Numbers DEF OrderInv
  <1>5. QED
    BY <1>3, <1>4

\* Arithmetic, apart from the rest.
LEMMA SmallerGap ==
  ASSUME NEW a \in Nat, NEW b \in Nat, NEW n \in Nat, NEW bound \in Nat, a <= b, b - n < bound
  PROVE  a - n < bound
  OBVIOUS

\* A readable snapshot that was there before is where it was, and its window
\* is not overtaken by what a parse stores.
LEMMA SettledStore ==
  ASSUME IInv, NEW ents \in SUBSET AnyState,
         parseEntities' = Stored(parseEntities, parseEntitiesNum, ents),
         parseEntitiesNum' = parseEntitiesNum + Cardinality(ents),
         snapNum' \in Nat, snapNum <= snapNum',
         NEW n \in 1 .. snapNum, snapshots'[Slot(n)] = snapshots[Slot(n)], Readable(n)'
  PROVE  /\ Readable(n)
         /\ EntitiesIn(snapshots[Slot(n)])' = EntitiesIn(snapshots[Slot(n)])
  <1> DEFINE snap == snapshots[Slot(n)]
  <1>1. TypeOK /\ ParsedInv /\ snapNum \in Nat /\ n \in Nat /\ parseEntitiesNum \in Nat
        /\ MAX_PARSE_ENTITIES \in Nat
        /\ MAX_PARSE_ENTITIES \in Nat \ {0} /\ parseEntities \in Ring(MAX_PARSE_ENTITIES)
        /\ PACKET_BACKUP \in Nat
    BY Numbers DEF IInv
  <1>2. Slot(n) \in DOMAIN snapshots /\ snap.first \in Nat /\ snap.num \in Nat
    <2>1. n \in Int
      BY <1>1
    <2>2. Slot(n) \in 0 .. PACKET_BACKUP - 1 /\ Slot(n) \in DOMAIN snapshots
      BY <1>1, <2>1, SlotRange, Slots
    <2>3. QED
      BY <1>1, <2>2, SnapshotsAre DEF TypeOK
  <1>3. Cardinality(ents) \in Nat
    BY SomeFinite
  <1>4. Slot(n)' = Slot(n) /\ snap' = snap
    BY DEF Slot
  <1>5. /\ snapNum' - n < PACKET_BACKUP /\ snap.valid
        /\ parseEntitiesNum' - snap.first < MAX_PARSE_ENTITIES
    BY <1>4 DEF Readable
  <1>6. snap.first + snap.num <= parseEntitiesNum
    BY <1>1, <1>2, <1>5 DEF ParsedInv
  <1>7. Window(parseEntities', snap.first, snap.num) = Window(parseEntities, snap.first, snap.num)
    <2> HIDE DEF snap
    <2>1. snap.first >= parseEntitiesNum + Cardinality(ents) - MAX_PARSE_ENTITIES
      BY <1>1, <1>2, <1>3, <1>5
    <2>2. QED
      BY <1>1, <1>2, <1>6, <2>1, StoredKeepsWindow
  <1>8. snapNum - n < PACKET_BACKUP /\ parseEntitiesNum - snap.first < MAX_PARSE_ENTITIES
    <2>1. parseEntitiesNum <= parseEntitiesNum' /\ parseEntitiesNum' \in Nat
      BY <1>1, <1>3
    <2> HIDE DEF snap
    <2>2. snapNum - n < PACKET_BACKUP
      BY <1>1, <1>5, SmallerGap, Zenon
    <2>3. parseEntitiesNum - snap.first < MAX_PARSE_ENTITIES
      BY <1>1, <1>2, <1>5, <2>1, SmallerGap, Zenon
    <2>4. QED
      BY <2>2, <2>3
  <1>9. Readable(n)
    BY <1>5, <1>8 DEF Readable
  <1>10. QED
    BY <1>4, <1>7, <1>9 DEF EntitiesIn

LEMMA SettledKept ==
  ASSUME IInv, NEW k \in DOMAIN down, down' = SubSeq(down, k + 1, Len(down)),
         serverMessageSequence' = down[k].sequence, UNCHANGED <<svVars, up>>,
         IsSnapshot(down[k]), CL_KeepSnapshot(down[k]),
         NEW n \in 1 .. snapNum, Readable(n)'
  PROVE  /\ Readable(n)
         /\ EntitiesIn(snapshots[Slot(n)])' = EntitiesIn(snapshots[Slot(n)])
  <1> DEFINE msg == down[k]
             base == IF msg.deltaNum <= 0 THEN {}
                     ELSE EntitiesIn(snapshots[Slot(msg.deltaNum)])
             ents == Patched(base, msg.delta, Baseline[clServerId])
  <1>1. /\ parseEntities' = Stored(parseEntities, parseEntitiesNum, ents)
        /\ parseEntitiesNum' = parseEntitiesNum + Cardinality(ents)
        /\ snapNum' = msg.sequence
        /\ msg.deltaNum <= 0 \/ Available(msg)
    BY DEF CL_KeepSnapshot
  <1>2. PICK snap : snapshots' = [Kept(msg.sequence) EXCEPT ![Slot(msg.sequence)] = snap]
    BY DEF CL_KeepSnapshot
  <1>3. msg.sequence \in Nat /\ snapNum < msg.sequence
    BY NewerThanKept
  <1>4. ents \in SUBSET AnyState
    BY <1>1, ParsedIs DEF AnyState
  <1> HIDE DEF ents, msg
  <1>5. TypeOK /\ SnapshotInv /\ snapNum \in Nat /\ n \in Nat /\ PACKET_BACKUP \in Nat
    BY Numbers DEF IInv
  <1>6. msg.sequence - n < PACKET_BACKUP
    BY <1>1 DEF Readable
  <1>7. Kept(msg.sequence)[Slot(n)] = snapshots[Slot(n)]
    BY <1>3, <1>5, <1>6, KeptAre
  <1>8. Slot(n) # Slot(msg.sequence) /\ Slot(n) \in 0 .. PACKET_BACKUP - 1
    <2>1. n \in Int /\ msg.sequence \in Int /\ n < msg.sequence
          /\ msg.sequence < n + PACKET_BACKUP
      BY <1>3, <1>5, <1>6
    <2>2. QED
      BY <2>1, SlotsDiffer, SlotRange
  <1>9. snapshots'[Slot(n)] = snapshots[Slot(n)]
    <2>1. Kept(msg.sequence) \in [0 .. PACKET_BACKUP - 1 -> Snapshots]
      BY <1>3, <1>5, KeptAre
    <2>2. QED
      BY <1>2, <1>7, <1>8, <2>1
  <1>10. snapNum' \in Nat /\ snapNum <= snapNum'
    BY <1>1, <1>3, <1>5
  <1>11. QED
    BY <1>1, <1>4, <1>9, <1>10, SettledStore

LEMMA SettledDumped ==
  ASSUME IInv, NEW k \in DOMAIN down, IsSnapshot(down[k]), CL_DumpSnapshot(down[k]),
         NEW n \in 1 .. snapNum, Readable(n)'
  PROVE  /\ Readable(n)
         /\ EntitiesIn(snapshots[Slot(n)])' = EntitiesIn(snapshots[Slot(n)])
  <1> DEFINE msg == down[k]
             snap == snapshots[Slot(msg.deltaNum)]
             ents == Patched(EntitiesIn(snap), msg.delta, Baseline[clServerId])
  <1>1. /\ parseEntities' = Stored(parseEntities, parseEntitiesNum, ents)
        /\ parseEntitiesNum' = parseEntitiesNum + Cardinality(ents)
        /\ UNCHANGED <<snapshots, snapNum>>
    BY DEF CL_DumpSnapshot
  <1>2. TypeOK /\ NetsOK /\ snapNum \in Nat /\ Baseline[clServerId] \in [Entity -> Value]
        /\ MAX_PARSE_ENTITIES \in Nat \ {0} /\ parseEntities \in Ring(MAX_PARSE_ENTITIES)
    BY Numbers DEF IInv
  <1>3. ents \in SUBSET AnyState
    <2>1. msg.deltaNum \in Int /\ msg.delta \in SUBSET Change
      BY <1>2, DownAre DEF NetsOK, DownMessage
    <2>2. Slot(msg.deltaNum) \in 0 .. PACKET_BACKUP - 1
      BY <2>1, SlotRange
    <2>3. snap.first \in Nat /\ snap.num \in Nat
      BY <1>2, <2>2, SnapshotsAre DEF TypeOK
    <2> HIDE DEF snap, msg
    <2>4. EntitiesIn(snap) \in SUBSET AnyState
      BY <1>2, <2>3, WindowStates DEF EntitiesIn
    <2>5. QED
      BY <1>2, <2>1, <2>4, PatchedStates
  <1> HIDE DEF ents, msg, snap
  <1>4. snapNum' \in Nat /\ snapNum <= snapNum' /\ snapshots'[Slot(n)] = snapshots[Slot(n)]
    BY <1>1, <1>2
  <1>5. QED
    BY <1>1, <1>3, <1>4, SettledStore

\* A step that leaves what cgame reads alone.
LEMMA SettledStill ==
  ASSUME UNCHANGED <<snapNum, snapshots, parseEntities, parseEntitiesNum>>,
         NEW n \in 1 .. snapNum, Readable(n)'
  PROVE  /\ Readable(n)
         /\ EntitiesIn(snapshots[Slot(n)])' = EntitiesIn(snapshots[Slot(n)])
  BY DEF Readable, EntitiesIn, Slot

\* What cgame was told of a number stands until a gamestate wipes it: a
\* snapshot it can get keeps its entities for as long as it can get it, and one
\* it could not get does not turn up later.
THEOREM Settled == Spec => SnapshotsSettled
  <1>1. ASSUME IInv, [Next]_vars, NEW n \in 1 .. snapNum, Readable(n)'
        PROVE  /\ Readable(n)
               /\ EntitiesIn(snapshots[Slot(n)])' = EntitiesIn(snapshots[Slot(n)])
    <2>1. CASE \E k \in DOMAIN down : CL_ParseServerMessage(k)
      <3>1. PICK k \in DOMAIN down : CL_ParseServerMessage(k)
        BY <2>1
      <3>2. /\ serverMessageSequence' = down[k].sequence
            /\ down' = SubSeq(down, k + 1, Len(down))
            /\ CL_ParseGamestate(down[k]) \/ CL_ParseSnapshot(down[k])
            /\ UNCHANGED <<svVars, up>>
        BY <3>1 DEF CL_ParseServerMessage
      <3>3. CASE CL_ParseGamestate(down[k])
        <4>1. snapNum' = 0 /\ n \in 1 .. snapNum'
          BY <1>1, <3>3 DEF CL_ParseGamestate, Readable
        <4>2. QED
          BY <4>1
      <3>4. CASE CL_ParseSnapshot(down[k])
        <4>1. /\ IsSnapshot(down[k])
              /\ CL_KeepSnapshot(down[k]) \/ CL_DumpSnapshot(down[k])
          BY <3>4 DEF CL_ParseSnapshot, IsSnapshot
        <4>2. QED
          BY <1>1, <3>2, <4>1, SettledKept, SettledDumped
      <3>5. QED
        BY <3>2, <3>3, <3>4
    <2>2. CASE ~\E k \in DOMAIN down : CL_ParseServerMessage(k)
      <3>1. UNCHANGED <<snapNum, snapshots, parseEntities, parseEntitiesNum>>
        BY <1>1, <2>2 DEF Next, vars, clVars, SV_SendClientSnapshot, SV_BuildOtherSnapshot,
             SV_SpawnServer, SV_ExecuteClientMessage, CL_WritePacket
      <3>2. QED
        BY <1>1, <3>1, SettledStill
    <2>3. QED
      BY <2>1, <2>2
  <1>2. IInv /\ [Next]_vars =>
          [\A n \in 1 .. snapNum : Readable(n)' =>
             /\ Readable(n)
             /\ EntitiesIn(snapshots[Slot(n)])' = EntitiesIn(snapshots[Slot(n)])]_vars
    BY <1>1
  <1>3. QED
    BY <1>2, Inductive, PTL DEF Spec, SnapshotsSettled
=============================================================================
