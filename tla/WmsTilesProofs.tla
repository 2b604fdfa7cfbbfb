--------------------------- MODULE WmsTilesProofs ---------------------------
(***************************************************************************)
(* Theorems about WmsTiles, for any tiles, layers, requests and limits.    *)
(*                                                                         *)
(* The books balance because every operation of the cache is an eviction   *)
(* of some entries, at most followed by the insertion of one; the lemmas   *)
(* on the bytes of a set of tiles say what either does to the counter.     *)
(* That a stale picture in the cache is excused is not inductive by        *)
(* itself: it may come from Redis or from a render, so the pictures there  *)
(* must be excused as well.                                                *)
(***************************************************************************)
EXTENDS WmsTiles, FiniteSetTheorems, TLAPS

USE SizeAssumption, TilesAssumption, PictureAssumption, ChangesAssumption

-----------------------------------------------------------------------------
(* The bytes of a set of tiles *)

\* One picture has its bytes.
LEMMA BytesOfOne ==
  ASSUME NEW t \in Tiles
  PROVE  /\ BytesOf({t}) = {t} \X (1 .. Bytes[t])
         /\ IsFiniteSet(BytesOf({t}))
         /\ TotalOf({t}) = Bytes[t]
<1>1. BytesOf({t}) = {t} \X (1 .. Bytes[t])
  BY DEF BytesOf
<1>2. IsFiniteSet({t}) /\ Cardinality({t}) = 1
  BY FS_Singleton
<1>3. Bytes[t] \in Nat \ {0}
  OBVIOUS
<1>4. IsFiniteSet(1 .. Bytes[t]) /\ Cardinality(1 .. Bytes[t]) = Bytes[t]
  BY <1>3, FS_Interval
<1>5. IsFiniteSet({t} \X (1 .. Bytes[t])) /\ Cardinality({t} \X (1 .. Bytes[t])) = 1 * Bytes[t]
  BY <1>2, <1>4, FS_Product
<1>6. 1 * Bytes[t] = Bytes[t]
  BY <1>3
<1> QED BY <1>1, <1>5, <1>6, Zenon DEF TotalOf

\* Finitely many pictures have finitely many bytes.
LEMMA BytesFinite ==
  ASSUME NEW S \in SUBSET Tiles, IsFiniteSet(S)
  PROVE  IsFiniteSet(BytesOf(S)) /\ TotalOf(S) \in Nat
<1> DEFINE Piece == [t \in S |-> {t} \X (1 .. Bytes[t])]
           Pieces == {{t} \X (1 .. Bytes[t]) : t \in S}
<1>1. Piece \in Surjection(S, Pieces)
  BY DEF Surjection
<1>2. IsFiniteSet(Pieces)
  BY <1>1, FS_Surjection
<1>3. \A P \in Pieces : IsFiniteSet(P)
  <2>1. ASSUME NEW t \in S PROVE IsFiniteSet({t} \X (1 .. Bytes[t]))
    BY BytesOfOne, Zenon
  <2> QED BY <2>1
<1>4. IsFiniteSet(UNION Pieces)
  BY <1>2, <1>3, FS_UNION
<1> QED BY <1>4, FS_CardinalityType DEF BytesOf, TotalOf

\* What goes and what stays share out the bytes.
LEMMA BytesShared ==
  ASSUME NEW D \in SUBSET Tiles, IsFiniteSet(D), NEW S
  PROVE  TotalOf(D \ S) = TotalOf(D) - TotalOf(D \cap S)
<1>1. BytesOf(D) \ BytesOf(D \cap S) = BytesOf(D \ S)
  BY DEF BytesOf
<1>2. BytesOf(D) \cap BytesOf(D \cap S) = BytesOf(D \cap S)
  BY DEF BytesOf
<1>3. IsFiniteSet(BytesOf(D))
  BY BytesFinite
<1> QED BY <1>1, <1>2, <1>3, FS_Difference DEF TotalOf

\* A picture more has its bytes more.
LEMMA BytesAdded ==
  ASSUME NEW D \in SUBSET Tiles, IsFiniteSet(D), NEW t \in Tiles, t \notin D
  PROVE  TotalOf(D \union {t}) = TotalOf(D) + Bytes[t]
<1>1. IsFiniteSet(D \union {t}) /\ D \union {t} \in SUBSET Tiles
  BY FS_AddElement
<1>2. TotalOf((D \union {t}) \ {t}) = TotalOf(D \union {t}) - TotalOf((D \union {t}) \cap {t})
  BY <1>1, BytesShared
<1>3. (D \union {t}) \ {t} = D /\ (D \union {t}) \cap {t} = {t}
  OBVIOUS
<1>4. TotalOf(D \union {t}) \in Nat /\ TotalOf(D) \in Nat /\ Bytes[t] \in Nat
  BY <1>1, BytesFinite
<1>5. TotalOf(D) = TotalOf(D \union {t}) - TotalOf({t})
  BY <1>2, <1>3, Zenon
<1>6. TotalOf({t}) = Bytes[t]
  BY BytesOfOne
<1> QED BY <1>4, <1>5, <1>6

\* An empty cache has none.
LEMMA NoBytes == TotalOf({}) = 0
  BY FS_EmptySet DEF TotalOf, BytesOf

-----------------------------------------------------------------------------
(* What the operations of the cache do *)

Entries == [picture : Pictures, age : 0 .. Lifetime]

\* A cache whose books are right.
CacheOK(c) ==
    /\ DOMAIN c.map \subseteq Tiles /\ IsFiniteSet(DOMAIN c.map)
    /\ c.map \in [DOMAIN c.map -> Entries]
    /\ c.older \subseteq (DOMAIN c.map) \X (DOMAIN c.map)
    /\ c.bytes = TotalOf(DOMAIN c.map)

\* A cache within its limits.
Fits(c) ==
    /\ Cardinality(DOMAIN c.map) <= MaxTiles
    /\ c.bytes <= MaxBytes \/ Cardinality(DOMAIN c.map) = 1

\* Cache e has only entries that c had.
From(e, c) ==
    /\ DOMAIN e.map \subseteq DOMAIN c.map
    /\ \A t \in DOMAIN e.map : e.map[t] = c.map[t]

\* An eviction takes the entries asked for, and their bytes.
LEMMA EvictSound ==
  ASSUME NEW c, CacheOK(c), NEW S
  PROVE  /\ CacheOK(Evict(c, S))
         /\ From(Evict(c, S), c)
         /\ DOMAIN Evict(c, S).map = DOMAIN c.map \ S
         /\ Evict(c, S).bytes <= c.bytes
<1> DEFINE e == Evict(c, S)
           D == DOMAIN c.map
<1>1. /\ e.map = [t \in D \ S |-> c.map[t]]
      /\ e.older = {p \in c.older : p[1] \notin S /\ p[2] \notin S}
      /\ e.bytes = c.bytes - TotalOf(D \cap S)
  BY DEF Evict, Cache, Restrict
<1>2. DOMAIN e.map = D \ S
  BY <1>1
<1>3. D \in SUBSET Tiles /\ IsFiniteSet(D) /\ c.bytes = TotalOf(D)
  BY DEF CacheOK
<1>4. IsFiniteSet(D \ S) /\ IsFiniteSet(D \cap S)
  BY <1>3, FS_Difference, FS_Intersection
<1>5. TotalOf(D \ S) = TotalOf(D) - TotalOf(D \cap S)
  BY <1>3, BytesShared
<1>6. TotalOf(D \cap S) \in Nat /\ TotalOf(D) \in Nat
  <2>1. D \cap S \in SUBSET Tiles
    BY <1>3
  <2> QED BY <2>1, <1>3, <1>4, BytesFinite
<1>7. e.bytes = TotalOf(D \ S) /\ e.bytes <= c.bytes
  BY <1>1, <1>3, <1>5, <1>6
<1>8. e.map \in [D \ S -> Entries] /\ \A t \in D \ S : e.map[t] = c.map[t]
  BY <1>1 DEF CacheOK
<1>9. e.older \subseteq (D \ S) \X (D \ S)
  BY <1>1 DEF CacheOK
<1> HIDE DEF e, D
<1>10. CacheOK(e)
  BY <1>2, <1>3, <1>4, <1>7, <1>8, <1>9 DEF CacheOK
<1>11. From(e, c)
  BY <1>2, <1>8 DEF From, D
<1> QED BY <1>2, <1>7, <1>10, <1>11 DEF e, D

\* What fits still does when some of it goes.
LEMMA EvictFits ==
  ASSUME NEW c, CacheOK(c), Fits(c), NEW S
  PROVE  Fits(Evict(c, S))
<1> DEFINE e == Evict(c, S)
           D == DOMAIN c.map
<1>1. DOMAIN e.map = D \ S /\ e.bytes <= c.bytes /\ e.bytes = TotalOf(D \ S)
  BY EvictSound DEF CacheOK
<1>2. D \in SUBSET Tiles /\ IsFiniteSet(D) /\ c.bytes = TotalOf(D)
  BY DEF CacheOK
<1>3. D \ S \in SUBSET D /\ D \ S \in SUBSET Tiles
  BY <1>2
<1>4. /\ IsFiniteSet(D \ S)
      /\ Cardinality(D \ S) <= Cardinality(D)
      /\ Cardinality(D \ S) = Cardinality(D) => D \ S = D
  BY <1>2, <1>3, FS_Subset
<1>5. Cardinality(D \ S) \in Nat /\ Cardinality(D) \in Nat
  BY <1>2, <1>4, FS_CardinalityType
<1>6. TotalOf(D \ S) \in Nat /\ TotalOf(D) \in Nat
  BY <1>2, <1>3, <1>4, BytesFinite
<1>7. Cardinality(D \ S) <= MaxTiles
  BY <1>4, <1>5 DEF Fits
<1>8. CASE c.bytes <= MaxBytes
  BY <1>1, <1>2, <1>6, <1>7, <1>8 DEF Fits
<1>9. CASE Cardinality(D) = 1
  <2>1. CASE D \ S = D
    BY <1>1, <1>7, <1>9, <2>1 DEF Fits
  <2>2. CASE D \ S # D
    <3>1. Cardinality(D \ S) = 0
      BY <1>4, <1>5, <1>9, <2>2
    <3>2. D \ S = {}
      BY <3>1, <1>4, FS_EmptySet
    <3>3. e.bytes = 0
      BY <3>2, <1>1, NoBytes, Zenon
    <3> QED BY <3>3, <1>1, <1>7 DEF Fits
  <2> QED BY <2>1, <2>2
<1> QED BY <1>8, <1>9 DEF Fits

\* There is always a smallest number of old entries to evict, if need be all.
LEMMA EvictionExists ==
  ASSUME NEW c, CacheOK(c), NEW n \in Nat
  PROVE  \E S \in Oldest(c) :
            /\ Roomy(c, S, n)
            /\ \A R \in Oldest(c) : R \subseteq S /\ Roomy(c, R, n) => R = S
<1> DEFINE D == DOMAIN c.map
           Room == {S \in Oldest(c) : Roomy(c, S, n)}
           Smaller == StrictSubsetOrdering(D)
<1>1. IsFiniteSet(D)
  BY DEF CacheOK
<1>2. Room \subseteq SUBSET D
  BY DEF Oldest
<1>3. D \in Room
  <2>1. Cardinality(D \ D) = 0
    BY FS_EmptySet, D \ D = {}, Zenon
  <2>2. Roomy(c, D, n)
    BY <2>1 DEF Roomy
  <2>3. D \in Oldest(c)
    BY DEF Oldest, CacheOK
  <2> QED BY <2>2, <2>3
<1>4. IsWellFoundedOn(Smaller, SUBSET D)
  BY <1>1, FS_StrictSubsetOrderingWellFounded, FS_FiniteSubsetsOfFinite, Zenon
<1>5. PICK S \in Room : \A R \in Room : <<R, S>> \notin Smaller
  <2> HIDE DEF Room, Smaller
  <2> QED BY <1>2, <1>3, <1>4, WFMin
<1>6. ASSUME NEW R \in Room, R \subseteq S PROVE R = S
  <2>1. R \in SUBSET D /\ S \in SUBSET D
    BY <1>2
  <2> QED BY <1>5, <1>6, <2>1 DEF StrictSubsetOrdering
<1> QED BY <1>5, <1>6

\* Room is made from what there was, and no more is kept than fits.
LEMMA EvictForSound ==
  ASSUME NEW c, CacheOK(c), NEW n \in Nat
  PROVE  /\ CacheOK(EvictFor(c, n))
         /\ From(EvictFor(c, n), c)
         /\ Cardinality(DOMAIN EvictFor(c, n).map) < MaxTiles
         /\ \/ EvictFor(c, n).bytes + n <= MaxBytes
            \/ DOMAIN EvictFor(c, n).map = {}
<1> DEFINE D == DOMAIN c.map
           Least(S) == /\ Roomy(c, S, n)
                       /\ \A R \in Oldest(c) : R \subseteq S /\ Roomy(c, R, n) => R = S
           S == CHOOSE T \in Oldest(c) : Least(T)
<1>1. S \in Oldest(c) /\ Roomy(c, S, n) /\ EvictFor(c, n) = Evict(c, S)
  <2>1. \E T \in Oldest(c) : Least(T)
    BY EvictionExists
  <2>2. S \in Oldest(c) /\ Least(S)
    <3> HIDE DEF Least
    <3> QED BY <2>1
  <2>3. EvictFor(c, n) = Evict(c, S)
    BY DEF EvictFor
  <2> QED BY <2>2, <2>3
<1> HIDE DEF S
<1>2. S \subseteq D /\ D \cap S = S
  BY <1>1 DEF Oldest
<1>3. Evict(c, S).bytes = c.bytes - TotalOf(S)
  <2>1. Evict(c, S).bytes = c.bytes - TotalOf(D \cap S)
    BY DEF Evict, Cache
  <2> QED BY <2>1, <1>2, Zenon
<1>4. DOMAIN Evict(c, S).map = D \ S
  BY EvictSound
<1>5. Cardinality(D \ S) < MaxTiles
  BY <1>1 DEF Roomy
<1>6. Evict(c, S).bytes + n <= MaxBytes \/ D \ S = {}
  BY <1>1, <1>3 DEF Roomy
<1> QED BY <1>1, <1>4, <1>5, <1>6, EvictSound

-----------------------------------------------------------------------------
(* What they do to wmsCache *)

CacheInv == CacheOK(L1) /\ Fits(L1)

\* An entry was there, and grows no younger.
Stays(t) ==
    /\ t \in DOMAIN map
    /\ map'[t].picture = map[t].picture
    /\ map'[t].age >= map[t].age

\* Entries stay or go, but for one of tile t that comes with a picture.
Arrives(t, picture) ==
    \A u \in DOMAIN map' : Stays(u) \/ (u = t /\ map'[u].picture = picture)

NoneArrives == \A u \in DOMAIN map' : Stays(u)

\* Insertion, replacement included.
LEMMA SetL1Sound ==
  ASSUME CacheInv, NEW t \in Tiles, NEW picture \in Pictures, SetL1(t, picture)
  PROVE  CacheInv' /\ Arrives(t, picture)
<1> DEFINE c == OldOut(L1, t)
           d == EvictFor(c, Bytes[t])
           D == DOMAIN d.map
<1>1. CacheOK(c) /\ From(c, L1) /\ t \notin DOMAIN c.map
  BY EvictSound DEF CacheInv, OldOut
<1>2. Bytes[t] \in Nat
  OBVIOUS
<1>3. /\ CacheOK(d) /\ From(d, c)
      /\ Cardinality(D) < MaxTiles
      /\ d.bytes + Bytes[t] <= MaxBytes \/ D = {}
  <2> HIDE DEF c
  <2> QED BY <1>1, <1>2, EvictForSound
<1>4. From(d, L1) /\ t \notin D
  BY <1>1, <1>3 DEF From
<1>5. /\ map' = [u \in (D \ {t}) \union {t} |-> IF u = t THEN Entry(picture) ELSE d.map[u]]
      /\ older' = {p \in d.older : p[1] # t /\ p[2] # t} \union ((D \ {t}) \X {t})
      /\ totalBytes' = d.bytes + Bytes[t]
  BY DEF SetL1, PutLast
<1> HIDE DEF c, d
<1>6. /\ DOMAIN map' = D \union {t}
      /\ map'[t] = Entry(picture)
      /\ \A u \in D : map'[u] = d.map[u]
  BY <1>4, <1>5
<1>7. D \in SUBSET Tiles /\ IsFiniteSet(D) /\ d.bytes = TotalOf(D)
  BY <1>3 DEF CacheOK
<1>8. IsFiniteSet(D \union {t}) /\ Cardinality(D \union {t}) = Cardinality(D) + 1
  BY <1>4, <1>7, FS_AddElement
<1>9. totalBytes' = TotalOf(D \union {t})
  BY <1>4, <1>5, <1>7, BytesAdded
<1>10. Cardinality(D) \in Nat
  BY <1>7, FS_CardinalityType
<1>11. Entry(picture) \in Entries
  BY DEF Entry, Entries, Lifetime
<1>12. map' \in [D \union {t} -> Entries]
  BY <1>3, <1>4, <1>5, <1>11 DEF CacheOK
<1>13. older' \subseteq (D \union {t}) \X (D \union {t})
  BY <1>3, <1>5 DEF CacheOK
<1>14. D = {} => Cardinality(D) = 0
  BY FS_EmptySet
<1>15. /\ Cardinality(D) + 1 <= MaxTiles
       /\ totalBytes' <= MaxBytes \/ Cardinality(D) + 1 = 1
  BY <1>3, <1>5, <1>10, <1>14
<1>16. CacheInv'
  BY <1>6, <1>7, <1>8, <1>9, <1>12, <1>13, <1>15 DEF CacheInv, CacheOK, Fits, L1, Cache
<1>17. Arrives(t, picture)
  <2>1. \A u \in D : u \in DOMAIN map /\ map'[u] = map[u]
    BY <1>4, <1>6 DEF From, L1, Cache
  <2>2. \A u \in DOMAIN map : map[u].age \in Int
    BY DEF CacheInv, CacheOK, L1, Cache, Entries
  <2>3. \A u \in D : Stays(u)
    BY <2>1, <2>2 DEF Stays
  <2>4. map'[t].picture = picture
    BY <1>6 DEF Entry
  <2>5. \A u \in DOMAIN map' : u \in D \/ u = t
    BY <1>6
  <2> QED BY <2>3, <2>4, <2>5, Zenon DEF Arrives
<1> QED BY <1>16, <1>17

\* Deletion.
LEMMA DropL1Sound ==
  ASSUME CacheInv, NEW S, DropL1(S)
  PROVE  CacheInv' /\ NoneArrives /\ DOMAIN map' = DOMAIN map \ S
<1> DEFINE c == Evict(L1, S)
<1>1. CacheOK(c) /\ Fits(c) /\ From(c, L1) /\ DOMAIN c.map = DOMAIN L1.map \ S
  BY EvictSound, EvictFits DEF CacheInv
<1>2. map' = c.map /\ older' = c.older /\ totalBytes' = c.bytes
  BY DEF DropL1
<1> HIDE DEF c
<1>3. CacheInv'
  BY <1>1, <1>2 DEF CacheInv, CacheOK, Fits, L1, Cache
<1>4. \A u \in DOMAIN map' : u \in DOMAIN map /\ map'[u] = map[u]
  BY <1>1, <1>2 DEF From, L1, Cache
<1>5. \A u \in DOMAIN map : map[u].age \in Int
  BY DEF CacheInv, CacheOK, L1, Cache, Entries
<1>6. NoneArrives
  BY <1>4, <1>5 DEF NoneArrives, Stays
<1> QED BY <1>1, <1>2, <1>3, <1>6 DEF L1, Cache

\* The touch of a hit, and the passing of time.
LEMMA TouchSound ==
  ASSUME CacheInv, NEW t \in DOMAIN map, PutLast(L1, t, Touched(map[t])), UNCHANGED totalBytes
  PROVE  CacheInv' /\ NoneArrives
<1>1. /\ map' = [u \in (DOMAIN map \ {t}) \union {t} |-> IF u = t THEN map[t] ELSE map[u]]
      /\ older' = {p \in older : p[1] # t /\ p[2] # t} \union ((DOMAIN map \ {t}) \X {t})
  BY DEF PutLast, L1, Cache, Touched
<1>2. map \in [DOMAIN map -> Entries] /\ older \subseteq (DOMAIN map) \X (DOMAIN map)
  BY DEF CacheInv, CacheOK, L1, Cache
<1>3. DOMAIN map' = DOMAIN map /\ \A u \in DOMAIN map : map'[u] = map[u]
  BY <1>1
<1>4. map' \in [DOMAIN map -> Entries] /\ older' \subseteq (DOMAIN map) \X (DOMAIN map)
  BY <1>1, <1>2
<1>5. CacheInv'
  BY <1>3, <1>4 DEF CacheInv, CacheOK, Fits, L1, Cache
<1>6. \A u \in DOMAIN map : map[u].age \in Int
  BY <1>2 DEF Entries
<1> QED BY <1>3, <1>5, <1>6 DEF NoneArrives, Stays

LEMMA AgeSound ==
  ASSUME CacheInv, NEW t \in Tiles, Age(t)
  PROVE  CacheInv' /\ NoneArrives
<1>1. map \in [DOMAIN map -> Entries]
  BY DEF CacheInv, CacheOK, L1, Cache
<1>2. t \in DOMAIN map /\ map[t].age \in 0 .. Lifetime - 1
  BY <1>1 DEF Age, Hits, Expired, Lifetime, Entries
<1>3. /\ DOMAIN map' = DOMAIN map
      /\ \A u \in DOMAIN map : /\ map'[u].picture = map[u].picture
                              /\ map'[u].age >= map[u].age
  BY <1>1, <1>2 DEF Age, Entries, Lifetime
<1>4. map' \in [DOMAIN map -> Entries]
  BY <1>1, <1>2 DEF Age, Entries, Lifetime
<1>5. UNCHANGED <<older, totalBytes>>
  BY DEF Age
<1>6. CacheInv'
  BY <1>3, <1>4, <1>5 DEF CacheInv, CacheOK, Fits, L1, Cache
<1> QED BY <1>3, <1>6 DEF NoneArrives, Stays

\* clear(), and an empty cache to begin with.
LEMMA EmptySound ==
  CacheOK(Cache(Empty, {}, 0)) /\ Fits(Cache(Empty, {}, 0))
<1>1. DOMAIN Empty = {} /\ Empty \in [{} -> Entries]
  BY DEF Empty
<1>2. IsFiniteSet({}) /\ Cardinality({}) = 0 /\ TotalOf({}) = 0
  BY FS_EmptySet, NoBytes
<1> QED BY <1>1, <1>2 DEF CacheOK, Fits, Cache

-----------------------------------------------------------------------------
(* The inductive invariant *)

\* What is on its way is a picture.
PicturesThere ==
    /\ \A t \in Tiles : render[t].step = "drawn" => render[t].picture \in Pictures
    /\ \A r \in Requests : request[r].step \in {"promote", "store"} => request[r].picture \in Pictures

\* There is a picture p of t in Redis, in a render or with a request ...
Elsewhere(t, p) ==
    \/ redis[t] = p
    \/ render[t].step = "drawn" /\ render[t].picture = p
    \/ \E r \in Requests : /\ request[r].step \in {"promote", "store"}
                           /\ request[r].tile = t
                           /\ request[r].picture = p

\* ... or anywhere.
Held(t, p) ==
    \/ t \in DOMAIN map /\ map[t].picture = p
    \/ Elsewhere(t, p)

\* A picture has its excuse wherever it is, and is none of things to come.
AllExcused ==
    \A t \in Tiles, p \in Pictures :
        Held(t, p) => /\ Excused(t, p)
                      /\ p[1] <= data[Draws[t]]
                      /\ p[2] <= style

\* The bound holds of each.
Counted == style <= changes /\ \A l \in Layers : data[l] <= changes

IInv == TypeOK /\ PicturesThere /\ CacheInv /\ Counted /\ AllExcused

\* A flush of its layer drops a tile whose name it knows.
LEMMA DrawsTyped ==
  ASSUME NEW t \in Tiles
  PROVE  Draws[t] \in Layers /\ (Unreached(t) \/ t \in TilesOf(Draws[t]))
  BY DrawsAssumption DEF Unreached, TilesOf

LEMMA NowTyped == ASSUME TypeOK, NEW t \in Tiles PROVE Now(t) \in Pictures
  BY DrawsTyped DEF TypeOK, Now, Pictures

RequestStates == [step : Steps, tile : Tiles, picture : Pictures \union {NoPicture}]

LEMMA IdleTyped == Idle \in RequestStates
  BY DEF Idle, RequestStates, Steps

\* An empty cache, and nothing under way.
LEMMA InitInv == Init => IInv
<1> SUFFICES ASSUME Init PROVE IInv
  OBVIOUS
<1>1. TypeOK
  <2>1. 0 \in 0 .. MaxChanges
    OBVIOUS
  <2>2. DOMAIN map = {} /\ map \in [DOMAIN map -> Entries]
    BY DEF Init, Empty
  <2>3. /\ render \in [Tiles -> [step : {"none", "asked", "drawn"}, picture : Pictures \union {NoPicture}]]
        /\ redis \in [Tiles -> Pictures \union {NoPicture}]
    BY DEF Init, NoRender, Render
  <2>4. request \in [Requests -> RequestStates]
    BY IdleTyped DEF Init
  <2> QED BY <2>1, <2>2, <2>3, <2>4 DEF Init, TypeOK, Entries, RequestStates
<1>2. PicturesThere
  BY DEF Init, PicturesThere, NoRender, Render, Idle
<1>3. CacheInv
  BY EmptySound DEF Init, CacheInv, L1
<1>4. ASSUME NEW t \in Tiles, NEW p \in Pictures, Held(t, p) PROVE FALSE
  BY <1>4 DEF Init, Held, Elsewhere, NoRender, Render, Idle, Empty
<1>5. Counted
  BY DEF Init, Counted
<1> QED BY <1>1, <1>2, <1>3, <1>4, <1>5 DEF IInv, AllExcused

-----------------------------------------------------------------------------
(* Types, and the cache *)

\* TypeOK without the cache.
TypeElsewhere ==
    /\ data \in [Layers -> 0 .. MaxChanges]
    /\ style \in 0 .. MaxChanges
    /\ saved \in BOOLEAN /\ linked \in BOOLEAN
    /\ changes \in 0 .. MaxChanges
    /\ posted \subseteq Layers /\ pending \subseteq Layers /\ missed \subseteq Layers
    /\ redis \in [Tiles -> Pictures \union {NoPicture}]
    /\ sweeps \subseteq UNION {Spellings(l) : l \in Layers}
    /\ render \in [Tiles -> [step : {"none", "asked", "drawn"}, picture : Pictures \union {NoPicture}]]
    /\ request \in [Requests -> [step : Steps, tile : Tiles,
                                 picture : Pictures \union {NoPicture}]]
    /\ stray \subseteq Tiles

\* Whatever a step does, what it writes is of its type; the cache apart.
LEMMA TypeStep ==
  ASSUME IInv, [Next]_vars
  PROVE  TypeElsewhere' /\ PicturesThere' /\ Counted'
<1>1. TypeOK /\ PicturesThere /\ Counted /\ TypeElsewhere
  BY DEF IInv, TypeOK, TypeElsewhere
<1> USE <1>1 DEF edits, news, l1
<1>2. ASSUME NEW t \in Tiles, Hit(t) \/ Age(t) \/ Expire(t)
      PROVE  TypeElsewhere' /\ PicturesThere' /\ Counted'
  BY <1>2 DEF Hit, Age, Expire, TypeElsewhere, PicturesThere, Counted
<1>3. ASSUME NEW t \in Tiles, NEW r \in Requests, Ask(r, t)
      PROVE  TypeElsewhere' /\ PicturesThere' /\ Counted'
  BY <1>3 DEF Ask, TypeElsewhere, PicturesThere, Counted, Steps
<1>4. ASSUME NEW t \in Tiles, Draw(t)
      PROVE  TypeElsewhere' /\ PicturesThere' /\ Counted'
  BY <1>4, NowTyped DEF Draw, Render, TypeElsewhere, PicturesThere, Counted
<1>5. ASSUME NEW t \in Tiles, RenderEnds(t) \/ RenderFails(t)
      PROVE  TypeElsewhere' /\ PicturesThere' /\ Counted'
  <2>1. RenderEnds(t) => render[t].picture \in Pictures
    BY DEF RenderEnds, PicturesThere
  <2>2. \A r \in Requests :
          \/ request'[r] = request[r]
          \/ request'[r] = Idle
          \/ RenderEnds(t) /\ request'[r] = [step |-> "store", tile |-> t, picture |-> render[t].picture]
    BY <1>5 DEF RenderEnds, RenderFails
  <2>3. \A r \in Requests : request'[r] \in RequestStates
    BY <2>1, <2>2, IdleTyped DEF TypeElsewhere, RequestStates, Steps
  <2>4. request' \in [Requests -> RequestStates]
    BY <1>5, <2>3 DEF RenderEnds, RenderFails
  <2>5. render' = [render EXCEPT ![t] = NoRender] /\ UNCHANGED <<edits, news, redis, sweeps, stray>>
    BY <1>5 DEF RenderEnds, RenderFails
  <2>6. PicturesThere'
    <3>1. ASSUME NEW r \in Requests, request'[r].step \in {"promote", "store"}
          PROVE  request'[r].picture \in Pictures
      <4>1. Idle.step = "idle"
        BY DEF Idle
      <4> QED BY <2>1, <2>2, <3>1, <4>1 DEF PicturesThere
    <3>2. ASSUME NEW u \in Tiles, render'[u].step = "drawn"
          PROVE  render'[u].picture \in Pictures
      <4>1. NoRender.step = "none"
        BY DEF NoRender, Render
      <4>2. render'[u] = IF u = t THEN NoRender ELSE render[u]
        BY <2>5 DEF TypeElsewhere
      <4> QED BY <3>2, <4>1, <4>2 DEF PicturesThere
    <3> QED BY <3>1, <3>2 DEF PicturesThere
  <2> QED BY <2>4, <2>5, <2>6 DEF RequestStates, NoRender, Render, TypeElsewhere, Counted
<1>6. ASSUME NEW r \in Requests, Proceed(r)
      PROVE  TypeElsewhere' /\ PicturesThere' /\ Counted'
  <2>1. request[r] \in RequestStates /\ redis[request[r].tile] \in Pictures \union {NoPicture}
    BY DEF TypeElsewhere, RequestStates
  <2>2. PICK q \in RequestStates :
          /\ request' = [request EXCEPT ![r] = q]
          /\ q.step \in {"promote", "store"} => q.picture \in Pictures
    <3>1. CASE Found(r)
      <4> DEFINE q == [request[r] EXCEPT !.step = "promote", !.picture = redis[request[r].tile]]
      <4>1. request' = [request EXCEPT ![r] = q]
        BY <3>1, <2>1 DEF Found, TypeElsewhere
      <4>2. q \in RequestStates /\ q.picture \in Pictures
        BY <3>1, <2>1 DEF Found, RequestStates, Steps
      <4> QED BY <4>1, <4>2
    <3>2. CASE Promote(r) \/ Store(r)
      BY <3>2, IdleTyped DEF Promote, Store, RequestStates, Idle
    <3>3. CASE Join(r)
      <4> DEFINE q == [request[r] EXCEPT !.step = "wait"]
      <4>1. request' = [request EXCEPT ![r] = q]
        BY <3>3, <2>1 DEF Join, TypeElsewhere
      <4>2. q \in RequestStates /\ q.step = "wait"
        BY <2>1 DEF RequestStates, Steps
      <4> QED BY <4>1, <4>2
    <3> QED BY <1>6, <3>1, <3>2, <3>3 DEF Proceed
  <2>3. request' \in [Requests -> RequestStates]
    BY <2>2 DEF TypeElsewhere, RequestStates
  <2>4. UNCHANGED <<edits, news, sweeps, stray>>
    BY <1>6 DEF Proceed, Found, Promote, Join, Store
  <2>5. redis' \in [Tiles -> Pictures \union {NoPicture}]
    BY <1>6, <2>1 DEF Proceed, Found, Promote, Join, Store, TypeElsewhere, RequestStates
  <2>6. \/ render' = render
        \/ render' = [render EXCEPT ![request[r].tile] = Render("asked", NoPicture)]
    <3>1. CASE Join(r)
      <4>1. render' = [render EXCEPT ![request[r].tile] =
                          IF render[request[r].tile] = NoRender THEN Render("asked", NoPicture)
                          ELSE render[request[r].tile]]
        BY <3>1 DEF Join
      <4> QED BY <4>1 DEF TypeElsewhere
    <3> QED BY <1>6, <3>1 DEF Proceed, Found, Promote, Store
  <2>7. /\ render' \in [Tiles -> [step : {"none", "asked", "drawn"}, picture : Pictures \union {NoPicture}]]
        /\ \A t \in Tiles : render'[t].step = "drawn" => render'[t].picture \in Pictures
    <3> DEFINE asked == Render("asked", NoPicture)
    <3>1. /\ asked \in [step : {"none", "asked", "drawn"}, picture : Pictures \union {NoPicture}]
          /\ asked.step = "asked"
      BY DEF Render
    <3>2. CASE render' = render
      BY <3>2 DEF TypeElsewhere, PicturesThere
    <3>3. CASE render' = [render EXCEPT ![request[r].tile] = asked]
      <4> HIDE DEF asked
      <4>1. render' \in [Tiles -> [step : {"none", "asked", "drawn"}, picture : Pictures \union {NoPicture}]]
        BY <3>1, <3>3 DEF TypeElsewhere
      <4>2. \A t \in Tiles : render'[t] = render[t] \/ render'[t] = asked
        BY <3>3 DEF TypeElsewhere
      <4> QED BY <3>1, <4>1, <4>2 DEF PicturesThere
    <3> QED BY <2>6, <3>2, <3>3
  <2>8. PicturesThere'
    BY <2>2, <2>7 DEF PicturesThere, TypeElsewhere
  <2> QED BY <2>3, <2>4, <2>5, <2>7, <2>8 DEF RequestStates, TypeElsewhere, Counted
<1>7. ASSUME NEW l \in Layers, Edit(l) \/ Hear(l)
      PROVE  TypeElsewhere' /\ PicturesThere' /\ Counted'
  <2>1. CASE Hear(l)
    BY <2>1 DEF Hear, LayerIdFor, edits, TypeElsewhere, PicturesThere, Counted
  <2>2. CASE Edit(l)
    <3>1. /\ changes \in 0 .. MaxChanges /\ changes < MaxChanges /\ changes' = changes + 1
          /\ data \in [Layers -> 0 .. MaxChanges] /\ \A k \in Layers : data[k] <= changes
          /\ style <= changes /\ style \in 0 .. MaxChanges
      BY <2>2 DEF Edit, CountChange, TypeElsewhere, Counted
    <3>2. data' = [data EXCEPT ![l] = data[l] + 1] /\ UNCHANGED <<style, redis, sweeps, render, request>>
      BY <2>2 DEF Edit
    <3>3. \A k \in Layers : data'[k] = IF k = l THEN data[k] + 1 ELSE data[k]
      BY <3>1, <3>2
    <3>4. Counted' /\ data' \in [Layers -> 0 .. MaxChanges] /\ changes' \in 0 .. MaxChanges
      BY <3>1, <3>2, <3>3 DEF Counted
    <3> QED BY <2>2, <3>2, <3>4 DEF Edit, TypeElsewhere, PicturesThere
  <2> QED BY <1>7, <2>1, <2>2
<1>8. ASSUME Flush
      PROVE  TypeElsewhere' /\ PicturesThere' /\ Counted'
  BY <1>8 DEF Flush, TypeElsewhere, PicturesThere, Counted
<1>9. ASSUME NEW l \in Layers, NEW n \in Spellings(l), Sweep(n)
      PROVE  TypeElsewhere' /\ PicturesThere' /\ Counted'
  BY <1>9 DEF Sweep, TypeElsewhere, PicturesThere, Counted
<1>10. ASSUME Drop \/ Reconnect
       PROVE  TypeElsewhere' /\ PicturesThere' /\ Counted'
  BY <1>10 DEF Drop, Reconnect, TypeElsewhere, PicturesThere, Counted
<1>11. ASSUME SaveProject
       PROVE  TypeElsewhere' /\ PicturesThere' /\ Counted'
  BY <1>11 DEF SaveProject, CountChange, TypeElsewhere, PicturesThere, Counted
<1>12. ASSUME StyleChange
       PROVE  TypeElsewhere' /\ PicturesThere' /\ Counted'
  BY <1>12 DEF StyleChange, TypeElsewhere, PicturesThere, Counted
<1>13. ASSUME Restart
       PROVE  TypeElsewhere' /\ PicturesThere' /\ Counted'
  BY <1>13, IdleTyped DEF Restart, RequestStates, NoRender, Render, Idle, TypeElsewhere, PicturesThere, Counted
<1>14. ASSUME UNCHANGED vars
       PROVE  TypeElsewhere' /\ PicturesThere' /\ Counted'
  BY <1>14 DEF vars, TypeElsewhere, PicturesThere, Counted
<1> QED BY <1>2, <1>3, <1>4, <1>5, <1>6, <1>7, <1>8, <1>9, <1>10, <1>11, <1>12, <1>13, <1>14
        DEF Next, Rendering
\* The books balance after every step, and what arrives was on its way.
LEMMA CacheStep ==
  ASSUME IInv, [Next]_vars
  PROVE  /\ CacheInv'
         /\ NoneArrives \/ \E t \in Tiles, p \in Pictures : Arrives(t, p) /\ Elsewhere(t, p)
<1>1. TypeOK /\ CacheInv /\ PicturesThere
  BY DEF IInv
<1> USE <1>1
<1>2. ASSUME NEW t \in Tiles, Hit(t)
      PROVE  CacheInv' /\ NoneArrives
  BY <1>2, TouchSound DEF Hit, Hits
<1>3. ASSUME NEW t \in Tiles, NEW r \in Requests, Ask(r, t)
      PROVE  CacheInv' /\ NoneArrives
  BY <1>3, DropL1Sound DEF Ask
<1>4. ASSUME NEW t \in Tiles, Age(t)
      PROVE  CacheInv' /\ NoneArrives
  BY <1>4, AgeSound
<1>5. ASSUME NEW r \in Requests, Promote(r)
      PROVE  CacheInv' /\ \E t \in Tiles, p \in Pictures : Arrives(t, p) /\ Elsewhere(t, p)
  <2>1. request[r].tile \in Tiles /\ request[r].picture \in Pictures
    BY <1>5 DEF Promote, PicturesThere, TypeOK
  <2>2. SetL1(request[r].tile, request[r].picture)
    BY <1>5 DEF Promote
  <2>3. Elsewhere(request[r].tile, request[r].picture)
    BY <1>5 DEF Promote, Elsewhere
  <2> QED BY <2>1, <2>2, <2>3, SetL1Sound
<1>6. ASSUME NEW t \in Tiles, RenderEnds(t)
      PROVE  CacheInv' /\ \E u \in Tiles, p \in Pictures : Arrives(u, p) /\ Elsewhere(u, p)
  <2>1. render[t].picture \in Pictures /\ Elsewhere(t, render[t].picture)
    BY <1>6 DEF RenderEnds, PicturesThere, Elsewhere
  <2>2. SetL1(t, render[t].picture)
    BY <1>6 DEF RenderEnds
  <2> QED BY <2>1, <2>2, SetL1Sound
<1>7. ASSUME Flush
      PROVE  CacheInv' /\ NoneArrives
  BY <1>7, DropL1Sound DEF Flush
<1>8. ASSUME StyleChange \/ Restart
      PROVE  CacheInv' /\ NoneArrives
  <2>1. map' = Empty /\ older' = {} /\ totalBytes' = 0
    BY <1>8 DEF StyleChange, Restart
  <2>2. L1' = Cache(Empty, {}, 0)
    BY <2>1 DEF L1
  <2>3. CacheInv'
    BY <2>2, EmptySound DEF CacheInv, CacheOK, Fits
  <2> QED BY <2>1, <2>3 DEF NoneArrives, Empty
<1>9. ASSUME UNCHANGED l1
      PROVE  CacheInv' /\ NoneArrives
  <2>1. UNCHANGED <<map, older, totalBytes>>
    BY <1>9 DEF l1
  <2> QED BY <2>1 DEF NoneArrives, Stays, Entries, CacheInv, CacheOK, Fits, L1, Cache
<1>10. ASSUME NEW r \in Requests, Found(r) \/ Join(r) \/ Store(r)
       PROVE  UNCHANGED l1
  BY <1>10 DEF Found, Join, Store
<1>11. ASSUME NEW t \in Tiles, Draw(t) \/ RenderFails(t) \/ Expire(t)
       PROVE  UNCHANGED l1
  BY <1>11 DEF Draw, RenderFails, Expire
<1>12. ASSUME NEW l \in Layers, Edit(l) \/ Hear(l) \/ \E n \in Spellings(l) : Sweep(n)
       PROVE  UNCHANGED l1
  BY <1>12 DEF Edit, Hear, Sweep
<1>13. ASSUME Drop \/ Reconnect \/ SaveProject \/ UNCHANGED vars
       PROVE  UNCHANGED l1
  BY <1>13 DEF Drop, Reconnect, SaveProject, vars
<1> QED BY <1>2, <1>3, <1>4, <1>5, <1>6, <1>7, <1>8, <1>9, <1>10, <1>11, <1>12, <1>13
        DEF Next, Proceed, Rendering

-----------------------------------------------------------------------------
(* Where pictures come from *)

\* A picture is new only when it is drawn, and then it is of now.
LEMMA OnlyDrawn ==
  ASSUME IInv, [Next]_vars, NEW t \in Tiles, NEW p \in Pictures, Held(t, p)'
  PROVE  Held(t, p) \/ p = Now(t)
<1>1. TypeOK /\ PicturesThere
  BY DEF IInv
<1>2. CASE t \in DOMAIN map' /\ map'[t].picture = p
  <2>1. CASE NoneArrives
    BY <1>2, <2>1 DEF NoneArrives, Stays, Held, Elsewhere
  <2>2. CASE \E u \in Tiles, q \in Pictures : Arrives(u, q) /\ Elsewhere(u, q)
    BY <1>2, <2>2 DEF Arrives, Stays, Held, Elsewhere
  <2> QED BY <2>1, <2>2, CacheStep
<1>3. CASE redis'[t] = p
  <2>1. ASSUME NEW r \in Requests, Store(r)
        PROVE  Held(t, p)
    BY <1>1, <1>3, <2>1, PictureAssumption DEF Store, Held, Elsewhere, TypeOK
  <2>2. ASSUME NEW l \in Layers, NEW n \in Spellings(l), Sweep(n)
        PROVE  Held(t, p)
    <3>1. redis'[t] \in {redis[t], NoPicture}
      BY <2>2 DEF Sweep
    <3> QED BY <1>3, <3>1, PictureAssumption DEF Held, Elsewhere
  <2>3. ASSUME NEW u \in Tiles, Expire(u)
        PROVE  Held(t, p)
    <3>1. redis'[t] \in {redis[t], NoPicture}
      BY <1>1, <2>3 DEF Expire, TypeOK
    <3> QED BY <1>3, <3>1, PictureAssumption DEF Held, Elsewhere
  <2>4. CASE UNCHANGED redis
    BY <1>3, <2>4 DEF Held, Elsewhere
  <2>5. ASSUME NEW u \in Tiles, \/ Hit(u) \/ Age(u) \/ Rendering(u)
                                \/ \E r \in Requests : Ask(r, u)
        PROVE  UNCHANGED redis
    BY <2>5 DEF Hit, Age, Rendering, Draw, RenderEnds, RenderFails, Ask
  <2>6. ASSUME NEW r \in Requests, Found(r) \/ Promote(r) \/ Join(r)
        PROVE  UNCHANGED redis
    BY <2>6 DEF Found, Promote, Join
  <2>7. ASSUME \/ \E l \in Layers : Edit(l) \/ Hear(l)
               \/ Flush \/ Drop \/ Reconnect \/ SaveProject \/ StyleChange \/ Restart
               \/ UNCHANGED vars
        PROVE  UNCHANGED redis
    BY <2>7 DEF Edit, Hear, Flush, Drop, Reconnect, SaveProject, StyleChange, Restart, vars
  <2> QED BY <2>1, <2>2, <2>3, <2>4, <2>5, <2>6, <2>7 DEF Next, Proceed
<1>4. CASE render'[t].step = "drawn" /\ render'[t].picture = p
  <2>1. ASSUME NEW u \in Tiles, Draw(u)
        PROVE  Held(t, p) \/ p = Now(t)
    BY <1>1, <1>4, <2>1 DEF Draw, Render, Held, Elsewhere, TypeOK
  <2>2. ASSUME \A u \in Tiles : render'[u] = render[u] \/ render'[u].step # "drawn"
        PROVE  Held(t, p)
    BY <1>4, <2>2 DEF Held, Elsewhere
  <2>3. ASSUME NEW u \in Tiles, RenderEnds(u) \/ RenderFails(u)
        PROVE  \A v \in Tiles : render'[v] = render[v] \/ render'[v].step # "drawn"
    BY <1>1, <2>3 DEF RenderEnds, RenderFails, NoRender, Render, TypeOK
  <2>4. ASSUME NEW r \in Requests, Join(r)
        PROVE  \A v \in Tiles : render'[v] = render[v] \/ render'[v].step # "drawn"
    BY <1>1, <2>4 DEF Join, NoRender, Render, TypeOK
  <2>5. ASSUME Restart
        PROVE  \A v \in Tiles : render'[v] = render[v] \/ render'[v].step # "drawn"
    BY <2>5 DEF Restart, NoRender, Render
  <2>6. ASSUME NEW u \in Tiles, \/ Hit(u) \/ Age(u) \/ Expire(u)
                                \/ \E r \in Requests : Ask(r, u)
        PROVE  UNCHANGED render
    BY <2>6 DEF Hit, Age, Expire, Ask
  <2>7. ASSUME NEW r \in Requests, Found(r) \/ Promote(r) \/ Store(r)
        PROVE  UNCHANGED render
    BY <2>7 DEF Found, Promote, Store
  <2>8. ASSUME \/ \E l \in Layers : Edit(l) \/ Hear(l) \/ \E n \in Spellings(l) : Sweep(n)
               \/ Flush \/ Drop \/ Reconnect \/ SaveProject \/ StyleChange
               \/ UNCHANGED vars
        PROVE  UNCHANGED render
    BY <2>8 DEF Edit, Hear, Sweep, Flush, Drop, Reconnect, SaveProject, StyleChange, vars
  <2> QED BY <2>1, <2>2, <2>3, <2>4, <2>5, <2>6, <2>7, <2>8 DEF Next, Proceed, Rendering
<1>5. ASSUME NEW r \in Requests, request'[r].step \in {"promote", "store"},
             request'[r].tile = t, request'[r].picture = p
      PROVE  Held(t, p)
  <2>1. CASE request'[r] = request[r]
    BY <1>5, <2>1 DEF Held, Elsewhere
  <2>2. ASSUME NEW q \in Requests, Found(q) PROVE Held(t, p)
    <3>1. request'[r] = IF r = q THEN [[request[q] EXCEPT !.step = "promote"]
                                          EXCEPT !.picture = redis[request[q].tile]]
                        ELSE request[r]
      BY <1>1, <2>2 DEF Found, TypeOK
    <3>2. CASE r = q
      BY <1>1, <1>5, <3>1, <3>2 DEF Held, Elsewhere, TypeOK
    <3> QED BY <2>1, <3>1, <3>2
  <2>3. ASSUME NEW u \in Tiles, RenderEnds(u) PROVE Held(t, p)
    <3>1. request'[r] = request[r] \/ request'[r] = [step |-> "store", tile |-> u, picture |-> render[u].picture]
      BY <2>3 DEF RenderEnds
    <3>2. render[u].step = "drawn"
      BY <2>3 DEF RenderEnds
    <3> QED BY <1>5, <2>1, <3>1, <3>2 DEF Held, Elsewhere
  <2>4. ASSUME request'[r].step \notin {"promote", "store"} PROVE FALSE
    BY <1>5, <2>4
  <2>5. Idle.step = "idle"
    BY DEF Idle
  <2>6. ASSUME NEW q \in Requests, Join(q) PROVE request'[r] = request[r] \/ request'[r].step = "wait"
    BY <1>1, <2>6 DEF Join, TypeOK
  <2>7. ASSUME NEW q \in Requests, Promote(q) \/ Store(q)
        PROVE  request'[r] = request[r] \/ request'[r] = Idle
    BY <1>1, <2>7 DEF Promote, Store, TypeOK
  <2>8. ASSUME \/ \E u \in Tiles : RenderFails(u)
               \/ Restart
        PROVE  request'[r] = request[r] \/ request'[r] = Idle
    BY <2>8 DEF RenderFails, Restart
  <2>9. ASSUME NEW u \in Tiles, NEW q \in Requests, Ask(q, u)
        PROVE  request'[r] = request[r] \/ request'[r].step = "look"
    BY <1>1, <2>9 DEF Ask, TypeOK
  <2>10. ASSUME NEW u \in Tiles, Hit(u) \/ Age(u) \/ Expire(u) \/ Draw(u)
         PROVE  request'[r] = request[r]
    BY <2>10 DEF Hit, Age, Expire, Draw
  <2>11. ASSUME \/ \E l \in Layers : Edit(l) \/ Hear(l) \/ \E n \in Spellings(l) : Sweep(n)
                \/ Flush \/ Drop \/ Reconnect \/ SaveProject \/ StyleChange
                \/ UNCHANGED vars
         PROVE  request'[r] = request[r]
    BY <2>11 DEF Edit, Hear, Sweep, Flush, Drop, Reconnect, SaveProject, StyleChange, vars
  <2> QED BY <2>1, <2>2, <2>3, <2>4, <2>5, <2>6, <2>7, <2>8, <2>9, <2>10, <2>11
          DEF Next, Proceed, Rendering
<1> QED BY <1>2, <1>3, <1>4, <1>5 DEF Held, Elsewhere
\* The excuses outlive every step.
LEMMA ExcusedStep ==
  ASSUME IInv, [Next]_vars
  PROVE  AllExcused'
<1>1. TypeOK /\ PicturesThere /\ AllExcused
  BY DEF IInv
<1> SUFFICES ASSUME NEW t \in Tiles, NEW p \in Pictures, Held(t, p)'
             PROVE  /\ Excused(t, p)'
                    /\ p[1] <= data'[Draws[t]] /\ p[2] <= style'
  BY DEF AllExcused
<1> DEFINE l == Draws[t]
<1>2. l \in Layers /\ (Unreached(t) \/ t \in TilesOf(l))
  BY DrawsTyped
<1>3. /\ p[1] \in Int /\ p[2] \in Int /\ p = <<p[1], p[2]>>
      /\ data \in [Layers -> Int] /\ style \in Int
  BY <1>1 DEF Pictures, TypeOK
<1>4. Excused(t, p) /\ p[1] <= data[l] /\ p[2] <= style
  <2>1. CASE Held(t, p)
    BY <1>1, <2>1 DEF AllExcused
  <2>2. CASE p = Now(t)
    BY <1>2, <1>3, <2>2 DEF Excused, Now
  <2> QED BY <2>1, <2>2, OnlyDrawn
<1> HIDE DEF l
<1>5. Excused(t, p) <=>
        /\ p[1] = data[l] \/ l \in posted \union pending \union missed \/ Unreached(t) \/ t \in stray
        /\ p[2] = style \/ saved \/ t \in stray
  BY DEF Excused, l
<1>6. Excused(t, p)' <=>
        /\ \/ p[1] = data'[l] \/ l \in posted' \union pending' \union missed'
           \/ Unreached(t) \/ t \in stray'
        /\ p[2] = style' \/ saved' \/ t \in stray'
  BY DEF Excused, Unreached, l
<1>7. CASE UNCHANGED <<data, style, saved, posted, pending, missed, stray>>
  BY <1>4, <1>5, <1>6, <1>7 DEF l
<1>8. ASSUME NEW k \in Layers, Edit(k)
      PROVE  Excused(t, p)' /\ p[1] <= data'[l] /\ p[2] <= style'
  <2>1. /\ data' = [data EXCEPT ![k] = data[k] + 1]
        /\ UNCHANGED <<style, saved, pending, stray>>
        /\ posted \subseteq posted' /\ missed \subseteq missed'
        /\ k \in posted' \union missed'
    BY <1>8 DEF Edit
  <2>2. CASE k = l
    BY <1>2, <1>3, <1>4, <1>5, <1>6, <2>1, <2>2
  <2>3. CASE k # l
    BY <1>2, <1>3, <1>4, <1>5, <1>6, <2>1, <2>3
  <2> QED BY <2>2, <2>3
<1>9. ASSUME NEW k \in Layers, Hear(k)
      PROVE  Excused(t, p)' /\ p[1] <= data'[l] /\ p[2] <= style'
  BY <1>4, <1>5, <1>6, <1>9 DEF Hear, LayerIdFor, edits
<1>10. ASSUME Drop
       PROVE  Excused(t, p)' /\ p[1] <= data'[l] /\ p[2] <= style'
  BY <1>4, <1>5, <1>6, <1>10 DEF Drop, edits
<1>11. ASSUME SaveProject
       PROVE  Excused(t, p)' /\ p[1] <= data'[l] /\ p[2] <= style'
  <2>1. style' = style + 1 /\ saved' = TRUE /\ UNCHANGED <<data, stray, posted, pending, missed>>
    BY <1>11 DEF SaveProject, news
  <2> QED BY <1>3, <1>4, <1>5, <1>6, <2>1
\* A picture outside the cache when it is flushed is marked.
<1>12. ASSUME UNCHANGED <<redis, render, request>>, t \notin DOMAIN map'
       PROVE  Outside(t)
  BY <1>12, PictureAssumption DEF Held, Elsewhere, Outside
<1>13. ASSUME Flush
       PROVE  Excused(t, p)' /\ p[1] <= data'[l] /\ p[2] <= style'
  <2>1. /\ UNCHANGED <<data, style, saved, posted, redis, render, request>>
        /\ pending' = {} /\ missed' = missed \ pending
        /\ stray' = stray \union {u \in Tiles : Outside(u) /\ Draws[u] \in pending}
        /\ DropL1(UNION {TilesOf(k) : k \in pending})
    BY <1>13 DEF Flush, edits
  <2>2. CASE l \in pending /\ ~Unreached(t)
    <3>1. DOMAIN map' = DOMAIN map \ UNION {TilesOf(k) : k \in pending}
      BY <2>1, DropL1Sound DEF IInv
    <3>2. t \notin DOMAIN map'
      BY <1>2, <2>2, <3>1
    <3>3. t \in stray'
      BY <1>12, <2>1, <2>2, <3>2 DEF l
    <3> QED BY <1>4, <1>6, <2>1, <3>3
  <2>3. CASE l \notin pending
    BY <1>4, <1>5, <1>6, <2>1, <2>3
  <2>4. CASE Unreached(t)
    BY <1>4, <1>5, <1>6, <2>1, <2>4
  <2> QED BY <2>2, <2>3, <2>4
<1>14. ASSUME StyleChange
       PROVE  Excused(t, p)' /\ p[1] <= data'[l] /\ p[2] <= style'
  <2>1. /\ UNCHANGED <<data, style, redis, render, request>>
        /\ map' = Empty
        /\ stray' = stray \union {u \in Tiles : Outside(u)}
    BY <1>14 DEF StyleChange
  <2>2. t \notin DOMAIN map'
    BY <2>1 DEF Empty
  <2>3. t \in stray'
    BY <1>12, <2>1, <2>2
  <2> QED BY <1>4, <1>6, <2>1, <2>3
<1>15. ASSUME Restart
       PROVE  Excused(t, p)' /\ p[1] <= data'[l] /\ p[2] <= style'
  <2>1. /\ UNCHANGED <<data, style, redis>>
        /\ map' = Empty
        /\ render' = [u \in Tiles |-> NoRender]
        /\ request' = [r \in Requests |-> Idle]
        /\ stray' = {u \in Tiles : redis[u] # NoPicture}
    BY <1>15 DEF Restart
  <2>2. redis[t] = p
    BY <2>1 DEF Held, Elsewhere, Empty, NoRender, Render, Idle
  <2>3. t \in stray'
    BY <2>1, <2>2, PictureAssumption
  <2> QED BY <1>4, <1>6, <2>1, <2>3
<1>16. ASSUME NEW u \in Tiles, \/ Hit(u) \/ Age(u) \/ Expire(u) \/ Rendering(u)
                               \/ \E r \in Requests : Ask(r, u)
       PROVE  UNCHANGED <<data, style, saved, posted, pending, missed, stray>>
  BY <1>16 DEF Hit, Age, Expire, Rendering, Draw, RenderEnds, RenderFails, Ask, edits, news
<1>17. ASSUME NEW r \in Requests, Proceed(r)
       PROVE  UNCHANGED <<data, style, saved, posted, pending, missed, stray>>
  BY <1>17 DEF Proceed, Found, Promote, Join, Store, edits, news
<1>18. ASSUME \/ \E k \in Layers : \E n \in Spellings(k) : Sweep(n)
              \/ Reconnect \/ UNCHANGED vars
       PROVE  UNCHANGED <<data, style, saved, posted, pending, missed, stray>>
  BY <1>18 DEF Sweep, Reconnect, vars, edits, news
<1> QED BY <1>4, <1>7, <1>8, <1>9, <1>10, <1>11, <1>13, <1>14, <1>15, <1>16, <1>17, <1>18
        DEF Next, l
-----------------------------------------------------------------------------
(* Theorems *)

LEMMA NextInv == IInv /\ [Next]_vars => IInv'
<1> SUFFICES ASSUME IInv, [Next]_vars PROVE IInv'
  OBVIOUS
<1>1. TypeElsewhere' /\ PicturesThere' /\ Counted'
  BY TypeStep
<1>2. CacheInv'
  BY CacheStep
<1>3. TypeOK'
  <2>1. totalBytes' \in Nat
    <3>1. /\ DOMAIN map' \in SUBSET Tiles /\ IsFiniteSet(DOMAIN map')
          /\ totalBytes' = TotalOf(DOMAIN map')
      BY <1>2 DEF CacheInv, CacheOK, L1, Cache
    <3> QED BY <3>1, BytesFinite
  <2> QED BY <1>1, <1>2, <2>1 DEF TypeElsewhere, TypeOK, CacheInv, CacheOK, L1, Cache, Entries
<1>4. AllExcused'
  BY ExcusedStep
<1> QED BY <1>1, <1>2, <1>3, <1>4 DEF IInv

\* Always: the books are right, and a picture is excused wherever it is.
THEOREM Invariant == Spec => []IInv
<1> QED BY InitInv, NextInv, PTL DEF Spec

\* Variables keep their types: editions, pictures, entries, what a request waits for.
THEOREM Typed == Spec => []TypeOK
<1>1. IInv => TypeOK
  BY DEF IInv
<1> QED BY <1>1, Invariant, PTL

\* tileCache.js counts what it holds, and holds no more than it may, whatever sizes
\* the pictures have and however hits, evictions and flushes follow each other.
THEOREM BooksTheorem == Spec => []BooksBalance
<1>1. IInv => BooksBalance
  BY DEF IInv, CacheInv, CacheOK, Fits, L1, Cache, BooksBalance
<1> QED BY <1>1, Invariant, PTL

\* An old picture in the cache has one of the reasons StaleOnlyByStray names, for any
\* number of tiles, layers, requests, edits, lost connections and restarts.
THEOREM StaleTheorem == Spec => []StaleOnlyByStray
<1>1. IInv => StaleOnlyByStray
  <2> SUFFICES ASSUME IInv, NEW t \in DOMAIN map PROVE Excused(t, map[t].picture)
    BY DEF StaleOnlyByStray
  <2>1. t \in Tiles /\ map[t].picture \in Pictures
    BY DEF IInv, TypeOK
  <2> QED BY <2>1 DEF IInv, AllExcused, Held
<1> QED BY <1>1, Invariant, PTL

\* What stands behind StaleIsForgotten, its liveness apart.  A picture comes to be
\* only as of the present: no step brings back one that is old and gone.
NothingOldComesBack ==
    [][\A t \in Tiles, p \in Pictures : Held(t, p)' => Held(t, p) \/ p = Now(t)]_vars

THEOREM GoneForGood == Spec => NothingOldComesBack
<1>1. IInv /\ [Next]_vars
        => [\A t \in Tiles, p \in Pictures : Held(t, p)' => Held(t, p) \/ p = Now(t)]_vars
  BY OnlyDrawn
<1> QED BY <1>1, Invariant, PTL DEF Spec, NothingOldComesBack

\* And a picture that the cache alone holds grows no younger there, however often it
\* is asked for: its time to live runs from when it came.
OldOnlyAges ==
    [][\A t \in DOMAIN map :
         ~Elsewhere(t, map[t].picture) /\ t \in DOMAIN map' /\ map'[t].picture = map[t].picture
           => map'[t].age >= map[t].age]_vars

THEOREM AgeTheorem == Spec => OldOnlyAges
<1>1. IInv /\ [Next]_vars
        => [\A t \in DOMAIN map :
             ~Elsewhere(t, map[t].picture) /\ t \in DOMAIN map' /\ map'[t].picture = map[t].picture
               => map'[t].age >= map[t].age]_vars
  <2> SUFFICES ASSUME IInv, [Next]_vars, NEW t \in DOMAIN map,
                      ~Elsewhere(t, map[t].picture), t \in DOMAIN map',
                      map'[t].picture = map[t].picture
               PROVE  map'[t].age >= map[t].age
    OBVIOUS
  <2> QED BY CacheStep DEF NoneArrives, Arrives, Stays
<1> QED BY <1>1, Invariant, PTL DEF Spec, OldOnlyAges
=============================================================================
