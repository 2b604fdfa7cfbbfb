------------------------------ MODULE WmsTiles ------------------------------
(***************************************************************************)
(* The rendered map tiles of one server and how edits drop them: the two-  *)
(* tier cache src/src/lib/tileCache.js as wmsCache of routes/tiles.js, the *)
(* shared renders of routes/ogcServices.js, and the listener of            *)
(* services/spatialChangeListener.js.                                      *)
(*                                                                         *)
(* The server is one thread: a request runs from one await to the next.    *)
(* What it waits for - Redis, QGIS Server - answers while edits are made,  *)
(* heard of and flushed.                                                   *)
(*                                                                         *)
(* Not modelled: browsers and their ETags, the vector tiles (the same      *)
(* cache without shared renders), the handlers of stands.js that flush     *)
(* before the listener hears of their edit.  Redis may fail at any call;   *)
(* one that always fails is a server without Redis.                        *)
(***************************************************************************)
EXTENDS Integers, FiniteSets, Functions

CONSTANTS
    Tiles,         \* cache keys
    Layers,        \* tile-layer ids, what an edit is announced under
    Short,         \* layer -> its name without "vungu_"
    Draws,         \* tile -> the tile layer whose table it is a picture of
    Name,          \* tile -> the name QGIS publishes that under, and its keys bear
    Bytes,         \* tile -> length of its picture
    Requests,      \* requests that may be under way at one time
    MaxTiles,      \* wmsCache.maxTiles
    MaxBytes,      \* wmsCache.maxBytes
    MaxChanges,    \* bound: edits of layers, and times the QGIS project is saved
    NoPicture

Spellings(l) == {l, Short[l]}

ASSUME DrawsAssumption == Draws \in [Tiles -> Layers]
ASSUME TilesAssumption == Tiles # {}
ASSUME ChangesAssumption == MaxChanges \in Nat
ASSUME SizeAssumption == /\ Bytes \in [Tiles -> Nat \ {0}]
                         /\ MaxTiles \in Nat \ {0}
                         /\ MaxBytes \in Nat \ {0}

VARIABLES
    data,          \* layer -> edition of its table
    style,         \* edition of the QGIS project
    saved,         \* the project was saved and the watcher has yet to say so
    changes,       \* bound: edits and saves so far
    linked,        \* the LISTEN connection is up
    posted,        \* layers whose notice is on that connection
    pending,       \* listener.pending: layers heard of and not flushed
    map,           \* wmsCache.map: tile -> its entry
    older,         \* the order of wmsCache.map: pairs of tiles, the first inserted earlier
    totalBytes,    \* wmsCache.totalBytes
    redis,         \* tile -> its picture in Redis
    sweeps,        \* names whose keys are being deleted from Redis
    render,        \* wmsInFlight: tile -> its render
    request,       \* request -> what it is waiting for
    missed,        \* history: layers of which a notice was lost since their flush
    stray          \* history: tiles with a picture outside map when map was flushed

edits == <<data, style, saved, changes>>
news == <<linked, posted, pending, missed>>
l1 == <<map, older, totalBytes>>
vars == <<edits, news, l1, redis, sweeps, render, request, stray>>

\* A picture is the editions it was drawn from.
Pictures == (0 .. MaxChanges) \X (0 .. MaxChanges)
ASSUME PictureAssumption == NoPicture \notin Pictures
Now(t) == <<data[Draws[t]], style>>

\* An entry's age in halves of its time to live.
Lifetime == 2
Empty == [t \in {} |-> NoPicture]
Entry(picture) == [picture |-> picture, age |-> 0]

\* "look": Redis has been asked; "promote": it has answered with a picture;
\* "wait": for a render; "store": the picture is on its way to Redis.
Steps == {"idle", "look", "promote", "wait", "store"}
Render(step, picture) == [step |-> step, picture |-> picture]
NoRender == Render("none", NoPicture)
Idle == [step |-> "idle", tile |-> CHOOSE t \in Tiles : TRUE, picture |-> NoPicture]

TypeOK ==
    /\ data \in [Layers -> 0 .. MaxChanges]
    /\ style \in 0 .. MaxChanges
    /\ saved \in BOOLEAN /\ linked \in BOOLEAN
    /\ changes \in 0 .. MaxChanges
    /\ posted \subseteq Layers /\ pending \subseteq Layers /\ missed \subseteq Layers
    /\ DOMAIN map \subseteq Tiles
    /\ map \in [DOMAIN map -> [picture : Pictures, age : 0 .. Lifetime]]
    /\ older \subseteq (DOMAIN map) \X (DOMAIN map)
    /\ totalBytes \in Nat
    /\ redis \in [Tiles -> Pictures \union {NoPicture}]
    /\ sweeps \subseteq UNION {Spellings(l) : l \in Layers}
    /\ render \in [Tiles -> [step : {"none", "asked", "drawn"}, picture : Pictures \union {NoPicture}]]
    /\ request \in [Requests -> [step : Steps, tile : Tiles,
                                 picture : Pictures \union {NoPicture}]]
    /\ stray \subseteq Tiles

Init ==
    /\ data = [l \in Layers |-> 0] /\ style = 0 /\ saved = FALSE /\ changes = 0
    /\ linked = TRUE /\ posted = {} /\ pending = {} /\ missed = {}
    /\ map = Empty /\ older = {} /\ totalBytes = 0
    /\ redis = [t \in Tiles |-> NoPicture] /\ sweeps = {}
    /\ render = [t \in Tiles |-> NoRender]
    /\ request = [r \in Requests |-> Idle]
    /\ stray = {}

-----------------------------------------------------------------------------
(* wmsCache: entries in the order of their last use, and their bytes. *)

Cache(m, o, n) == [map |-> m, older |-> o, bytes |-> n]
L1 == Cache(map, older, totalBytes)

\* The bytes of the pictures of a set of tiles, each byte told from the others.
BytesOf(S) == UNION {{t} \X (1 .. Bytes[t]) : t \in S}
TotalOf(S) == Cardinality(BytesOf(S))

\* _evict() of each of a set of tiles.
Evict(c, S) == Cache(Restrict(c.map, DOMAIN c.map \ S),
                     {p \in c.older : p[1] \notin S /\ p[2] \notin S},
                     c.bytes - TotalOf(DOMAIN c.map \cap S))

\* What can go: some of the oldest entries.
Oldest(c) == {S \in SUBSET DOMAIN c.map : \A p \in c.older : p[2] \in S => p[1] \in S}

\* Their going makes room for n bytes more.
Roomy(c, S, n) ==
    /\ Cardinality(DOMAIN c.map \ S) < MaxTiles
    /\ c.bytes - TotalOf(S) + n <= MaxBytes \/ S = DOMAIN c.map

\* The fewest of the oldest go.
EvictFor(c, n) ==
    Evict(c, CHOOSE S \in Oldest(c) :
                /\ Roomy(c, S, n)
                /\ \A R \in Oldest(c) : R \subseteq S /\ Roomy(c, R, n) => R = S)

\* An entry that is replaced is taken off the books first.  Mutant: it is not.
OldStays(c, t) == [Evict(c, {t}) EXCEPT !.bytes = c.bytes]
OldOut(c, t) == Evict(c, {t})

\* The youngest entry is inserted last.
PutLast(c, t, e) ==
    LET rest == DOMAIN c.map \ {t} IN
    /\ map' = [u \in rest \union {t} |-> IF u = t THEN e ELSE c.map[u]]
    /\ older' = {p \in c.older : p[1] # t /\ p[2] # t} \union (rest \X {t})

\* _setL1()
SetL1(t, picture) ==
    LET c == EvictFor(OldOut(L1, t), Bytes[t]) IN
    /\ PutLast(c, t, Entry(picture))
    /\ totalBytes' = c.bytes + Bytes[t]

DropL1(S) ==
    LET c == Evict(L1, S) IN
    /\ map' = c.map
    /\ older' = c.older
    /\ totalBytes' = c.bytes

Expired(e) == e.age = Lifetime
Hits(t) == t \in DOMAIN map /\ ~Expired(map[t])

-----------------------------------------------------------------------------
(* GET /ogc/wms/map/:layerName *)

\* The LRU touch re-inserts the entry it found.  Mutant: as a new one.
Renewed(e) == [e EXCEPT !.age = 0]
Touched(e) == e

\* An L1 hit: the request is answered at once.
Hit(t) ==
    /\ Hits(t)
    /\ PutLast(L1, t, Touched(map[t]))
    /\ UNCHANGED <<edits, news, totalBytes, redis, sweeps, render, request, stray>>

\* A miss, or an entry past its time, which goes: Redis is asked.
Ask(r, t) ==
    /\ request[r].step = "idle"
    /\ ~Hits(t)
    /\ DropL1({t})
    /\ request' = [request EXCEPT ![r] = [step |-> "look", tile |-> t, picture |-> NoPicture]]
    /\ UNCHANGED <<edits, news, redis, sweeps, render, stray>>

\* Redis has it ...
Found(r) ==
    /\ request[r].step = "look"
    /\ redis[request[r].tile] # NoPicture
    /\ request' = [request EXCEPT ![r].step = "promote", ![r].picture = redis[request[r].tile]]
    /\ UNCHANGED <<edits, news, l1, redis, sweeps, render, stray>>

\* ... and its answer arrives: into L1, and to the browser.
Promote(r) ==
    /\ request[r].step = "promote"
    /\ SetL1(request[r].tile, request[r].picture)
    /\ request' = [request EXCEPT ![r] = Idle]
    /\ UNCHANGED <<edits, news, redis, sweeps, render, stray>>

\* Redis has nothing, or fails: the request joins the tile's render or begins it.
Join(r) ==
    LET t == request[r].tile IN
    /\ request[r].step = "look"
    /\ request' = [request EXCEPT ![r].step = "wait"]
    /\ render' = [render EXCEPT ![t] = IF @ = NoRender THEN Render("asked", NoPicture) ELSE @]
    /\ UNCHANGED <<edits, news, l1, redis, sweeps, stray>>

Waiting(t) == {r \in Requests : request[r].step = "wait" /\ request[r].tile = t}

\* QGIS Server reads the table and the project.
Draw(t) ==
    /\ render[t].step = "asked"
    /\ render' = [render EXCEPT ![t] = Render("drawn", Now(t))]
    /\ UNCHANGED <<edits, news, l1, redis, sweeps, request, stray>>

\* The picture arrives: the render is over, and all who wait put it in both tiers.
RenderEnds(t) ==
    /\ render[t].step = "drawn"
    /\ render' = [render EXCEPT ![t] = NoRender]
    /\ SetL1(t, render[t].picture)
    /\ request' = [r \in Requests |-> IF r \in Waiting(t)
                    THEN [step |-> "store", tile |-> t, picture |-> render[t].picture]
                    ELSE request[r]]
    /\ UNCHANGED <<edits, news, redis, sweeps, stray>>

\* An exception or the timeout: 503 for all who wait.
RenderFails(t) ==
    /\ render[t] # NoRender
    /\ render' = [render EXCEPT ![t] = NoRender]
    /\ request' = [r \in Requests |-> IF r \in Waiting(t) THEN Idle ELSE request[r]]
    /\ UNCHANGED <<edits, news, l1, redis, sweeps, stray>>

\* Redis takes the picture, or fails; the request is answered.
Store(r) ==
    /\ request[r].step = "store"
    /\ redis' \in {redis, [redis EXCEPT ![request[r].tile] = request[r].picture]}
    /\ request' = [request EXCEPT ![r] = Idle]
    /\ UNCHANGED <<edits, news, l1, sweeps, render, stray>>

-----------------------------------------------------------------------------
(* Edits, and the news of them. *)

CountChange ==
    /\ changes < MaxChanges
    /\ changes' = changes + 1

\* A write to the layer's table commits; its trigger notifies who listens.
Edit(l) ==
    /\ CountChange
    /\ data' = [data EXCEPT ![l] = @ + 1]
    /\ posted' = IF linked THEN posted \union {l} ELSE posted
    /\ missed' = IF linked THEN missed ELSE missed \union {l}
    /\ UNCHANGED <<style, saved, linked, pending, l1, redis, sweeps, render, request, stray>>

\* resolveLayerIdForTable(): the id of the layer that draws the table.  Mutant: the
\* table's own name, which the layer is published under.
Unmapped(l) == Short[l]
LayerIdFor(l) == l

\* _onNotification(): the notices of a burst are one entry.
Hear(l) ==
    /\ l \in posted
    /\ posted' = posted \ {l}
    /\ pending' = pending \union {LayerIdFor(l)}
    /\ UNCHANGED <<edits, linked, missed, l1, redis, sweeps, render, request, stray>>

\* The tiles invalidateTileLayer() drops: under both spellings of the layer.
\* Mutant: under the id alone.
Named(l) == {t \in Tiles : Name[t] = l}
TilesOf(l) == {t \in Tiles : Name[t] \in Spellings(l)}

\* Pictures of t that no flush of map reaches.
Outside(t) ==
    \/ redis[t] # NoPicture
    \/ render[t].step = "drawn"
    \/ \E r \in Requests : request[r].tile = t /\ request[r].step \in {"promote", "store"}

\* _flush(): the layers heard of go from L1 at once, from Redis in the background.
Flush ==
    LET gone == UNION {TilesOf(l) : l \in pending} IN
    /\ pending # {}
    /\ pending' = {}
    /\ DropL1(gone)
    /\ sweeps' = sweeps \union UNION {Spellings(l) : l \in pending}
    /\ missed' = missed \ pending
    /\ stray' = stray \union {t \in Tiles : Outside(t) /\ Draws[t] \in pending}
    /\ UNCHANGED <<edits, linked, posted, redis, render, request>>

\* _invalidateRedisLayer(): SCAN and DEL, or an error half way.
Sweep(n) ==
    /\ n \in sweeps
    /\ sweeps' = sweeps \ {n}
    /\ redis' \in {[t \in Tiles |-> IF t \in S THEN NoPicture ELSE redis[t]] :
                        S \in SUBSET {t \in Tiles : Name[t] = n}}
    /\ UNCHANGED <<edits, news, l1, render, request, stray>>

\* The connection drops, and what was on it is lost ...
Drop ==
    /\ linked
    /\ linked' = FALSE
    /\ posted' = {}
    /\ missed' = missed \union posted
    /\ UNCHANGED <<edits, pending, l1, redis, sweeps, render, request, stray>>

\* ... until _connect() succeeds again.
Reconnect ==
    /\ ~linked
    /\ linked' = TRUE
    /\ UNCHANGED <<edits, posted, pending, missed, l1, redis, sweeps, render, request, stray>>

\* The QGIS project is saved ...
SaveProject ==
    /\ CountChange
    /\ style' = style + 1
    /\ saved' = TRUE
    /\ UNCHANGED <<data, news, l1, redis, sweeps, render, request, stray>>

\* ... and the watcher calls emitStyleChange(): L1 is cleared, Redis is not.
StyleChange ==
    /\ saved
    /\ saved' = FALSE
    /\ map' = Empty /\ older' = {} /\ totalBytes' = 0
    /\ stray' = stray \union {t \in Tiles : Outside(t)}
    /\ UNCHANGED <<data, style, changes, news, redis, sweeps, render, request>>

\* The server restarts: what is left is Redis.
Restart ==
    /\ saved' = FALSE
    /\ linked' = TRUE /\ posted' = {} /\ pending' = {} /\ missed' = {}
    /\ map' = Empty /\ older' = {} /\ totalBytes' = 0
    /\ sweeps' = {}
    /\ render' = [t \in Tiles |-> NoRender]
    /\ request' = [r \in Requests |-> Idle]
    /\ stray' = {t \in Tiles : redis[t] # NoPicture}
    /\ UNCHANGED <<data, style, changes, redis>>

\* Time passes for an entry of L1, and runs out for one of Redis.
Age(t) ==
    /\ Hits(t)
    /\ map' = [map EXCEPT ![t].age = @ + 1]
    /\ UNCHANGED <<edits, news, older, totalBytes, redis, sweeps, render, request, stray>>

Expire(t) ==
    /\ redis[t] # NoPicture
    /\ redis' = [redis EXCEPT ![t] = NoPicture]
    /\ UNCHANGED <<edits, news, l1, sweeps, render, request, stray>>

-----------------------------------------------------------------------------
Proceed(r) == Found(r) \/ Promote(r) \/ Join(r) \/ Store(r)
Rendering(t) == Draw(t) \/ RenderEnds(t) \/ RenderFails(t)

Next ==
    \/ \E t \in Tiles : \/ Hit(t)
                        \/ \E r \in Requests : Ask(r, t)
                        \/ Rendering(t)
                        \/ Age(t)
                        \/ Expire(t)
    \/ \E r \in Requests : Proceed(r)
    \/ \E l \in Layers : Edit(l) \/ Hear(l)
    \/ Flush
    \/ \E l \in Layers : \E n \in Spellings(l) : Sweep(n)
    \/ Drop \/ Reconnect
    \/ SaveProject \/ StyleChange
    \/ Restart

\* Time passes, for what is kept in either tier.  Nothing is assumed of the
\* listener and its connection, of the sweeps of Redis, of requests or of QGIS.
Spec ==
    /\ Init /\ [][Next]_vars
    /\ \A t \in Tiles : WF_vars(Age(t)) /\ WF_vars(Expire(t))

-----------------------------------------------------------------------------
(* Properties *)

\* The cache's own count is that of its entries, and it stays within both limits
\* (a picture larger than the limit is kept alone): through hits, replacements,
\* evictions, flushes and pictures that arrive twice.
BooksBalance ==
    /\ totalBytes = TotalOf(DOMAIN map)
    /\ Cardinality(DOMAIN map) <= MaxTiles
    /\ totalBytes <= MaxBytes \/ Cardinality(DOMAIN map) = 1

\* The flush of the layer does not know the tile: the project publishes
\* vungu_beyond_peri_urban_zones as gweru_beyond_periurban_zones.
Unreached(t) == Name[t] \notin Spellings(Draws[t])

\* A picture of t from before an edit of its layer: the news is under way, it was lost,
\* or it was of no use to this tile.  From before a change of style: the watcher has
\* yet to say so.  From before either: at the flush the tile had a picture elsewhere.
Excused(t, picture) ==
    /\ \/ picture[1] = data[Draws[t]]
       \/ Draws[t] \in posted \union pending \union missed
       \/ Unreached(t)
       \/ t \in stray
    /\ picture[2] = style \/ saved \/ t \in stray

\* tiles.js:32-33 in the form that holds: L1 keeps a picture from before an edit or a
\* change of style only for one of these reasons.
StaleOnlyByStray == \A t \in DOMAIN map : Excused(t, map[t].picture)

\* Whatever was lost or crossed a flush, once edits cease only pictures that show
\* them all are served: an old one has its time in L1 and in Redis, however often
\* it is asked for and promoted.
AllFresh ==
    /\ \A t \in DOMAIN map : Expired(map[t]) \/ map[t].picture = Now(t)
    /\ \A t \in Tiles : redis[t] \in {NoPicture, Now(t)}
StaleIsForgotten == <>[]AllFresh
=============================================================================
