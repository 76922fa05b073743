------------------------ MODULE SpvLightClientProofs ------------------------
(***************************************************************************)
(* Theorems about SpvLightClient: whatever headers, windows, pins and      *)
(* claims there are, the store stays one chain up to the tip, and history  *)
(* is only extended.  Both are shown of a client that is not started       *)
(* again, as the deployed one is not.  Every operation is shown to keep a  *)
(* client sound and to extend it wherever it throws, which covers inputs   *)
(* that are rejected half-way and not reverted.                            *)
(***************************************************************************)
EXTENDS SpvLightClient, SumTheorems

Previous == { h.prev : h \in Headers }
Entries  == [hash : Hashes, prev : Previous]
Stores   == UNION { [heights -> Entries] : heights \in SUBSET Nat }

Clients ==
  [bootstrapped : BOOLEAN, checkpointHeight : Nat,
   checkpointHash : Hashes \cup {NoHash}, bestHeight : Nat,
   bestHash : Hashes \cup {NoHash}, pin : Pins \cup {NoPin}, byHeight : Stores]

Results == [lc : Clients, ok : BOOLEAN]

(* TipWindow and TipIsChain of any client.                                 *)
WindowOf(c) ==
  { n \in c.checkpointHeight .. c.bestHeight : n + MaxHeaders > c.bestHeight }

Chained(c) ==
  /\ WindowOf(c) \cup {c.checkpointHeight} \subseteq DOMAIN c.byHeight
  /\ DOMAIN c.byHeight \subseteq c.checkpointHeight .. c.bestHeight
  /\ c.byHeight[c.checkpointHeight].hash = c.checkpointHash
  /\ c.byHeight[c.bestHeight].hash = c.bestHash
  /\ \A n \in WindowOf(c) : n - 1 \in WindowOf(c) =>
       c.byHeight[n].prev = c.byHeight[n - 1].hash

(* What every operation keeps: a client that has not started has no        *)
(* headers, one that has is a chain.                                       *)
Sound(c) ==
  /\ c \in Clients
  /\ ~c.bootstrapped => DOMAIN c.byHeight = {}
  /\ c.bootstrapped => Chained(c)

(* d is c with its history unchanged, and perhaps more of it.              *)
Extends(c, d) ==
  c.bootstrapped =>
    /\ d.bootstrapped
    /\ d.checkpointHeight = c.checkpointHeight
    /\ d.checkpointHash = c.checkpointHash
    /\ d.bestHeight >= c.bestHeight
    /\ \A n \in WindowOf(c) \cap WindowOf(d) :
         d.byHeight[n].hash = c.byHeight[n].hash

(* What an operation on c must leave, whether it throws or not.            *)
Keeps(c, result) ==
  result \in Results /\ Sound(result.lc) /\ Extends(c, result.lc)

-----------------------------------------------------------------------------
(* Stores and clients.                                                     *)

LEMMA StoreFacts ==
  ASSUME NEW s \in Stores
  PROVE  /\ DOMAIN s \subseteq Nat
         /\ \A n \in DOMAIN s : s[n] \in Entries
<1>1. PICK heights \in SUBSET Nat : s \in [heights -> Entries]
  BY DEF Stores
<1>. QED  BY <1>1

LEMMA HeaderFacts ==
  ASSUME NEW h \in Headers
  PROVE  /\ h.height \in Nat /\ h.height > 0
         /\ h.hash \in Hashes /\ [hash |-> h.hash, prev |-> h.prev] \in Entries
<1>1. h.height \in Nat /\ h.height > 0
  BY HeadersAssumption
<1>2. h.hash \in Hashes /\ h.prev \in Previous
  BY DEF Hashes, Previous
<1>. QED  BY <1>1, <1>2 DEF Entries

LEMMA ClientFacts ==
  ASSUME NEW c \in Clients
  PROVE  /\ c.bootstrapped \in BOOLEAN
         /\ c.checkpointHeight \in Nat /\ c.bestHeight \in Nat
         /\ c.checkpointHash \in Hashes \cup {NoHash}
         /\ c.bestHash \in Hashes \cup {NoHash}
         /\ c.pin \in Pins \cup {NoPin} /\ c.byHeight \in Stores
BY DEF Clients

LEMMA WithHeaderFacts ==
  ASSUME NEW s \in Stores, NEW h \in Headers
  PROVE  /\ WithHeader(s, h) \in Stores
         /\ DOMAIN WithHeader(s, h) = DOMAIN s \cup {h.height}
         /\ WithHeader(s, h)[h.height] = [hash |-> h.hash, prev |-> h.prev]
         /\ \A n \in DOMAIN s : n # h.height => WithHeader(s, h)[n] = s[n]
<1>. DEFINE D == DOMAIN s \cup {h.height}
            e == [hash |-> h.hash, prev |-> h.prev]
            t == [n \in D |-> IF n = h.height THEN e ELSE s[n]]
<1>1. D \in SUBSET Nat /\ e \in Entries /\ \A n \in DOMAIN s : s[n] \in Entries
  BY StoreFacts, HeaderFacts
<1>. HIDE DEF e
<1>2. t \in [D -> Entries]
  BY <1>1
<1>3. t \in Stores
  BY <1>1, <1>2 DEF Stores
<1>4. /\ DOMAIN t = D /\ t[h.height] = e
      /\ \A n \in DOMAIN s : n # h.height => t[n] = s[n]
  OBVIOUS
<1>5. WithHeader(s, h) = t
  BY DEF WithHeader, e
<1>. HIDE DEF t
<1>. QED  BY <1>3, <1>4, <1>5 DEF e

(* The tip of a chained client is in its window, and stored.               *)
LEMMA TipStored ==
  ASSUME NEW c, Sound(c), c.bootstrapped
  PROVE  /\ c.checkpointHeight <= c.bestHeight
         /\ c.bestHeight \in WindowOf(c) /\ WindowOf(c) \subseteq DOMAIN c.byHeight
         /\ c.bestHeight \in DOMAIN c.byHeight
<1>1. c.checkpointHeight \in Nat /\ c.bestHeight \in Nat
  BY ClientFacts DEF Sound
<1>2. /\ c.checkpointHeight \in c.checkpointHeight .. c.bestHeight
      /\ WindowOf(c) \subseteq DOMAIN c.byHeight
  BY DEF Sound, Chained
<1>3. c.bestHeight \in WindowOf(c)
  BY <1>1, <1>2, LimitsAssumption DEF WindowOf
<1>. QED  BY <1>1, <1>2, <1>3

(* Extending is transitive: the window only moves up.                      *)
LEMMA ExtendsTransitive ==
  ASSUME NEW c \in Clients, NEW d \in Clients, NEW e \in Clients,
         Extends(c, d), Extends(d, e)
  PROVE  Extends(c, e)
<1>. SUFFICES ASSUME c.bootstrapped PROVE Extends(c, e)
  BY DEF Extends
<1>1. /\ d.bootstrapped /\ e.bootstrapped
      /\ d.checkpointHeight = c.checkpointHeight
      /\ e.checkpointHeight = c.checkpointHeight
      /\ d.checkpointHash = c.checkpointHash /\ e.checkpointHash = c.checkpointHash
      /\ d.bestHeight >= c.bestHeight /\ e.bestHeight >= d.bestHeight
      /\ c.bestHeight \in Nat /\ d.bestHeight \in Nat /\ e.bestHeight \in Nat
      /\ c.checkpointHeight \in Nat
  BY ClientFacts DEF Extends
<1>2. e.bestHeight >= c.bestHeight
  BY <1>1
<1>3. ASSUME NEW n \in WindowOf(c) \cap WindowOf(e)
      PROVE  e.byHeight[n].hash = c.byHeight[n].hash
  <2>1. /\ n \in Nat /\ n >= c.checkpointHeight /\ n <= c.bestHeight
        /\ n + MaxHeaders > e.bestHeight
    BY <1>1, <1>3 DEF WindowOf
  <2>2. n \in WindowOf(d)
    BY <1>1, <2>1, LimitsAssumption DEF WindowOf
  <2>. QED  BY <1>1, <1>3, <2>2 DEF Extends
<1>. QED  BY <1>1, <1>2, <1>3 DEF Extends

LEMMA ExtendsItself == ASSUME NEW c \in Clients PROVE Extends(c, c)
BY ClientFacts DEF Extends

(* One operation after another.                                            *)
LEMMA KeepsTransitive ==
  ASSUME NEW c \in Clients, NEW d \in Clients, NEW result,
         Extends(c, d), Keeps(d, result)
  PROVE  Keeps(c, result)
<1>1. result.lc \in Clients
  BY DEF Keeps, Sound
<1>. QED  BY <1>1, ExtendsTransitive DEF Keeps

LEMMA ReturnsKeeps ==
  ASSUME NEW c \in Clients, NEW d, Sound(d), Extends(c, d)
  PROVE  Keeps(c, Returns(d)) /\ Keeps(c, Throws(d))
BY DEF Keeps, Returns, Throws, Sound, Results

-----------------------------------------------------------------------------
(* The operations on the store.                                            *)

LEMMA PutFacts ==
  ASSUME NEW c \in Clients, NEW h \in Headers
  PROVE  /\ Put(c, h) \in Clients
         /\ Put(c, h).byHeight = WithHeader(c.byHeight, h)
         /\ Put(c, h).bootstrapped = c.bootstrapped
         /\ Put(c, h).checkpointHeight = c.checkpointHeight
         /\ Put(c, h).checkpointHash = c.checkpointHash
         /\ h.height > c.bestHeight =>
              Put(c, h).bestHeight = h.height /\ Put(c, h).bestHash = h.hash
         /\ ~(h.height > c.bestHeight) =>
              /\ Put(c, h).bestHeight = c.bestHeight
              /\ Put(c, h).bestHash = c.bestHash
<1>. DEFINE store == WithHeader(c.byHeight, h)
<1>1. store \in Stores
  BY ClientFacts, WithHeaderFacts
<1>2. Put(c, h) = IF h.height > c.bestHeight
                  THEN [c EXCEPT !.byHeight = store, !.bestHeight = h.height,
                                 !.bestHash = h.hash]
                  ELSE [c EXCEPT !.byHeight = store]
  BY DEF Put, Clients
<1>. HIDE DEF store
<1>3. Put(c, h) \in Clients /\ Put(c, h).byHeight = store
  BY <1>1, <1>2, HeaderFacts DEF Clients
<1>. QED  BY <1>2, <1>3 DEF Clients, store

(* A header that is not stored, above a stored parent, is the next tip or  *)
(* one below the window.                                                   *)
LEMMA PutKeeps ==
  ASSUME NEW c, Sound(c), c.bootstrapped, NEW h \in Headers,
         ~Stored(c, h), ParentStored(c, h)
  PROVE  Keeps(c, Returns(Put(c, h)))
<1>. DEFINE d == Put(c, h)
            e == [hash |-> h.hash, prev |-> h.prev]
            cp == c.checkpointHeight
            best == c.bestHeight
            store == c.byHeight
<1>1. /\ c \in Clients /\ cp \in Nat /\ best \in Nat /\ h.height \in Nat
      /\ store \in Stores
  BY ClientFacts, HeaderFacts DEF Sound
<1>2. /\ WindowOf(c) \cup {cp} \subseteq DOMAIN store
      /\ DOMAIN store \subseteq cp .. best
      /\ store[cp].hash = c.checkpointHash /\ store[best].hash = c.bestHash
      /\ \A n \in WindowOf(c) : n - 1 \in WindowOf(c) =>
           store[n].prev = store[n - 1].hash
  BY DEF Sound, Chained
<1>3. /\ cp <= best /\ best \in WindowOf(c) /\ best \in DOMAIN store
  BY TipStored
<1>4. /\ h.height \notin DOMAIN store
      /\ h.height - 1 \in DOMAIN store
      /\ store[h.height - 1].hash = h.prev
  BY DEF Stored, ParentStored
<1>5. /\ h.height > cp /\ h.height <= best + 1
      /\ h.height # best /\ h.height # cp
  BY <1>1, <1>2, <1>3, <1>4
<1>6. /\ d \in Clients
      /\ d.byHeight = WithHeader(store, h)
      /\ d.bootstrapped /\ d.checkpointHeight = cp
      /\ d.checkpointHash = c.checkpointHash
      /\ h.height > best => d.bestHeight = h.height /\ d.bestHash = h.hash
      /\ ~(h.height > best) => d.bestHeight = best /\ d.bestHash = c.bestHash
  BY <1>1, PutFacts
<1>7. /\ DOMAIN d.byHeight = DOMAIN store \cup {h.height}
      /\ d.byHeight[h.height] = e
      /\ \A n \in DOMAIN store : n # h.height => d.byHeight[n] = store[n]
  <2>1. /\ DOMAIN WithHeader(c.byHeight, h) = DOMAIN c.byHeight \cup {h.height}
        /\ WithHeader(c.byHeight, h)[h.height] = [hash |-> h.hash, prev |-> h.prev]
        /\ \A n \in DOMAIN c.byHeight :
             n # h.height => WithHeader(c.byHeight, h)[n] = c.byHeight[n]
    BY <1>1, WithHeaderFacts
  <2>. QED  BY <1>6, <2>1
<1>8. e.hash = h.hash /\ e.prev = h.prev
  OBVIOUS
<1>. HIDE DEF d, e, cp, best, store
<1>9. /\ \A n \in DOMAIN store : d.byHeight[n] = store[n]
      /\ cp \in DOMAIN store /\ WindowOf(c) \subseteq DOMAIN store
  BY <1>2, <1>4, <1>7
<1>10. CASE h.height > best
  <2>1. h.height = best + 1 /\ d.bestHeight = best + 1 /\ d.bestHash = h.hash
    BY <1>1, <1>5, <1>6, <1>10
  <2>2. \A n \in WindowOf(d) : n # best + 1 => n \in WindowOf(c)
    BY <1>1, <1>6, <2>1, LimitsAssumption DEF WindowOf, cp, best
  <2>3. /\ WindowOf(d) \cup {cp} \subseteq DOMAIN d.byHeight
        /\ DOMAIN d.byHeight \subseteq cp .. best + 1
    <3>1. WindowOf(d) \cup {cp} \subseteq DOMAIN d.byHeight
      BY <1>7, <1>9, <2>1, <2>2
    <3>2. \A n \in DOMAIN d.byHeight : n \in cp .. best \/ n = best + 1
      BY <1>2, <1>7, <2>1
    <3>3. \A n \in cp .. best : n \in cp .. best + 1
      BY <1>1
    <3>4. best + 1 \in cp .. best + 1
      BY <1>1, <1>3
    <3>. QED  BY <3>1, <3>2, <3>3, <3>4
  <2>4. d.byHeight[cp].hash = c.checkpointHash /\ d.byHeight[best + 1].hash = d.bestHash
    BY <1>2, <1>7, <1>8, <1>9, <2>1
  <2>5. ASSUME NEW n \in WindowOf(d), n - 1 \in WindowOf(d)
        PROVE  d.byHeight[n].prev = d.byHeight[n - 1].hash
    <3>1. n \in Nat /\ n <= best + 1 /\ n - 1 # best + 1
      BY <1>1, <1>6, <2>1 DEF WindowOf, cp, best
    <3>2. n - 1 \in WindowOf(c)
      BY <2>2, <2>5, <3>1
    <3>3. d.byHeight[n - 1] = store[n - 1]
      BY <1>9, <3>2
    <3>4. CASE n = best + 1
      <4>1. n - 1 = best /\ n - 1 = h.height - 1
        BY <1>1, <2>1, <3>4
      <4>. QED  BY <1>4, <1>7, <1>8, <2>1, <3>3, <3>4, <4>1
    <3>5. CASE n # best + 1
      BY <1>2, <1>9, <2>2, <2>5, <3>2, <3>3, <3>5
    <3>. QED  BY <3>4, <3>5
  <2>6. Chained(d)
    BY <1>6, <2>1, <2>3, <2>4, <2>5 DEF Chained
  <2>7. Sound(d)
    BY <1>6, <2>6 DEF Sound
  <2>8. Extends(c, d)
    BY <1>1, <1>6, <1>9, <2>1 DEF Extends, cp, best, store
  <2>. QED  BY <1>1, <2>7, <2>8, ReturnsKeeps DEF d
<1>11. CASE ~(h.height > best)
  <2>1. d.bestHeight = best /\ d.bestHash = c.bestHash
    BY <1>6, <1>11
  <2>2. WindowOf(d) = WindowOf(c)
    BY <1>6, <2>1 DEF WindowOf, cp, best
  <2>3. /\ WindowOf(d) \cup {cp} \subseteq DOMAIN d.byHeight
        /\ DOMAIN d.byHeight \subseteq cp .. best
    BY <1>1, <1>2, <1>5, <1>7, <1>9, <1>11, <2>2
  <2>4. d.byHeight[cp].hash = c.checkpointHash /\ d.byHeight[best].hash = d.bestHash
    BY <1>2, <1>3, <1>9, <2>1
  <2>5. \A n \in WindowOf(d) : n - 1 \in WindowOf(d) =>
          d.byHeight[n].prev = d.byHeight[n - 1].hash
    BY <1>2, <1>9, <2>2
  <2>6. Chained(d)
    BY <1>6, <2>1, <2>3, <2>4, <2>5 DEF Chained
  <2>7. Sound(d)
    BY <1>6, <2>6 DEF Sound
  <2>8. Extends(c, d)
    BY <1>1, <1>6, <1>9, <2>1 DEF Extends, cp, best, store
  <2>. QED  BY <1>1, <2>7, <2>8, ReturnsKeeps DEF d
<1>. QED  BY <1>10, <1>11

LEMMA AppendOneKeeps ==
  ASSUME NEW c, Sound(c), c.bootstrapped, NEW h \in Headers, ~Stored(c, h)
  PROVE  Keeps(c, AppendOne(c, h))
<1>1. c \in Clients /\ c.bestHeight \in Nat /\ h.height \in Nat
  BY ClientFacts, HeaderFacts DEF Sound
<1>2. Keeps(c, Throws(c))
  BY <1>1, ReturnsKeeps, ExtendsItself
<1>3. ASSUME h.height = c.bestHeight + 1, h.prev = c.bestHash
      PROVE  ParentStored(c, h)
  <2>1. /\ c.bestHeight \in DOMAIN c.byHeight
        /\ c.byHeight[c.bestHeight].hash = c.bestHash
        /\ h.height - 1 = c.bestHeight
    BY <1>1, <1>3, TipStored DEF Sound, Chained
  <2>. QED  BY <1>3, <2>1 DEF ParentStored
<1>. QED  BY <1>2, <1>3, PutKeeps DEF AppendOne

LEMMA ApplyOneKeeps ==
  ASSUME NEW result \in Results, Sound(result.lc), result.lc.bootstrapped,
         NEW h \in Headers
  PROVE  Keeps(result.lc, ApplyOne(result, h))
<1>1. result.lc \in Clients
  BY DEF Sound
<1>2. Keeps(result.lc, result) /\ Keeps(result.lc, Throws(result.lc))
  BY <1>1, ReturnsKeeps, ExtendsItself DEF Keeps
<1>. QED  BY <1>2, AppendOneKeeps DEF ApplyOne

LEMMA AdoptBlockKeeps ==
  ASSUME NEW c, Sound(c), c.bootstrapped, NEW h \in Headers
  PROVE  Keeps(c, AdoptBlock(c, h))
<1>1. c \in Clients
  BY DEF Sound
<1>2. Keeps(c, Returns(c)) /\ Keeps(c, Throws(c))
  BY <1>1, ReturnsKeeps, ExtendsItself
<1>. QED  BY <1>2, PutKeeps DEF AdoptBlock

(* A pin changes nothing else.                                             *)
LEMMA RecordPinKeeps ==
  ASSUME NEW c, Sound(c), NEW pin \in Pins \cup {NoPin}
  PROVE  Keeps(c, RecordPin(c, pin))
<1>. DEFINE d == [c EXCEPT !.pin = pin]
<1>1. c \in Clients
  BY DEF Sound
<1>2. /\ d \in Clients /\ d.bootstrapped = c.bootstrapped
      /\ d.checkpointHeight = c.checkpointHeight
      /\ d.checkpointHash = c.checkpointHash
      /\ d.bestHeight = c.bestHeight /\ d.bestHash = c.bestHash
      /\ d.byHeight = c.byHeight
  BY <1>1 DEF Clients
<1>. HIDE DEF d
<1>3. WindowOf(d) = WindowOf(c)
  BY <1>2 DEF WindowOf
<1>4. Sound(d)
  BY <1>2, <1>3 DEF Sound, Chained
<1>5. Extends(c, d)
  BY <1>1, <1>2, ClientFacts DEF Extends
<1>6. Keeps(c, Returns(d)) /\ Keeps(c, Returns(c)) /\ Keeps(c, Throws(c))
  BY <1>1, <1>4, <1>5, ReturnsKeeps, ExtendsItself
<1>7. RecordPin(c, pin) \in {Returns(d), Returns(c), Throws(c)}
  BY DEF RecordPin, d
<1>. QED  BY <1>6, <1>7

(* Trimming leaves the checkpoint and the window.                          *)
LEMMA TrimKeeps ==
  ASSUME NEW c, Sound(c), c.bootstrapped
  PROVE  Keeps(c, Returns(Trim(c)))
<1>. DEFINE heights == DOMAIN c.byHeight
            Above(n) == { m \in heights : m > n }
            Kept == { n \in heights :
                        \/ n = c.checkpointHeight
                        \/ Cardinality(Above(n)) < MaxHeaders }
            store == [n \in Kept |-> c.byHeight[n]]
            d == [c EXCEPT !.byHeight = store]
<1>1. /\ c \in Clients /\ c.checkpointHeight \in Nat /\ c.bestHeight \in Nat
      /\ c.byHeight \in Stores /\ MaxHeaders \in Nat
  BY ClientFacts, LimitsAssumption DEF Sound
<1>2. Trim(c) = d
  BY DEF Trim, Restrict
<1>3. Chained(c) /\ heights \subseteq c.checkpointHeight .. c.bestHeight
  BY DEF Sound, Chained
<1>4. WindowOf(c) \cup {c.checkpointHeight} \subseteq Kept
  <2>1. WindowOf(c) \cup {c.checkpointHeight} \subseteq heights
    BY <1>3 DEF Chained
  <2>2. ASSUME NEW n \in WindowOf(c) PROVE Cardinality(Above(n)) < MaxHeaders
    <3>1. /\ n \in Nat /\ n <= c.bestHeight /\ n + MaxHeaders > c.bestHeight
      BY <1>1 DEF WindowOf
    <3>2. Above(n) \subseteq n + 1 .. c.bestHeight
      BY <1>1, <1>3, <3>1
    <3>3. /\ IsFiniteSet(n + 1 .. c.bestHeight)
          /\ Cardinality(n + 1 .. c.bestHeight) = c.bestHeight - n
      <4>1. /\ IsFiniteSet(n + 1 .. c.bestHeight)
            /\ Cardinality(n + 1 .. c.bestHeight) =
                 IF n + 1 > c.bestHeight THEN 0 ELSE c.bestHeight - (n + 1) + 1
        <5>1. n + 1 \in Int /\ c.bestHeight \in Int
          BY <1>1, <3>1
        <5>. QED  BY <5>1, FS_Interval
      <4>. QED  BY <1>1, <3>1, <4>1
    <3>. HIDE DEF Above
    <3>4. /\ Cardinality(Above(n)) <= c.bestHeight - n
          /\ Cardinality(Above(n)) \in Nat
      <4>1. IsFiniteSet(Above(n))
        BY <3>2, <3>3, FS_Subset
      <4>. QED  BY <3>2, <3>3, <4>1, FS_Subset, FS_CardinalityType
    <3>. QED  BY <1>1, <3>1, <3>4
  <2>. QED  BY <2>1, <2>2
<1>5. store \in Stores
  <2>1. Kept \in SUBSET Nat /\ store \in [Kept -> Entries]
    BY <1>1, StoreFacts
  <2>. HIDE DEF Kept, store
  <2>. QED  BY <2>1 DEF Stores
<1>6. /\ DOMAIN store = Kept /\ Kept \subseteq heights
      /\ \A n \in Kept : store[n] = c.byHeight[n]
  OBVIOUS
<1>. HIDE DEF store, Kept, heights
<1>7. /\ d \in Clients /\ d.bootstrapped
      /\ d.checkpointHeight = c.checkpointHeight
      /\ d.checkpointHash = c.checkpointHash
      /\ d.bestHeight = c.bestHeight /\ d.bestHash = c.bestHash
      /\ d.byHeight = store
  BY <1>1, <1>5 DEF Clients
<1>. HIDE DEF d
<1>8. WindowOf(d) = WindowOf(c) /\ c.bestHeight \in WindowOf(c)
  BY <1>7, TipStored DEF WindowOf
<1>9. /\ \A n \in WindowOf(c) : d.byHeight[n] = c.byHeight[n]
      /\ d.byHeight[c.checkpointHeight] = c.byHeight[c.checkpointHeight]
  BY <1>4, <1>6, <1>7
<1>10. Chained(d)
  <2>1. /\ WindowOf(d) \cup {d.checkpointHeight} \subseteq DOMAIN d.byHeight
        /\ DOMAIN d.byHeight \subseteq d.checkpointHeight .. d.bestHeight
    BY <1>3, <1>4, <1>6, <1>7, <1>8 DEF Chained
  <2>2. d.byHeight[d.checkpointHeight].hash = d.checkpointHash
    BY <1>3, <1>7, <1>9 DEF Chained
  <2>3. d.byHeight[d.bestHeight].hash = d.bestHash
    BY <1>3, <1>7, <1>8, <1>9 DEF Chained
  <2>4. ASSUME NEW n \in WindowOf(d), n - 1 \in WindowOf(d)
        PROVE  d.byHeight[n].prev = d.byHeight[n - 1].hash
    <3>1. /\ d.byHeight[n] = c.byHeight[n]
          /\ d.byHeight[n - 1] = c.byHeight[n - 1]
      BY <1>8, <1>9, <2>4
    <3>2. c.byHeight[n].prev = c.byHeight[n - 1].hash
      BY <1>3, <1>8, <2>4 DEF Chained
    <3>. QED  BY <3>1, <3>2
  <2>. QED  BY <2>1, <2>2, <2>3, <2>4 DEF Chained
<1>11. Sound(d)
  BY <1>7, <1>10 DEF Sound
<1>12. Extends(c, d)
  BY <1>1, <1>7, <1>8, <1>9 DEF Extends
<1>. QED  BY <1>1, <1>2, <1>11, <1>12, ReturnsKeeps

(* A client without headers starts at one, whatever it is sent with.       *)
LEMMA BootstrappedKeeps ==
  ASSUME NEW c, Sound(c), ~c.bootstrapped, NEW h \in Headers
  PROVE  /\ Keeps(c, Returns(Bootstrapped(c, h)))
         /\ Bootstrapped(c, h).bootstrapped
<1>. DEFINE d == Bootstrapped(c, h)
            store == WithHeader(c.byHeight, h)
<1>1. c \in Clients /\ c.byHeight \in Stores /\ DOMAIN c.byHeight = {}
  BY ClientFacts DEF Sound
<1>2. /\ store \in Stores /\ DOMAIN store = {h.height}
      /\ store[h.height].hash = h.hash
  <2>1. /\ WithHeader(c.byHeight, h) \in Stores
        /\ DOMAIN WithHeader(c.byHeight, h) = DOMAIN c.byHeight \cup {h.height}
        /\ WithHeader(c.byHeight, h)[h.height] = [hash |-> h.hash, prev |-> h.prev]
    BY <1>1, WithHeaderFacts
  <2>2. [hash |-> h.hash, prev |-> h.prev].hash = h.hash
    OBVIOUS
  <2>. QED  BY <1>1, <2>1, <2>2
<1>3. d = [c EXCEPT !.bootstrapped = TRUE,
                    !.checkpointHeight = h.height, !.checkpointHash = h.hash,
                    !.bestHeight = h.height, !.bestHash = h.hash,
                    !.byHeight = store]
  BY DEF Bootstrapped
<1>. HIDE DEF store, d
<1>4. /\ d \in Clients /\ d.bootstrapped /\ d.byHeight = store
      /\ d.checkpointHeight = h.height /\ d.checkpointHash = h.hash
      /\ d.bestHeight = h.height /\ d.bestHash = h.hash
  BY <1>1, <1>2, <1>3, HeaderFacts DEF Clients
<1>5. WindowOf(d) \subseteq {h.height} /\ h.height \in h.height .. h.height
  BY <1>4, HeaderFacts DEF WindowOf
<1>6. \A n \in WindowOf(d) : n - 1 \notin WindowOf(d)
  <2>1. h.height - 1 # h.height
    <3>1. h.height \in Nat
      BY HeaderFacts
    <3>. QED  BY <3>1
  <2>2. \A n \in WindowOf(d) : n = h.height
    BY <1>5
  <2>. QED  BY <2>1, <2>2
<1>7. Sound(d)
  BY <1>2, <1>4, <1>5, <1>6 DEF Sound, Chained
<1>8. Extends(c, d)
  BY DEF Extends
<1>. QED  BY <1>1, <1>4, <1>7, <1>8, ReturnsKeeps DEF d

-----------------------------------------------------------------------------
(* applyHeaders' loop is a fold, and a fold has a table: what is left      *)
(* after the headers at any set of places, the greatest last.              *)

IsLoopTable(g, base, window, S) ==
  g = [s \in SUBSET S |->
         IF s = {} THEN base
         ELSE ApplyOne(g[s \ {Max(s)}], window[Max(s)])]

LoopTable(base, window, S) == CHOOSE g : IsLoopTable(g, base, window, S)

LEMMA LoopByTable ==
  ASSUME NEW base, NEW window
  PROVE  FoldLeft(ApplyOne, base, window) =
           LoopTable(base, window, DOMAIN window)[DOMAIN window]
BY DEF FoldLeft, MapThenFoldSet, LoopTable, IsLoopTable

(* Some of the places of a window.                                         *)
ArePlaces(S) == IsFiniteSet(S) /\ S \subseteq Nat

LEMMA SomePlaces ==
  ASSUME NEW S, ArePlaces(S)
  PROVE  IsFiniteSet(S) /\ \A T \in SUBSET S : ArePlaces(T)
BY FS_Subset DEF ArePlaces

(* They have a greatest.                                                   *)
LEMMA MaxInSet ==
  ASSUME NEW S, ArePlaces(S), S # {}
  PROVE  Max(S) \in S
<1>. DEFINE HasMax(s) == \E x \in s : \A y \in s : x >= y
            B == {s \in SUBSET S : s # {} /\ ~HasMax(s)}
<1>1. ASSUME B # {} PROVE FALSE
  <2>1. PICK m \in B : \A t \in B : t \subseteq m => t = m
    <3>1. B \subseteq SUBSET S
      OBVIOUS
    <3>. HIDE DEF B
    <3>. QED  BY <1>1, <3>1, SomePlaces, MinimalSubset
  <2>2. PICK e \in m : TRUE
    OBVIOUS
  <2>3. CASE m \ {e} = {}
    <3>1. e \in Nat /\ \A y \in m : y = e
      BY <2>1, <2>2, <2>3 DEF ArePlaces
    <3>2. e >= e
      BY <3>1
    <3>3. HasMax(m)
      BY <3>1, <3>2
    <3>. QED  BY <2>1, <3>3
  <2>4. CASE m \ {e} # {}
    <3>1. HasMax(m \ {e})
      <4>1. m \ {e} \in SUBSET S /\ m \ {e} # m /\ m \ {e} \subseteq m
        BY <2>2
      <4>2. m \ {e} \notin B
        BY <2>1, <4>1
      <4>. HIDE DEF HasMax
      <4>. QED  BY <2>4, <4>1, <4>2
    <3>2. PICK x \in m \ {e} : \A y \in m \ {e} : x >= y
      BY <3>1
    <3>3. x \in Nat /\ e \in Nat /\ m \subseteq Nat
      BY <2>1 DEF ArePlaces
    <3>4. CASE x >= e
      <4>1. \A y \in m : x >= y
        BY <3>2, <3>4
      <4>. QED  BY <2>1, <4>1
    <3>5. CASE ~(x >= e)
      <4>1. \A y \in m : e >= y
        BY <3>2, <3>3, <3>5
      <4>. QED  BY <2>1, <4>1
    <3>. QED  BY <3>4, <3>5
  <2>. QED  BY <2>3, <2>4
<1>2. HasMax(S)
  BY <1>1
<1>. QED  BY <1>2 DEF Max

(* Two tables agree where both are defined.                                *)
LEMMA LoopTablesAgree ==
  ASSUME NEW base, NEW window, NEW S, NEW T, NEW g, NEW h, NEW R,
         ArePlaces(R), R \subseteq S, R \subseteq T,
         IsLoopTable(g, base, window, S), IsLoopTable(h, base, window, T)
  PROVE  g[R] = h[R]
<1>. DEFINE B == {s \in SUBSET R : g[s] # h[s]}
<1>. SUFFICES ASSUME B # {} PROVE FALSE
  OBVIOUS
<1>1. PICK m \in B : \A t \in B : t \subseteq m => t = m
  <2>1. B \subseteq SUBSET R
    OBVIOUS
  <2>. HIDE DEF B
  <2>. QED  BY <2>1, SomePlaces, MinimalSubset
<1>2. /\ m \in SUBSET S /\ m \in SUBSET T
      /\ m \ {Max(m)} \in SUBSET S /\ m \ {Max(m)} \in SUBSET T
      /\ ArePlaces(m)
  BY SomePlaces
<1>3. CASE m = {}
  <2>1. g[m] = base /\ h[m] = base
    BY <1>2, <1>3 DEF IsLoopTable
  <2>. QED  BY <2>1
<1>4. CASE m # {}
  <2>1. g[m] = ApplyOne(g[m \ {Max(m)}], window[Max(m)])
    BY <1>2, <1>4 DEF IsLoopTable
  <2>2. h[m] = ApplyOne(h[m \ {Max(m)}], window[Max(m)])
    BY <1>2, <1>4 DEF IsLoopTable
  <2>3. Max(m) \in m
    BY <1>2, <1>4, MaxInSet
  <2>4. g[m \ {Max(m)}] = h[m \ {Max(m)}]
    BY <1>1, <2>3
  <2>. QED  BY <2>1, <2>2, <2>4
<1>. QED  BY <1>3, <1>4

(* Every finite set of places has a table.                                 *)
LEMMA LoopTableExists ==
  ASSUME NEW base, NEW window, NEW S, ArePlaces(S)
  PROVE  IsLoopTable(LoopTable(base, window, S), base, window, S)
<1>. DEFINE Table(s) == LoopTable(base, window, s)
            IsTable(g, s) == IsLoopTable(g, base, window, s)
            B == {s \in SUBSET S : ~ \E g : IsTable(g, s)}
<1>1. ASSUME B # {} PROVE FALSE
  <2>1. PICK m \in B : \A t \in B : t \subseteq m => t = m
    <3>1. B \subseteq SUBSET S
      OBVIOUS
    <3>. HIDE DEF B
    <3>. QED  BY <1>1, <3>1, SomePlaces, MinimalSubset
  <2>2. \A t \in SUBSET m : t # m => IsTable(Table(t), t)
    BY <2>1 DEF LoopTable
  <2>3. \A t \in SUBSET m : ArePlaces(t)
    BY <2>1, SomePlaces
  <2>4. \A t \in SUBSET m : t # {} => Max(t) \in t
    BY <2>3, MaxInSet
  <2>. DEFINE val(s) == Table(s)[s]
              g == [s \in SUBSET m |->
                      IF s = {} THEN base
                      ELSE ApplyOne(val(s \ {Max(s)}), window[Max(s)])]
  <2>5. ASSUME NEW s \in SUBSET m, s # {}
        PROVE  g[s \ {Max(s)}] = val(s \ {Max(s)})
    <3>. DEFINE t == s \ {Max(s)}
    <3>1. t \in SUBSET m /\ t # m
      BY <2>4, <2>5
    <3>2. IsTable(Table(t), t)
      BY <2>2, <3>1
    <3>3. CASE t = {}
      <4>1. Table(t)[t] = base
        BY <3>2, <3>3 DEF IsLoopTable
      <4>2. g[t] = base
        BY <3>1, <3>3
      <4>. QED  BY <4>1, <4>2
    <3>4. CASE t # {}
      <4>. DEFINE r == t \ {Max(t)}
      <4>1. Max(t) \in t
        BY <2>4, <3>1, <3>4
      <4>2. r \in SUBSET m /\ r # m /\ r \in SUBSET t
        BY <3>1, <4>1
      <4>3. Table(t)[t] = ApplyOne(Table(t)[r], window[Max(t)])
        BY <3>2, <3>4 DEF IsLoopTable
      <4>4. IsTable(Table(r), r)
        BY <2>2, <4>2
      <4>5. ArePlaces(r)
        BY <2>3, <4>2
      <4>6. Table(t)[r] = Table(r)[r]
        <5>1. r \subseteq t
          OBVIOUS
        <5>. HIDE DEF t, r
        <5>. QED  BY <3>2, <4>4, <4>5, <5>1, LoopTablesAgree
      <4>7. g[t] = ApplyOne(Table(r)[r], window[Max(t)])
        BY <3>1, <3>4
      <4>. QED  BY <4>3, <4>6, <4>7
    <3>. QED  BY <3>3, <3>4
  <2>6. g = [s \in SUBSET m |->
               IF s = {} THEN base
               ELSE ApplyOne(g[s \ {Max(s)}], window[Max(s)])]
    <3>1. \A s \in SUBSET m :
            g[s] = IF s = {} THEN base
                   ELSE ApplyOne(g[s \ {Max(s)}], window[Max(s)])
      BY <2>5
    <3>. QED  BY <3>1
  <2>7. IsTable(g, m)
    BY <2>6 DEF IsLoopTable
  <2>. QED  BY <2>1, <2>7
<1>2. \E g : IsTable(g, S)
  BY <1>1
<1>. QED  BY <1>2 DEF LoopTable

(* The loop keeps a client that has started.                               *)
LEMMA LoopKeeps ==
  ASSUME NEW c, Sound(c), c.bootstrapped, NEW window \in Seq(Headers)
  PROVE  Keeps(c, FoldLeft(ApplyOne, Returns(c), window))
<1>. DEFINE D == DOMAIN window
            T == LoopTable(Returns(c), window, D)
            B == {s \in SUBSET D : ~Keeps(c, T[s])}
<1>1. ArePlaces(D) /\ \A i \in D : window[i] \in Headers
  <2>1. D = 1 .. Len(window) /\ Len(window) \in Nat
    OBVIOUS
  <2>. QED  BY <2>1, FS_Interval DEF ArePlaces
<1>2. IsLoopTable(T, Returns(c), window, D)
  BY <1>1, LoopTableExists
<1>3. ASSUME B # {} PROVE FALSE
  <2>. HIDE DEF T, D
  <2>1. PICK m \in B : \A t \in B : t \subseteq m => t = m
    <3>1. B \subseteq SUBSET D
      OBVIOUS
    <3>. HIDE DEF B
    <3>. QED  BY <1>1, <1>3, <3>1, SomePlaces, MinimalSubset
  <2>2. ArePlaces(m) /\ m \subseteq D
    BY <1>1, SomePlaces
  <2>3. CASE m = {}
    <3>1. T[m] = Returns(c)
      BY <1>2, <2>2, <2>3 DEF IsLoopTable
    <3>. QED  BY <3>1, ReturnsKeeps, ExtendsItself DEF Sound
  <2>4. CASE m # {}
    <3>1. Max(m) \in m
      BY <2>2, <2>4, MaxInSet
    <3>2. T[m] = ApplyOne(T[m \ {Max(m)}], window[Max(m)])
      BY <1>2, <2>2, <2>4 DEF IsLoopTable
    <3>3. Keeps(c, T[m \ {Max(m)}])
      BY <2>1, <2>2, <3>1
    <3>. DEFINE r == T[m \ {Max(m)}]
    <3>4. window[Max(m)] \in Headers
      BY <1>1, <2>2, <3>1
    <3>. HIDE DEF r
    <3>5. Keeps(c, r) /\ T[m] = ApplyOne(r, window[Max(m)])
      BY <3>2, <3>3 DEF r
    <3>6. r \in Results /\ Sound(r.lc) /\ r.lc.bootstrapped /\ Extends(c, r.lc)
          /\ r.lc \in Clients /\ c \in Clients
      BY <3>5 DEF Keeps, Extends, Sound
    <3>7. Keeps(r.lc, T[m])
      BY <3>4, <3>5, <3>6, ApplyOneKeeps
    <3>8. Keeps(c, T[m])
      BY <3>6, <3>7, KeepsTransitive
    <3>. QED  BY <3>8
  <2>. QED  BY <2>3, <2>4
<1>4. Keeps(c, T[D])
  BY <1>3
<1>. QED  BY <1>4, LoopByTable

-----------------------------------------------------------------------------
(* The operations inputs call.                                             *)

LEMMA ApplyHeadersKeeps ==
  ASSUME NEW c, Sound(c), NEW window \in Windows, NEW bootstrap \in BOOLEAN,
         NEW pin \in Pins \cup {NoPin}
  PROVE  Keeps(c, ApplyHeaders(c, window, bootstrap, pin))
<1>. DEFINE start   == IF c.bootstrapped THEN c ELSE Bootstrapped(c, window[1])
            applied == FoldLeft(ApplyOne, Returns(start), window)
            pinned  == IF applied.ok THEN RecordPin(applied.lc, pin) ELSE applied
<1>1. c \in Clients /\ Keeps(c, Throws(c))
  BY ReturnsKeeps, ExtendsItself DEF Sound
<1>2. window \in Seq(Headers) /\ window[1] \in Headers
  BY WindowsAssumption
<1>3. Sound(start) /\ start.bootstrapped /\ Extends(c, start)
  <2>1. CASE c.bootstrapped
    BY <1>1, <2>1, ExtendsItself
  <2>2. CASE ~c.bootstrapped
    BY <1>2, <2>2, BootstrappedKeeps DEF Keeps, Returns
  <2>. QED  BY <2>1, <2>2
<1>. HIDE DEF start
<1>4. start \in Clients
  BY <1>3 DEF Sound
<1>5. Keeps(start, applied)
  BY <1>2, <1>3, LoopKeeps
<1>. HIDE DEF applied
<1>6. /\ applied \in Results /\ Sound(applied.lc) /\ applied.lc \in Clients
      /\ applied.lc.bootstrapped /\ Extends(start, applied.lc)
  BY <1>3, <1>5 DEF Keeps, Sound, Extends
<1>7. Keeps(applied.lc, pinned)
  <2>1. Keeps(applied.lc, RecordPin(applied.lc, pin))
    BY <1>6, RecordPinKeeps
  <2>2. Keeps(applied.lc, applied)
    BY <1>6, ExtendsItself DEF Keeps
  <2>. QED  BY <2>1, <2>2
<1>. HIDE DEF pinned
<1>8. /\ Sound(pinned.lc) /\ pinned.lc \in Clients
      /\ pinned.lc.bootstrapped /\ Extends(applied.lc, pinned.lc)
  BY <1>6, <1>7 DEF Keeps, Sound, Extends
<1>9. Extends(c, applied.lc)
  BY <1>1, <1>3, <1>4, <1>6, ExtendsTransitive
<1>10. Extends(c, pinned.lc)
  BY <1>1, <1>6, <1>8, <1>9, ExtendsTransitive
<1>11. Keeps(c, pinned)
  BY <1>1, <1>6, <1>7, <1>9, KeepsTransitive
<1>12. Keeps(c, Returns(Trim(pinned.lc)))
  BY <1>1, <1>8, <1>10, TrimKeeps, KeepsTransitive
<1>13. ApplyHeaders(c, window, bootstrap, pin) \in
         {Throws(c), Returns(Trim(pinned.lc)), pinned}
  BY DEF ApplyHeaders, start, applied, pinned
<1>. QED  BY <1>1, <1>11, <1>12, <1>13

LEMMA ClaimBlockKeeps ==
  ASSUME NEW c, Sound(c), NEW claim \in Claims
  PROVE  Keeps(c, ClaimBlock(c, claim))
<1>. DEFINE before == ClaimWindow(c, claim)
<1>1. /\ claim.window \in Windows \cup {<<>>} /\ claim.header \in Headers
      /\ claim.finality \in Pins \cup {NoPin} /\ c \in Clients
  BY DEF Claims, Sound
<1>2. Keeps(c, before)
  <2>1. CASE claim.window = <<>>
    BY <1>1, <2>1, ReturnsKeeps, ExtendsItself DEF ClaimWindow
  <2>2. CASE claim.window # <<>>
    BY <1>1, <2>2, ApplyHeadersKeeps DEF ClaimWindow
  <2>. QED  BY <2>1, <2>2
<1>. HIDE DEF before
<1>3. Sound(before.lc) /\ Extends(c, before.lc) /\ before.lc \in Clients
  BY <1>2 DEF Keeps, Sound
<1>4. Keeps(c, Throws(before.lc))
  BY <1>1, <1>3, ReturnsKeeps
<1>5. ASSUME before.lc.bootstrapped
      PROVE  Keeps(c, AdoptBlock(before.lc, claim.header))
  BY <1>1, <1>3, <1>5, AdoptBlockKeeps, KeepsTransitive
<1>. QED  BY <1>4, <1>5 DEF ClaimBlock, before

(* A claim is only verified with its block stored.                         *)
LEMMA ClaimBlockStores ==
  ASSUME NEW c, Sound(c), NEW claim \in Claims, ClaimBlock(c, claim).ok
  PROVE  LET d == ClaimBlock(c, claim).lc
         IN  /\ Sound(d) /\ d.bootstrapped
             /\ claim.header.height \in DOMAIN d.byHeight
             /\ d.byHeight[claim.header.height].hash = claim.header.hash
<1>. DEFINE before == ClaimWindow(c, claim)
            h == claim.header
            result == ClaimBlock(c, claim)
<1>1. before.lc.bootstrapped /\ result = AdoptBlock(before.lc, h)
  BY DEF ClaimBlock, Throws
<1>2. Sound(result.lc)
  BY ClaimBlockKeeps DEF Keeps
<1>3. before.lc \in Clients /\ h \in Headers
  <2>1. /\ claim.window \in Windows \cup {<<>>} /\ h \in Headers
        /\ claim.finality \in Pins \cup {NoPin} /\ c \in Clients
    BY DEF Claims, Sound
  <2>2. Keeps(c, ClaimWindow(c, claim))
    BY <2>1, ReturnsKeeps, ExtendsItself, ApplyHeadersKeeps DEF ClaimWindow
  <2>. QED  BY <2>1, <2>2 DEF Keeps, Sound
<1>. HIDE DEF before, result, h
<1>4. \/ result = Returns(before.lc) /\ Stored(before.lc, h) /\ StoredSame(before.lc, h)
      \/ result = Returns(Put(before.lc, h))
  <2>1. result.ok
    BY DEF result
  <2>. QED  BY <1>1, <2>1 DEF AdoptBlock, Throws
<1>5. CASE result = Returns(before.lc) /\ Stored(before.lc, h) /\ StoredSame(before.lc, h)
  BY <1>1, <1>2, <1>5 DEF Returns, Stored, StoredSame, result, h
<1>6. CASE result = Returns(Put(before.lc, h))
  <2>. DEFINE d == Put(before.lc, h)
  <2>1. /\ d.bootstrapped = before.lc.bootstrapped
        /\ d.byHeight = WithHeader(before.lc.byHeight, h)
    BY <1>3, PutFacts
  <2>2. before.lc.byHeight \in Stores
    BY <1>3, ClientFacts
  <2>3. /\ DOMAIN WithHeader(before.lc.byHeight, h) =
             DOMAIN before.lc.byHeight \cup {h.height}
        /\ WithHeader(before.lc.byHeight, h)[h.height] =
             [hash |-> h.hash, prev |-> h.prev]
    BY <1>3, <2>2, WithHeaderFacts
  <2>4. result.lc = d
    BY <1>6 DEF Returns
  <2>. HIDE DEF d
  <2>5. [hash |-> h.hash, prev |-> h.prev].hash = h.hash
    OBVIOUS
  <2>6. result.lc.bootstrapped
    BY <1>1, <2>1, <2>4
  <2>7. result.lc.byHeight = WithHeader(before.lc.byHeight, h)
    BY <2>1, <2>4
  <2>8. h.height \in DOMAIN result.lc.byHeight
    BY <2>3, <2>7
  <2>9. result.lc.byHeight[h.height].hash = h.hash
    BY <2>3, <2>5, <2>7
  <2>. QED  BY <1>2, <2>6, <2>8, <2>9 DEF result, h
<1>. QED  BY <1>4, <1>5, <1>6

(* Block b is at height n of the chain, as far as it is still stored.      *)
OnChain(c, n, b) ==
  /\ c.bootstrapped
  /\ n \in c.checkpointHeight .. c.bestHeight
  /\ n \in WindowOf(c) => c.byHeight[n].hash = b

LEMMA ClaimedOnChain ==
  ASSUME NEW c, Sound(c), NEW claim \in Claims, ClaimBlock(c, claim).ok
  PROVE  OnChain(ClaimBlock(c, claim).lc, claim.header.height, claim.header.hash)
<1>. DEFINE d == ClaimBlock(c, claim).lc
<1>1. /\ Sound(d) /\ d.bootstrapped
      /\ claim.header.height \in DOMAIN d.byHeight
      /\ d.byHeight[claim.header.height].hash = claim.header.hash
  BY ClaimBlockStores
<1>. HIDE DEF d
<1>2. claim.header.height \in d.checkpointHeight .. d.bestHeight
  BY <1>1 DEF Sound, Chained
<1>. QED  BY <1>1, <1>2 DEF OnChain, d

LEMMA StaysOnChain ==
  ASSUME NEW c \in Clients, NEW d \in Clients, Extends(c, d), NEW n \in Nat, NEW b,
         OnChain(c, n, b)
  PROVE  OnChain(d, n, b)
<1>1. /\ c.bootstrapped /\ d.bootstrapped
      /\ d.checkpointHeight = c.checkpointHeight /\ d.bestHeight >= c.bestHeight
      /\ c.bestHeight \in Nat /\ d.bestHeight \in Nat /\ c.checkpointHeight \in Nat
      /\ n >= c.checkpointHeight /\ n <= c.bestHeight
  BY ClientFacts DEF Extends, OnChain
<1>2. n \in d.checkpointHeight .. d.bestHeight
  BY <1>1
<1>3. ASSUME n \in WindowOf(d) PROVE d.byHeight[n].hash = b
  <2>1. n \in WindowOf(c)
    BY <1>1, <1>3, LimitsAssumption DEF WindowOf
  <2>. QED  BY <1>1, <1>3, <2>1 DEF Extends, OnChain
<1>. QED  BY <1>1, <1>2, <1>3 DEF OnChain

-----------------------------------------------------------------------------
(* The handlers leave the client as it was, or what its operation leaves.  *)

LEMMA EndsKeeps ==
  ASSUME Sound(lc), NEW result, Keeps(lc, result), Ends(result)
  PROVE  Sound(lc') /\ Extends(lc, lc')
<1>1. lc \in Clients /\ lc' \in {lc, result.lc}
  BY DEF Sound, Ends
<1>. QED  BY <1>1, ExtendsItself DEF Keeps

LEMMA ClientInputKeeps ==
  ASSUME ~AllowRebootstrap, Sound(lc),
         \/ \E h \in Headers, pin \in WholePins \cup {NoPin} : WartCheckpoint(h, pin)
         \/ \E window \in Windows, pin \in Pins \cup {NoPin} :
              WartBootstrap(window, pin) \/ WartHeaders(window, pin)
         \/ BootstrapRejected
  PROVE  Sound(lc') /\ Extends(lc, lc')
<1>. DEFINE Good == Sound(lc') /\ Extends(lc, lc')
<1>1. lc \in Clients
  BY DEF Sound
<1>2. ASSUME NEW h \in Headers, NEW pin \in WholePins \cup {NoPin},
             WartCheckpoint(h, pin)
      PROVE  Good
  <2>. DEFINE d == Bootstrapped(lc, h)
              p == IF pin = NoPin THEN d.pin ELSE pin
              e == [d EXCEPT !.pin = p]
  <2>1. ~lc.bootstrapped /\ Ends(Returns(e))
    BY <1>2 DEF WartCheckpoint, MayBootstrap
  <2>2. Sound(d) /\ Extends(lc, d) /\ d.bootstrapped /\ d \in Clients
    BY <2>1, BootstrappedKeeps DEF Keeps, Returns, Sound
  <2>. HIDE DEF d
  <2>3. p \in Pins \cup {NoPin}
    BY <2>2, ClientFacts DEF WholePins
  <2>. HIDE DEF p
  <2>4. /\ e \in Clients /\ e.bootstrapped = d.bootstrapped
        /\ e.checkpointHeight = d.checkpointHeight
        /\ e.checkpointHash = d.checkpointHash
        /\ e.bestHeight = d.bestHeight /\ e.bestHash = d.bestHash
        /\ e.byHeight = d.byHeight
    BY <2>2, <2>3 DEF Clients
  <2>. HIDE DEF e
  <2>5. Sound(e)
    BY <2>2, <2>4 DEF Sound, Chained, WindowOf
  <2>6. Extends(lc, e)
    BY <2>1 DEF Extends
  <2>7. Keeps(lc, Returns(e))
    BY <1>1, <2>5, <2>6, ReturnsKeeps
  <2>. QED  BY <2>1, <2>7, EndsKeeps
<1>3. ASSUME NEW window \in Windows, NEW pin \in Pins \cup {NoPin},
             WartBootstrap(window, pin) \/ WartHeaders(window, pin)
      PROVE  Good
  <2>1. \E bootstrap \in BOOLEAN : Ends(ApplyHeaders(lc, window, bootstrap, pin))
    BY <1>3 DEF WartBootstrap, WartHeaders
  <2>. QED  BY <2>1, ApplyHeadersKeeps, EndsKeeps
<1>4. ASSUME BootstrapRejected PROVE Good
  <2>1. lc' = lc
    BY <1>4 DEF BootstrapRejected, Ends, Throws
  <2>. QED  BY <1>1, <2>1, ExtendsItself
<1>. QED  BY <1>2, <1>3, <1>4

(* A claim ends as its operation or, when something else of it fails, is   *)
(* rejected with the client the operation leaves.                          *)
LEMMA ClaimKeeps ==
  ASSUME Sound(lc), NEW claim \in Claims, NEW ok,
         Ends([ClaimBlock(lc, claim) EXCEPT !.ok = ok])
  PROVE  Sound(lc') /\ Extends(lc, lc')
<1>. DEFINE result == ClaimBlock(lc, claim)
<1>1. Keeps(lc, result)
  BY ClaimBlockKeeps
<1>. HIDE DEF result
<1>2. [result EXCEPT !.ok = ok].lc = result.lc
  BY <1>1 DEF Keeps, Results
<1>3. lc' \in {lc, result.lc}
  BY <1>2 DEF Ends, result
<1>4. lc \in Clients
  BY DEF Sound
<1>. QED  BY <1>1, <1>3, <1>4, ExtendsItself DEF Keeps

LEMMA StepKeeps ==
  ASSUME ~AllowRebootstrap, Sound(lc), [Next]_vars
  PROVE  Sound(lc') /\ Extends(lc, lc')
<1>1. CASE UNCHANGED vars
  BY <1>1, ExtendsItself DEF vars, Sound
<1>2. CASE \E claim \in Claims, bodyOk \in BOOLEAN : WartDepositClaim(claim, bodyOk)
  BY <1>2, ClaimKeeps DEF WartDepositClaim
<1>. QED  BY <1>1, <1>2, ClientInputKeeps DEF Next

-----------------------------------------------------------------------------
(* The theorems.                                                           *)

LEMMA NewIsSound == Sound(NewClient)
<1>1. <<>> \in Stores /\ DOMAIN <<>> = {}
  <2>1. <<>> \in [{} -> Entries]
    OBVIOUS
  <2>. QED  BY <2>1 DEF Stores
<1>2. NewClient \in Clients /\ ~NewClient.bootstrapped /\ NewClient.byHeight = <<>>
  BY <1>1 DEF NewClient, Clients
<1>. HIDE DEF NewClient
<1>. QED  BY <1>1, <1>2 DEF Sound

LEMMA InitSound == Init => Sound(lc)
BY NewIsSound DEF Init

(* A client that is not started again keeps its newest headers as one      *)
(* chain that ends in the tip, and the checkpoint.                         *)
THEOREM StoreIsChain ==
  ASSUME ~AllowRebootstrap
  PROVE  Spec => []TipIsChain
<1>1. Sound(lc) /\ [Next]_vars => Sound(lc)'
  BY StepKeeps
<1>2. Sound(lc) => TipIsChain
  BY DEF Sound, Chained, TipIsChain, WindowOf, TipWindow
<1>. QED  BY <1>1, <1>2, InitSound, PTL DEF Spec

(* And the tip never goes back, nor does the chain that ends in it change. *)
THEOREM NoReorganisation ==
  ASSUME ~AllowRebootstrap
  PROVE  Spec => HistoryIsFixed
<1>. DEFINE Fixed == lc.bootstrapped =>
              /\ lc'.checkpointHash = lc.checkpointHash
              /\ lc'.bestHeight >= lc.bestHeight
              /\ \A n \in TipWindow \cap TipWindow' :
                   lc'.byHeight[n].hash = lc.byHeight[n].hash
<1>1. Sound(lc) /\ [Next]_vars => Sound(lc)'
  BY StepKeeps
<1>2. Sound(lc) /\ [Next]_vars => [Fixed]_vars
  <2>1. Extends(lc, lc') => Fixed
    BY DEF Extends, WindowOf, TipWindow
  <2>. QED  BY <2>1, StepKeeps
<1>. QED  BY <1>1, <1>2, InitSound, PTL DEF Spec, HistoryIsFixed
=============================================================================
