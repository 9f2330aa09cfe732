---------------------------- MODULE UserDBProofs ----------------------------
(***************************************************************************)
(* What TLAPS proves of UserDB, for any phrases and keys, any sizes and    *)
(* limits, and any number of deaths and failed copies.                     *)
(***************************************************************************)
EXTENDS UserDB, SeqLemmas, FiniteSetTheorems

USE DEF files, tree, memory, local, ghosts

\* The data area and the memory belong together.
MemType ==
    /\ IsFile(usr) /\ IsTree(locs) /\ zero \subseteq Keys /\ total \in Nat
    /\ dataLen \in Nat /\ inx \in Seq(Bytes) /\ tmp \in Seq(Bytes) /\ open \in BOOLEAN
    /\ DOMAIN cache \subseteq Nat /\ cache \in [DOMAIN cache -> Bytes]

\* The locations that are cached have a bound.
CacheBounded == \E n \in Nat : \A l \in DOMAIN cache : l < n

Placed(f) == f.kind = "db" => OwnPlaces(f.locs, Len(f.data))

\* The file that is open is usr; what the tree refers to is there.
Local ==
    /\ MemType /\ CacheBounded
    /\ dataLen <= Len(inx)
    /\ open => usr.kind = "db" /\ usr.data = inx
    /\ OwnPlaces(locs, dataLen + Len(tmp))
    /\ Placed(usr)

\* The data area is what was loaded, and the cache is about it.
Exact == Len(inx) = dataLen /\ \A l \in DOMAIN cache : l < dataLen

\* A function on 1..n is a sequence of n elements.
LEMMA FunctionIsSeq ==
    ASSUME NEW S, NEW n \in Nat, NEW f \in [1..n -> S]
    PROVE  f \in Seq(S) /\ Len(f) = n
OBVIOUS

\* The data area after sync is a sequence of bytes; it is longer only if a location in
\* the cache was past its end.
LEMMA WithCacheFacts ==
    ASSUME NEW c, DOMAIN c \subseteq Nat, c \in [DOMAIN c -> Bytes],
           \E n \in Nat : \A l \in DOMAIN c : l < n, inx \in Seq(Bytes), MaxPri \in Nat
    PROVE  /\ WithCache(c) \in Seq(Bytes)
           /\ Len(WithCache(c)) >= Len(inx)
           /\ (\A l \in DOMAIN c : l < Len(inx)) => Len(WithCache(c)) = Len(inx)
           /\ \A l \in Nat : l < Len(inx) =>
                  WithCache(c)[l + 1] = IF l \in DOMAIN c THEN c[l] ELSE inx[l + 1]
<1> DEFINE S == 1..Len(inx) \cup UNION {1..(l + 1) : l \in DOMAIN c}
           W == WithCache(c)
<1>1. Len(inx) \in Nat
    BY LenProperties
<1>2. PICK n \in Nat : \A l \in DOMAIN c : l < n
    OBVIOUS
<1>3. S \subseteq 1..(n + Len(inx))
    BY <1>1, <1>2
<1>4. \A i \in S : \A j \in 1..i : j \in S
    BY <1>1
<1>5. PICK m \in Nat : S = 1..m
    <2> HIDE DEF S
    <2>1. n + Len(inx) \in Nat
        BY <1>1
    <2> QED BY <1>3, <1>4, <2>1, DownClosed
<1>6. DOMAIN W = S
    BY DEF WithCache
<1>7. \A i \in S : W[i] = IF i - 1 \in DOMAIN c THEN c[i - 1]
                          ELSE IF i \in 1..Len(inx) THEN inx[i] ELSE 0
    BY DEF WithCache
<1>8. \A i \in 1..Len(inx) : inx[i] \in Bytes
    BY ElementOfSeq
<1>9. \A i \in S : W[i] \in Bytes
    <2>1. 0 \in Bytes /\ \A l \in DOMAIN c : c[l] \in Bytes
        BY DEF Bytes
    <2> HIDE DEF S, W
    <2> QED BY <1>7, <1>8, <2>1
<1>10. W \in [1..m -> Bytes]
    <2>1. W = [i \in S |-> W[i]]
        BY <1>6 DEF WithCache
    <2> QED BY <1>5, <1>9, <2>1
<1>11. W \in Seq(Bytes) /\ Len(W) = m
    BY <1>10, FunctionIsSeq
<1>12. m >= Len(inx)
    <2>1. Len(inx) = 0 \/ Len(inx) \in S
        BY <1>1
    <2> QED BY <1>1, <1>5, <2>1
<1>13. (\A l \in DOMAIN c : l < Len(inx)) => m = Len(inx)
    <2> SUFFICES ASSUME \A l \in DOMAIN c : l < Len(inx) PROVE m <= Len(inx)
        BY <1>1, <1>12
    <2>1. S \subseteq 1..Len(inx)
        BY <1>1
    <2>2. m = 0 \/ m \in S
        BY <1>5
    <2> QED BY <1>1, <2>1, <2>2
<1>14. ASSUME NEW l \in Nat, l < Len(inx)
       PROVE  W[l + 1] = IF l \in DOMAIN c THEN c[l] ELSE inx[l + 1]
    <2>1. l + 1 \in S /\ l + 1 \in 1..Len(inx) /\ (l + 1) - 1 = l
        BY <1>1, <1>14
    <2> QED BY <1>7, <2>1
<1> QED BY <1>11, <1>12, <1>13, <1>14
-----------------------------------------------------------------------------
CacheType == DOMAIN cache \subseteq Nat /\ cache \in [DOMAIN cache -> Bytes]

\* The constants are numbers.
LEMMA Numbers ==
    /\ MaxPri \in Nat /\ DefaultPri \in Bytes /\ MaxEntry \in Nat /\ FdLimit \in Nat
    /\ \A v \in Bytes : v \in Nat
    /\ 0 \in Bytes
BY PriAssumption, BoundAssumption DEF Bytes

\* A new database is loadable and typed.
LEMMA DatabaseFacts ==
    ASSUME NEW l, IsTree(l), NEW d \in Seq(Bytes), NEW n \in Nat
    PROVE  LET f == Database(l, d, n) IN
           /\ IsFile(f) /\ Loadable(f)
           /\ f.kind = "db" /\ f.locs = l /\ f.data = d /\ f.total = n
<1>1. Len(d) \in Nat
    BY LenProperties
<1> QED BY <1>1 DEF Database, IsFile, Loadable

\* So are a file that does not exist and one that was cut short, but for being loadable.
LEMMA NoFileFacts ==
    /\ IsFile(NoFile) /\ NoFile.kind = "none" /\ ~Loadable(NoFile) /\ Placed(NoFile)
    /\ IsFile(Part) /\ Part.kind = "part" /\ ~Loadable(Part) /\ Placed(Part)
    /\ IsTree(Empty) /\ DOMAIN Empty = {}
<1>1. <<>> \in Seq(Bytes) /\ Len(<<>>) = 0
    BY EmptySeq
<1>2. IsTree(Empty) /\ DOMAIN Empty = {}
    BY DEF Empty, IsTree
<1> QED BY <1>1, <1>2 DEF NoFile, Part, IsFile, Loadable, Placed

\* Reading a good file.
LEMMA LoadLocal ==
    ASSUME NEW f, IsFile(f), Placed(f), Loadable(f), Load(f), usr' = f,
           CacheType', CacheBounded'
    PROVE  Local' /\ Len(inx') = dataLen' /\ locs' = f.locs
<1>1. Loaded(f)
    BY DEF Load
<1>2. f.data \in Seq(Bytes) /\ Len(f.data) \in Nat /\ f.kind = "db"
    BY LenProperties DEF IsFile, Loadable
<1>3. <<>> \in Seq(Bytes) /\ Len(<<>>) = 0
    BY EmptySeq
<1>4. MemType'
    <2>1. IsFile(usr') /\ IsTree(locs') /\ total' \in Nat
        BY <1>1 DEF Loaded, IsFile
    <2>2. zero' \subseteq Keys
        <3>1. zero' \subseteq DOMAIN locs'
            BY <1>1 DEF Loaded
        <3> QED BY <2>1, <3>1 DEF IsTree
    <2>3. dataLen' \in Nat /\ inx' \in Seq(Bytes) /\ tmp' \in Seq(Bytes) /\ open' \in BOOLEAN
        BY <1>1, <1>2, <1>3 DEF Loaded
    <2> QED BY <2>1, <2>2, <2>3 DEF MemType, CacheType
<1>5. OwnPlaces(locs', dataLen' + Len(tmp'))
    <2>1. dataLen' + Len(tmp') = Len(f.data) /\ locs' = f.locs
        BY <1>1, <1>2, <1>3 DEF Loaded
    <2> QED BY <1>2, <2>1 DEF Placed
<1> QED BY <1>1, <1>2, <1>4, <1>5 DEF Local, Loaded

\* Starting with an empty tree.
LEMMA FreshLocal ==
    ASSUME Fresh, IsFile(usr'), Placed(usr'), CacheType', CacheBounded'
    PROVE  Local' /\ Len(inx') = dataLen' /\ DOMAIN locs' = {}
<1>1. <<>> \in Seq(Bytes) /\ Len(<<>>) = 0
    BY EmptySeq
<1>2. IsTree(Empty) /\ DOMAIN Empty = {}
    BY NoFileFacts
<1>3. MemType'
    BY <1>1, <1>2 DEF Fresh, MemType, CacheType
<1>4. OwnPlaces(locs', dataLen' + Len(tmp'))
    BY <1>2 DEF Fresh, OwnPlaces
<1> QED BY <1>1, <1>2, <1>3, <1>4 DEF Local, Fresh

\* Writing into the data area, which keeps its length or grows.
LEMMA InPlaceLocal ==
    ASSUME Local, NEW d \in Seq(Bytes), Len(d) >= Len(inx), InPlace(d),
           UNCHANGED <<locs, zero, dataLen, total, open>>,
           tmp' \in Seq(Bytes), Len(tmp') = Len(tmp), CacheType', CacheBounded'
    PROVE  /\ Local'
           /\ usr'.kind = usr.kind /\ usr'.locs = usr.locs /\ usr'.f_size = usr.f_size
           /\ Len(d) = Len(inx) => Len(usr'.data) = Len(usr.data)
<1>1. Len(d) \in Nat /\ Len(inx) \in Nat /\ dataLen \in Nat /\ dataLen <= Len(inx)
    BY LenProperties DEF Local, MemType
<1>2. /\ IsFile(usr') /\ usr'.kind = usr.kind /\ usr'.locs = usr.locs
      /\ usr'.f_size = usr.f_size
      /\ open => usr'.data = d
      /\ ~open => usr' = usr
    BY DEF Local, MemType, IsFile, InPlace
<1>3. MemType'
    BY <1>2 DEF Local, MemType, CacheType, InPlace
<1>4. Placed(usr')
    <2>1. CASE open
        <3>1. usr.kind = "db" /\ usr.data = inx /\ OwnPlaces(usr.locs, Len(inx))
            BY <2>1 DEF Local, Placed
        <3>2. \A k \in DOMAIN usr.locs : usr.locs[k] \in Nat
            BY DEF Local, MemType, IsFile, IsTree
        <3>3. OwnPlaces(usr.locs, Len(d))
            BY <1>1, <3>1, <3>2 DEF OwnPlaces
        <3> QED BY <1>2, <2>1, <3>3 DEF Placed
    <2>2. CASE ~open
        BY <1>2, <2>2 DEF Local
    <2> QED BY <2>1, <2>2
<1>5. OwnPlaces(locs', dataLen' + Len(tmp'))
    BY DEF Local
<1>6. open' => usr'.kind = "db" /\ usr'.data = inx'
    BY <1>2 DEF Local, InPlace
<1>7. dataLen' <= Len(inx')
    BY <1>1 DEF InPlace
<1>8. Len(d) = Len(inx) => Len(usr'.data) = Len(usr.data)
    BY <1>2 DEF Local
<1> QED BY <1>2, <1>3, <1>4, <1>5, <1>6, <1>7, <1>8 DEF Local
-----------------------------------------------------------------------------
\* Where the priority of a key is, and that it is a byte.
LEMMA ValueFacts ==
    ASSUME Local, NEW k \in DOMAIN locs
    PROVE  /\ locs[k] \in Nat
           /\ locs[k] >= dataLen => locs[k] - dataLen + 1 \in 1..Len(tmp)
           /\ locs[k] < dataLen => locs[k] + 1 \in 1..Len(inx)
           /\ Value(k) \in Bytes
<1> DEFINE l == locs[k]
<1>1. l \in Nat /\ dataLen \in Nat /\ Len(inx) \in Nat /\ Len(tmp) \in Nat /\ dataLen <= Len(inx)
    BY LenProperties DEF Local, MemType, IsTree
<1>2. l < dataLen + Len(tmp)
    BY DEF Local, OwnPlaces
<1>3. l >= dataLen => l - dataLen + 1 \in 1..Len(tmp)
    BY <1>1, <1>2
<1>4. l < dataLen => l + 1 \in 1..Len(inx)
    BY <1>1
<1>5. \A i \in 1..Len(tmp) : tmp[i] \in Bytes
    BY ElementOfSeq DEF Local, MemType
<1>6. \A i \in 1..Len(inx) : inx[i] \in Bytes
    BY ElementOfSeq DEF Local, MemType
<1>7. \A x \in DOMAIN cache : cache[x] \in Bytes
    BY DEF Local, MemType
<1>8. Value(k) \in Bytes
    <2>1. CASE l >= dataLen
        <3>1. Value(k) = tmp[l - dataLen + 1]
            BY <2>1 DEF Value
        <3> QED BY <1>3, <1>5, <2>1, <3>1
    <2>2. CASE l < dataLen
        <3>1. Value(k) = IF l \in DOMAIN cache THEN cache[l] ELSE inx[l + 1]
            BY <1>1, <2>2 DEF Value
        <3> QED BY <1>4, <1>6, <1>7, <2>2, <3>1
    <2> QED BY <1>1, <2>1, <2>2
<1> QED BY <1>1, <1>3, <1>4, <1>8

\* The three ways of update; the other keys keep their priorities.
LEMMA UpdateLocal ==
    ASSUME Local, NEW k \in DOMAIN locs, NEW p \in Bytes, Update(k, p),
           UNCHANGED <<locs, zero, dataLen, total, open>>
    PROVE  /\ Local'
           /\ Exact => Exact' /\ Len(usr'.data) = Len(usr.data)
           /\ usr'.kind = usr.kind /\ usr'.locs = usr.locs /\ usr'.f_size = usr.f_size
           /\ \A j \in DOMAIN locs : j # k => Value(j)' = Value(j)
<1> DEFINE l == locs[k]
           c == [x \in DOMAIN cache \cup {l} |-> IF x = l THEN p ELSE cache[x]]
<1>1. l \in Nat /\ dataLen \in Nat /\ Len(tmp) \in Nat /\ Len(inx) \in Nat
    BY LenProperties DEF Local, MemType, IsTree
<1>2. \A j \in DOMAIN locs : locs[j] \in Nat /\ (j # k => locs[j] # l)
    BY DEF Local, MemType, IsTree, OwnPlaces
<1>3. CASE l >= dataLen
    <2> DEFINE i == l - dataLen + 1
    <2>1. tmp' = [tmp EXCEPT ![i] = p] /\ UNCHANGED <<cache, inx, usr>>
        BY <1>3 DEF Update
    <2>2. i \in 1..Len(tmp) /\ tmp \in Seq(Bytes)
        BY <1>3, ValueFacts DEF Local, MemType
    <2>3. /\ tmp' \in Seq(Bytes) /\ Len(tmp') = Len(tmp)
          /\ \A j \in 1..Len(tmp) : tmp'[j] = IF j = i THEN p ELSE tmp[j]
        <3> HIDE DEF i
        <3> QED BY <2>1, <2>2, ExceptSeq
    <2>4. Local'
        BY <2>1, <2>3 DEF Local, MemType, CacheBounded
    <2>5. Exact => Exact'
        BY <2>1 DEF Exact
    <2>6. ASSUME NEW j \in DOMAIN locs, j # k PROVE Value(j)' = Value(j)
        <3>1. CASE locs[j] >= dataLen
            <4>1. locs[j] - dataLen + 1 \in 1..Len(tmp)
                BY <3>1, ValueFacts
            <4>2. locs[j] - dataLen + 1 # i
                BY <1>1, <1>2, <2>6
            <4> QED BY <2>3, <3>1, <4>1, <4>2 DEF Value
        <3>2. CASE ~(locs[j] >= dataLen)
            BY <2>1, <3>2 DEF Value
        <3> QED BY <3>1, <3>2
    <2> QED BY <2>1, <2>4, <2>5, <2>6
<1>4. CASE l < dataLen
    <2>1. ~(l >= dataLen)
        BY <1>1, <1>4
    <2>2. CacheType /\ CacheBounded /\ cache \in [DOMAIN cache -> Bytes]
        BY DEF Local, MemType, CacheType
    <2>3. DOMAIN c = DOMAIN cache \cup {l} /\ c[l] = p /\ \A x \in DOMAIN cache : x # l => c[x] = cache[x]
        OBVIOUS
    <2>4. DOMAIN c \subseteq Nat /\ c \in [DOMAIN c -> Bytes]
        BY <1>1, <2>2, <2>3 DEF CacheType
    <2>5. \E n \in Nat : \A x \in DOMAIN c : x < n
        <3>1. PICK n \in Nat : \A x \in DOMAIN cache : x < n
            BY <2>2 DEF CacheBounded
        <3>2. \A x \in DOMAIN c : x < n + l + 1
            BY <1>1, <2>2, <2>3, <3>1 DEF CacheType
        <3>3. n + l + 1 \in Nat
            BY <1>1, <3>1
        <3> QED BY <3>2, <3>3
    <2>6. CASE Cardinality(DOMAIN c) > CacheMax
        <3>1. InPlace(WithCache(c)) /\ cache' = Empty /\ UNCHANGED tmp
            BY <2>1, <2>6 DEF Update
        <3> HIDE DEF c
        <3>2. /\ WithCache(c) \in Seq(Bytes) /\ Len(WithCache(c)) >= Len(inx)
              /\ (\A x \in DOMAIN c : x < Len(inx)) => Len(WithCache(c)) = Len(inx)
              /\ \A x \in Nat : x < Len(inx) =>
                     WithCache(c)[x + 1] = IF x \in DOMAIN c THEN c[x] ELSE inx[x + 1]
            BY <2>4, <2>5, WithCacheFacts, Numbers DEF Local, MemType
        <3>3. CacheType' /\ CacheBounded' /\ DOMAIN cache' = {}
            BY <3>1 DEF Empty, CacheType, CacheBounded
        <3>4. /\ Local'
              /\ usr'.kind = usr.kind /\ usr'.locs = usr.locs /\ usr'.f_size = usr.f_size
              /\ Len(WithCache(c)) = Len(inx) => Len(usr'.data) = Len(usr.data)
            BY <3>1, <3>2, <3>3, InPlaceLocal DEF Local, MemType
        <3>5. Exact => Exact' /\ Len(usr'.data) = Len(usr.data)
            <4> SUFFICES ASSUME Exact PROVE Exact' /\ Len(usr'.data) = Len(usr.data)
                OBVIOUS
            <4>1. \A x \in DOMAIN c : x < Len(inx)
                BY <1>1, <1>4, <2>3 DEF Exact
            <4>2. Len(WithCache(c)) = Len(inx)
                BY <3>2, <4>1
            <4>3. Exact'
                BY <3>1, <3>3, <4>2 DEF Exact, InPlace
            <4> QED BY <3>4, <4>2, <4>3
        <3>6. ASSUME NEW j \in DOMAIN locs, j # k PROVE Value(j)' = Value(j)
            <4>1. CASE locs[j] >= dataLen
                BY <3>1, <4>1 DEF Value
            <4>2. CASE ~(locs[j] >= dataLen)
                <5>1. locs[j] < Len(inx) /\ locs[j] \in Nat
                    BY <1>1, <1>2, <4>2 DEF Local
                <5>2. Value(j)' = WithCache(c)[locs[j] + 1]
                    BY <3>1, <3>3, <4>2 DEF Value, InPlace
                <5>3. locs[j] \in DOMAIN c <=> locs[j] \in DOMAIN cache
                    BY <1>2, <2>3, <3>6
                <5>4. locs[j] \in DOMAIN cache => c[locs[j]] = cache[locs[j]]
                    BY <1>2, <2>3, <3>6
                <5>5. Value(j) = IF locs[j] \in DOMAIN cache THEN cache[locs[j]] ELSE inx[locs[j] + 1]
                    BY <4>2 DEF Value
                <5> QED BY <3>2, <5>1, <5>2, <5>3, <5>4, <5>5
            <4> QED BY <4>1, <4>2
        <3> QED BY <3>4, <3>5, <3>6
    <2>7. CASE ~(Cardinality(DOMAIN c) > CacheMax)
        <3>1. cache' = c /\ UNCHANGED <<tmp, inx, usr>>
            BY <2>1, <2>7 DEF Update
        <3> HIDE DEF c
        <3>2. Local'
            BY <2>4, <2>5, <3>1 DEF Local, MemType, CacheBounded
        <3>3. Exact => Exact'
            BY <1>4, <2>3, <3>1 DEF Exact
        <3>4. ASSUME NEW j \in DOMAIN locs, j # k PROVE Value(j)' = Value(j)
            <4>1. locs[j] \in DOMAIN c <=> locs[j] \in DOMAIN cache
                BY <1>2, <2>3, <3>4
            <4>2. locs[j] \in DOMAIN cache => c[locs[j]] = cache[locs[j]]
                BY <1>2, <2>3, <3>4
            <4> QED BY <3>1, <4>1, <4>2 DEF Value
        <3> QED BY <3>1, <3>2, <3>3, <3>4
    <2> QED BY <2>6, <2>7
<1> QED BY <1>1, <1>3, <1>4
-----------------------------------------------------------------------------
\* A new key gets a place behind all others; a key that the tree has keeps its place.
LEMMA AddLocal ==
    ASSUME Local, NEW k \in Keys, Add(k), UNCHANGED <<cache, inx, usr, open>>
    PROVE  /\ Local' /\ (Exact => Exact')
           /\ DOMAIN locs' = DOMAIN locs \cup {k}
           /\ \A j \in DOMAIN locs : Value(j)' = Value(j)
<1>1. dataLen \in Nat /\ Len(tmp) \in Nat /\ Len(inx) \in Nat
    BY LenProperties DEF Local, MemType
<1>2. tmp' \in Seq(Bytes) /\ Len(tmp') = Len(tmp) + 1 /\ \A i \in 1..Len(tmp) : tmp'[i] = tmp[i]
    BY Numbers, AppendProperties DEF Add, Local, MemType
<1>3. /\ DOMAIN locs' = DOMAIN locs \cup {k}
      /\ \A j \in DOMAIN locs : locs'[j] = locs[j]
      /\ k \notin DOMAIN locs => locs'[k] = dataLen + Len(tmp)
    BY DEF Add
<1>4. \A j \in DOMAIN locs : locs[j] \in Nat /\ locs[j] < dataLen + Len(tmp)
    BY DEF Local, MemType, IsTree, OwnPlaces
<1>5. \A j \in DOMAIN locs' : locs'[j] \in Nat
    BY <1>1, <1>3, <1>4
<1>6. IsTree(locs')
    <2>1. locs' = [j \in DOMAIN locs' |-> locs'[j]]
        BY DEF Add
    <2>2. locs' \in [DOMAIN locs' -> Nat]
        BY <1>5, <2>1
    <2> QED BY <1>3, <2>2 DEF IsTree, Local, MemType
<1>7. OwnPlaces(locs', dataLen' + Len(tmp'))
    <2>1. \A j \in DOMAIN locs' : locs'[j] < dataLen + (Len(tmp) + 1)
        BY <1>1, <1>3, <1>4
    <2>2. ASSUME NEW i \in DOMAIN locs', NEW j \in DOMAIN locs', locs'[i] = locs'[j] PROVE i = j
        <3>1. CASE i \in DOMAIN locs /\ j \in DOMAIN locs
            BY <1>3, <2>2, <3>1 DEF Local, OwnPlaces
        <3>2. CASE i \notin DOMAIN locs /\ j \in DOMAIN locs
            <4>1. i = k /\ locs'[i] = dataLen + Len(tmp) /\ locs'[j] = locs[j]
                BY <1>3, <3>2
            <4>2. locs[j] = dataLen + Len(tmp)
                BY <2>2, <4>1
            <4>3. locs[j] < dataLen + Len(tmp) /\ locs[j] \in Nat
                BY <1>4, <3>2
            <4> QED BY <1>1, <4>2, <4>3
        <3>3. CASE i \in DOMAIN locs /\ j \notin DOMAIN locs
            <4>1. j = k /\ locs'[j] = dataLen + Len(tmp) /\ locs'[i] = locs[i]
                BY <1>3, <3>3
            <4>2. locs[i] = dataLen + Len(tmp)
                BY <2>2, <4>1
            <4>3. locs[i] < dataLen + Len(tmp) /\ locs[i] \in Nat
                BY <1>4, <3>3
            <4> QED BY <1>1, <4>2, <4>3
        <3>4. CASE i \notin DOMAIN locs /\ j \notin DOMAIN locs
            BY <1>3, <3>4
        <3> QED BY <3>1, <3>2, <3>3, <3>4
    <2> QED BY <1>2, <2>1, <2>2 DEF OwnPlaces, Add
<1>8. Local'
    BY <1>2, <1>6, <1>7 DEF Local, MemType, CacheBounded, Add, Placed
<1>9. ASSUME NEW j \in DOMAIN locs PROVE Value(j)' = Value(j)
    <2>1. locs'[j] = locs[j] /\ dataLen' = dataLen
        BY <1>3 DEF Add
    <2>2. CASE locs[j] >= dataLen
        <3>1. tmp'[locs[j] - dataLen + 1] = tmp[locs[j] - dataLen + 1]
            BY <1>2, <2>2, ValueFacts
        <3> QED BY <2>1, <2>2, <3>1 DEF Value
    <2>3. CASE ~(locs[j] >= dataLen)
        BY <2>1, <2>3 DEF Value
    <2> QED BY <2>2, <2>3
<1> QED BY <1>3, <1>8, <1>9 DEF Exact, Add

\* sync, with or without the aging that may follow it.
LEMMA SyncLocal ==
    ASSUME Local, NEW d \in Seq(Bytes), Len(d) = Len(WithCache(cache)), InPlace(d), cache' = Empty,
           UNCHANGED <<locs, zero, dataLen, total, open>>,
           tmp' \in Seq(Bytes), Len(tmp') = Len(tmp)
    PROVE  /\ Local' /\ CacheType' /\ cache' = Empty
           /\ usr'.kind = usr.kind /\ usr'.locs = usr.locs /\ usr'.f_size = usr.f_size
           /\ Exact => Exact' /\ Len(usr'.data) = Len(usr.data)
<1>1. Len(inx) \in Nat /\ Len(d) \in Nat
    BY LenProperties DEF Local, MemType
<1>2. Len(WithCache(cache)) >= Len(inx)
      /\ ((\A l \in DOMAIN cache : l < Len(inx)) => Len(WithCache(cache)) = Len(inx))
    BY WithCacheFacts, Numbers DEF Local, MemType, CacheBounded
<1>3. CacheType' /\ CacheBounded' /\ DOMAIN cache' = {}
    BY DEF Empty, CacheType, CacheBounded
<1>4. /\ Local'
      /\ usr'.kind = usr.kind /\ usr'.locs = usr.locs /\ usr'.f_size = usr.f_size
      /\ Len(d) = Len(inx) => Len(usr'.data) = Len(usr.data)
    BY <1>2, <1>3, InPlaceLocal
<1>5. Exact => Len(d) = Len(inx)
    BY <1>2 DEF Exact
<1>6. Exact => Exact'
    BY <1>3, <1>5 DEF Exact, InPlace
<1> QED BY <1>3, <1>4, <1>5, <1>6

\* The sequence that sync leaves in the data area.
LEMMA SyncType ==
    ASSUME Local
    PROVE  WithCache(cache) \in Seq(Bytes) /\ Len(WithCache(cache)) >= Len(inx)
BY WithCacheFacts, Numbers DEF Local, MemType, CacheBounded

\* The priorities one less each, where they are more than one.
LEMMA AgedType ==
    ASSUME NEW d \in Seq(Bytes), NEW n
    PROVE  /\ [i \in DOMAIN d |-> IF i <= n THEN Older(d[i]) ELSE d[i]] \in Seq(Bytes)
           /\ Len([i \in DOMAIN d |-> IF i <= n THEN Older(d[i]) ELSE d[i]]) = Len(d)
           /\ [i \in DOMAIN d |-> Older(d[i])] \in Seq(Bytes)
           /\ Len([i \in DOMAIN d |-> Older(d[i])]) = Len(d)
<1>1. DOMAIN d = 1..Len(d) /\ Len(d) \in Nat
    BY LenProperties
<1>2. ASSUME NEW v \in Bytes PROVE Older(v) \in Bytes
    BY Numbers DEF Older, Bytes
<1>3. ASSUME NEW i \in 1..Len(d) PROVE d[i] \in Bytes /\ Older(d[i]) \in Bytes
    <2>1. d[i] \in Bytes
        BY ElementOfSeq
    <2> QED BY <1>2, <2>1
<1> DEFINE e == [i \in DOMAIN d |-> IF i <= n THEN Older(d[i]) ELSE d[i]]
           f == [i \in DOMAIN d |-> Older(d[i])]
<1>4. e \in [1..Len(d) -> Bytes] /\ f \in [1..Len(d) -> Bytes]
    BY <1>1, <1>3
<1> HIDE DEF e, f
<1>5. e \in Seq(Bytes) /\ Len(e) = Len(d) /\ f \in Seq(Bytes) /\ Len(f) = Len(d)
    BY <1>1, <1>4, FunctionIsSeq
<1> QED BY <1>5 DEF e, f
-----------------------------------------------------------------------------
\* The cleanup puts the best keys at the first places, with their priorities.
LEMMA RefillLocal ==
    ASSUME Local, NEW order \in [1..Keep -> Listed], IsBest(order),
           locs' = [k \in {order[i] : i \in 1..Keep} |->
                        (CHOOSE i \in 1..Keep : order[i] = k) - 1],
           tmp' = [i \in 1..Keep |-> Value(order[i])],
           zero' = {}, dataLen' = 0, inx' = <<>>, open' = FALSE, total' = Keep,
           UNCHANGED <<cache, usr>>
    PROVE  /\ Local' /\ Len(inx') = 0
           /\ DOMAIN locs' \subseteq DOMAIN locs
           /\ \A k \in DOMAIN locs' : Value(k)' = Value(k)
<1>1. Keep \in Nat
    BY BoundAssumption DEF Keep
<1> HIDE DEF Keep
<1>2. \A i \in 1..Keep : order[i] \in DOMAIN locs
    BY DEF Listed
<1>3. tmp' \in Seq(Bytes) /\ Len(tmp') = Keep
    <2>1. \A i \in 1..Keep : Value(order[i]) \in Bytes
        BY <1>2, ValueFacts
    <2>2. tmp' \in [1..Keep -> Bytes]
        BY <2>1
    <2> QED BY <1>1, <2>2, FunctionIsSeq
<1>4. DOMAIN locs' = {order[i] : i \in 1..Keep}
    OBVIOUS
<1>5. ASSUME NEW k \in DOMAIN locs'
      PROVE  \E i \in 1..Keep : order[i] = k /\ locs'[k] = i - 1
    <2> DEFINE c == CHOOSE i \in 1..Keep : order[i] = k
    <2>1. \E i \in 1..Keep : order[i] = k
        BY <1>4
    <2>2. c \in 1..Keep /\ order[c] = k
        BY <2>1
    <2>3. locs'[k] = c - 1
        BY <1>4
    <2> QED BY <2>2, <2>3
<1>6. \A k \in DOMAIN locs' : locs'[k] \in Nat /\ locs'[k] < Keep
    BY <1>1, <1>5
<1>7. IsTree(locs')
    <2>1. DOMAIN locs' \subseteq Keys
        BY <1>2, <1>4 DEF Local, MemType, IsTree
    <2>2. locs' = [k \in DOMAIN locs' |-> locs'[k]]
        OBVIOUS
    <2>3. locs' \in [DOMAIN locs' -> Nat]
        BY <1>6, <2>2
    <2> QED BY <2>1, <2>3 DEF IsTree
<1>8. \A j, k \in DOMAIN locs' : locs'[j] = locs'[k] => j = k
    <2> SUFFICES ASSUME NEW j \in DOMAIN locs', NEW k \in DOMAIN locs', locs'[j] = locs'[k]
                 PROVE  j = k
        OBVIOUS
    <2>1. PICK a \in 1..Keep : order[a] = j /\ locs'[j] = a - 1
        BY <1>5
    <2>2. PICK b \in 1..Keep : order[b] = k /\ locs'[k] = b - 1
        BY <1>5
    <2>3. a = b
        BY <1>1, <2>1, <2>2
    <2> QED BY <2>1, <2>2, <2>3
<1>9. OwnPlaces(locs', dataLen' + Len(tmp'))
    <2>1. dataLen' + Len(tmp') = Keep
        BY <1>1, <1>3
    <2>2. \A k \in DOMAIN locs' : locs'[k] < dataLen' + Len(tmp')
        BY ONLY <1>6, <2>1
    <2> QED BY ONLY <1>8, <2>2 DEF OwnPlaces
<1>10. inx' \in Seq(Bytes) /\ Len(inx') = 0
    BY EmptySeq
<1>11. Local'
    <2>1. MemType'
        BY <1>1, <1>3, <1>7, <1>10 DEF Local, MemType
    <2>2. CacheBounded' /\ Placed(usr)'
        BY DEF Local, CacheBounded, Placed
    <2>3. dataLen' <= Len(inx') /\ ~open'
        BY <1>10
    <2> QED BY ONLY <1>9, <2>1, <2>2, <2>3 DEF Local
<1>12. ASSUME NEW k \in DOMAIN locs' PROVE Value(k)' = Value(k)
    <2>1. PICK i \in 1..Keep : order[i] = k /\ locs'[k] = i - 1
        BY <1>5
    <2>2. i - 1 >= 0 /\ i - 1 - 0 + 1 = i
        BY <1>1
    <2>3. Value(k)' = tmp'[i]
        BY <2>1, <2>2 DEF Value
    <2> QED BY <2>1, <2>3
<1> QED BY <1>2, <1>4, <1>10, <1>11, <1>12
-----------------------------------------------------------------------------
\* The types of what is not in Local.
Rest ==
    /\ IsFile(ok) /\ IsFile(out) /\ Placed(ok) /\ Placed(out)
    /\ dirty \in BOOLEAN /\ updated \in BOOLEAN /\ forgot \in BOOLEAN /\ stale \in BOOLEAN
    /\ pc \in {"off", "backup", "restore", "run", "save", "learn", "commit"}
    /\ back \in {"run", "learn", "off"}
    /\ todo \in Seq(Keys) /\ pri \in 1..MaxPri
    /\ pc = "learn" \/ (pc = "save" /\ back = "learn") => todo # <<>>
    /\ fds \in 0..FdLimit /\ (pc = "save" => fds >= 2)

\* What memory and the file under way are to each other.
InMemory ==
    /\ stale => forgot
    /\ ~stale => Exact
    /\ pc \in {"backup", "restore"} => cache = Empty /\ Exact
    /\ pc = "restore" => DOMAIN locs = {}
    /\ pc = "backup" => locs = usr.locs
    /\ pc = "save" =>
           /\ Loadable(out) /\ out.locs = locs
           /\ ~stale => cache = Empty /\ out.data = inx \o tmp

\* What the files are to each other.
OnDisk ==
    /\ usr.kind = "db" /\ ~stale => Loadable(usr)
    /\ pc = "backup" => Loadable(usr)
    /\ pc = "restore" => Loadable(ok)
    /\ pc \in {"run", "learn", "commit", "save"} => ok.kind = "none" \/ Loadable(ok)
    /\ BackupGood

\* What is in the backup, the file and the memory.
Kept ==
    ~forgot =>
        /\ Loadable(ok) /\ usr.kind = "db" => DOMAIN ok.locs \subseteq DOMAIN usr.locs
        /\ pc \notin {"off", "restore"} /\ usr.kind = "db" => DOMAIN usr.locs \subseteq DOMAIN locs
        /\ pc \notin {"off", "restore", "backup"} /\ Loadable(ok) =>
               DOMAIN ok.locs \subseteq DOMAIN locs

Inv == Local /\ Rest /\ InMemory /\ OnDisk /\ Kept

\* The parts that the runs check follow.
LEMMA InvImplies ==
    ASSUME Inv PROVE TypeOK /\ BackupGood /\ NoAlias /\ FileExact /\ NothingForgotten
<1>1. TypeOK
    BY DEF Inv, Local, MemType, Rest, TypeOK
<1>2. NoAlias
    BY DEF Inv, Local, Rest, NoAlias, Placed
<1>3. NothingForgotten
    BY DEF Inv, Kept, NothingForgotten, Loadable
<1> QED BY <1>1, <1>2, <1>3 DEF Inv, OnDisk, FileExact

\* Init satisfies the invariant.
LEMMA InitInv == ASSUME Init PROVE Inv
<1>1. <<>> \in Seq(Bytes) /\ Len(<<>>) = 0 /\ <<>> \in Seq(Keys)
    BY EmptySeq
<1>2. IsFile(NoFile) /\ ~Loadable(NoFile) /\ Placed(NoFile) /\ IsTree(Empty) /\ DOMAIN Empty = {}
      /\ NoFile.kind = "none"
    BY NoFileFacts
<1>3. DefaultPri \in 1..MaxPri /\ FdLimit \in 0..FdLimit /\ DefaultPri \in Bytes
    BY PriAssumption, BoundAssumption, Numbers
<1>4. CacheType
    BY DEF Init, CacheType, Empty
<1>5. OwnPlaces(locs, dataLen + Len(tmp))
    BY <1>2 DEF Init, OwnPlaces
<1>6. Local
    <2>1. CacheBounded
        BY <1>2 DEF Init, CacheBounded
    <2>2. MemType
        BY <1>1, <1>2, <1>4 DEF Init, MemType, CacheType
    <2>3. dataLen <= Len(inx) /\ ~open
        BY <1>1 DEF Init
    <2>4. Placed(usr)
        BY <1>2 DEF Init
    <2> QED BY <1>5, <2>1, <2>2, <2>3, <2>4 DEF Local
<1>7. Rest
    BY <1>1, <1>2, <1>3 DEF Init, Rest
<1>8. Exact
    BY <1>1, <1>2 DEF Init, Exact
<1> QED BY <1>2, <1>6, <1>7, <1>8 DEF Inv, Init, InMemory, OnDisk, Kept, BackupGood
-----------------------------------------------------------------------------
(* One lemma for each action: it keeps the invariant, and the priorities. *)

\* A step that leaves the memory and the open file alone.
LEMMA MemoryUnchanged ==
    ASSUME Inv, UNCHANGED <<usr, memory>>
    PROVE  /\ Local' /\ KeepsValues
           /\ Exact <=> Exact'
<1>1. UNCHANGED <<usr, locs, zero, dataLen, tmp, total, inx, open, cache>>
    OBVIOUS
<1>2. Local'
    BY <1>1 DEF Inv, Local, MemType, CacheBounded, Placed
<1>3. Exact <=> Exact'
    BY <1>1 DEF Exact
<1>4. KeepsValues
    BY <1>1 DEF KeepsValues, Value
<1> QED BY <1>2, <1>3, <1>4

\* Start: the file, or an empty tree until the backup is copied, or for good.
LEMMA StartInv == ASSUME Inv, Start PROVE Inv' /\ KeepsValues
<1>1. pc = "off" /\ Load(usr) /\ cache' = Empty /\ dirty' = FALSE /\ fds' = FdLimit
      /\ UNCHANGED <<back, out, todo, pri, updated>>
    BY DEF Start
<1>2. CacheType' /\ CacheBounded' /\ DOMAIN cache' = {}
    BY <1>1 DEF CacheType, CacheBounded, Empty
<1>3. IsFile(usr) /\ Placed(usr) /\ IsFile(ok) /\ Placed(ok) /\ IsFile(out) /\ Placed(out)
    BY DEF Inv, Local, MemType, Rest
<1>4. KeepsValues
    BY <1>1 DEF KeepsValues
<1>5. fds' \in 0..FdLimit
    BY <1>1, Numbers
<1>6. CASE Loadable(usr)
    <2>1. pc' = "backup" /\ UNCHANGED <<usr, ok, forgot, stale>>
        BY <1>6 DEF Start
    <2>2. Local' /\ Len(inx') = dataLen' /\ locs' = usr.locs
        BY <1>1, <1>2, <1>3, <1>6, <2>1, LoadLocal
    <2>3. Exact'
        BY <1>2, <2>2 DEF Exact
    <2>4. Rest'
        BY <1>1, <1>5, <2>1 DEF Inv, Rest, Placed
    <2>5. InMemory'
        BY <1>1, <2>1, <2>2, <2>3 DEF Inv, InMemory
    <2>6. OnDisk'
        BY <1>6, <2>1 DEF Inv, OnDisk, BackupGood, Loadable
    <2>7. Kept'
        BY <2>1, <2>2 DEF Inv, Kept, Loadable
    <2> QED BY <1>4, <2>2, <2>4, <2>5, <2>6, <2>7 DEF Inv
<1>7. CASE ~Loadable(usr) /\ ok.kind # "none"
    <2>1. pc' = "restore" /\ UNCHANGED <<usr, ok, forgot, stale>> /\ Fresh
        BY <1>1, <1>7 DEF Start, Load
    <2>2. Local' /\ Len(inx') = dataLen' /\ DOMAIN locs' = {}
        BY <1>2, <1>3, <2>1, FreshLocal
    <2>3. Exact'
        BY <1>2, <2>2 DEF Exact
    <2>4. Rest'
        BY <1>1, <1>5, <2>1 DEF Inv, Rest, Placed
    <2>5. InMemory'
        BY <1>1, <2>1, <2>2, <2>3 DEF Inv, InMemory
    <2>6. OnDisk'
        BY <1>1, <1>7, <2>1 DEF Inv, OnDisk, BackupGood, Loadable
    <2>7. Kept'
        BY <2>1 DEF Inv, Kept, Loadable
    <2> QED BY <1>4, <2>2, <2>4, <2>5, <2>6, <2>7 DEF Inv
<1>8. CASE ~Loadable(usr) /\ ok.kind = "none"
    <2>1. pc' = "run" /\ usr' = NoFile /\ ok' = NoFile /\ forgot' = FALSE /\ stale' = FALSE /\ Fresh
        BY <1>1, <1>8 DEF Start, Load
    <2>2. IsFile(usr') /\ Placed(usr') /\ usr'.kind = "none" /\ ok'.kind = "none"
          /\ IsFile(ok') /\ Placed(ok') /\ ~Loadable(ok')
        BY <2>1, NoFileFacts
    <2>3. Local' /\ Len(inx') = dataLen' /\ DOMAIN locs' = {}
        BY <1>2, <2>1, <2>2, FreshLocal
    <2>4. Exact'
        BY <1>2, <2>3 DEF Exact
    <2>5. Rest'
        BY <1>1, <1>5, <2>1, <2>2 DEF Inv, Rest, Placed
    <2>6. InMemory'
        BY <2>1, <2>4 DEF InMemory
    <2>7. OnDisk'
        BY <2>1, <2>2 DEF OnDisk, BackupGood
    <2>8. Kept'
        BY <2>1, <2>2 DEF Kept
    <2> QED BY <1>4, <2>3, <2>5, <2>6, <2>7, <2>8 DEF Inv
<1> QED BY <1>6, <1>7, <1>8

\* BackupDone: the backup becomes what was loaded.
LEMMA BackupDoneInv == ASSUME Inv, BackupDone PROVE Inv' /\ KeepsValues
<1>1. pc = "backup" /\ ok' = usr /\ pc' = "run" /\ forgot' = FALSE /\ stale' = FALSE
      /\ UNCHANGED <<usr, memory, dirty, back, out, todo, pri, updated, fds>>
    BY DEF BackupDone
<1>2. Local' /\ KeepsValues /\ Exact'
    BY <1>1, MemoryUnchanged DEF Inv, InMemory
<1>3. IsFile(ok') /\ Placed(ok') /\ Loadable(usr) /\ locs = usr.locs
    BY <1>1 DEF Inv, Local, MemType, OnDisk, InMemory
<1>4. Rest'
    BY <1>1, <1>3 DEF Inv, Rest, Placed
<1>5. InMemory'
    BY <1>1, <1>2 DEF InMemory
<1>6. OnDisk'
    BY <1>1, <1>3 DEF OnDisk, BackupGood, Loadable
<1>7. Kept'
    BY <1>1, <1>3 DEF Kept
<1> QED BY <1>2, <1>4, <1>5, <1>6, <1>7 DEF Inv

\* RestoreDone: the backup is good, and is what the file and the memory become.
LEMMA RestoreDoneInv == ASSUME Inv, RestoreDone PROVE Inv' /\ KeepsValues
<1>1. Loadable(ok) /\ pc = "restore" /\ cache = Empty /\ DOMAIN locs = {}
    BY DEF Inv, OnDisk, InMemory, RestoreDone
<1>2. usr' = ok /\ ok' = ok /\ Load(ok) /\ pc' = "run" /\ forgot' = FALSE /\ stale' = FALSE
      /\ UNCHANGED <<cache, dirty, back, out, todo, pri, updated, fds>>
    BY <1>1 DEF RestoreDone
<1>3. CacheType' /\ CacheBounded' /\ DOMAIN cache' = {}
    BY <1>1, <1>2 DEF CacheType, CacheBounded, Empty
<1>4. Local' /\ Len(inx') = dataLen' /\ locs' = ok.locs
    BY <1>1, <1>2, <1>3, LoadLocal DEF Inv, Rest
<1>5. Exact'
    BY <1>3, <1>4 DEF Exact
<1>6. KeepsValues
    BY <1>1 DEF KeepsValues
<1>7. Rest'
    BY <1>2 DEF Inv, Rest, Placed
<1>8. InMemory'
    BY <1>2, <1>5 DEF InMemory
<1>9. OnDisk'
    BY <1>1, <1>2 DEF OnDisk, BackupGood, Loadable
<1>10. Kept'
    BY <1>2, <1>4 DEF Kept
<1> QED BY <1>4, <1>6, <1>7, <1>8, <1>9, <1>10 DEF Inv

\* A step between two calls that changes neither files nor memory.
LEMMA QuietInv ==
    ASSUME Inv, UNCHANGED <<files, memory, dirty, back, out, forgot, stale, fds>>,
           pc \in {"run", "commit"}, pc' \in {"run", "learn", "commit"},
           todo' \in Seq(Keys), pc' = "learn" => todo' # <<>>,
           pri' \in 1..MaxPri, updated' \in BOOLEAN
    PROVE  Inv' /\ KeepsValues
<1>1. UNCHANGED <<usr, ok, memory, dirty, back, out, forgot, stale, fds>>
    OBVIOUS
<1>2. Local' /\ KeepsValues /\ (Exact <=> Exact')
    BY <1>1, MemoryUnchanged
<1>3. Rest'
    BY <1>1 DEF Inv, Rest, Placed
<1>4. InMemory'
    BY <1>1, <1>2 DEF Inv, InMemory
<1>5. OnDisk'
    BY <1>1 DEF Inv, OnDisk, BackupGood
<1>6. Kept'
    BY <1>1 DEF Inv, Kept
<1> QED BY <1>2, <1>3, <1>4, <1>5, <1>6 DEF Inv

\* Learn and OnCommit begin with the keys of a phrase.
LEMMA LearnInv == ASSUME Inv, NEW p \in Phrases, Learn(p) PROVE Inv' /\ KeepsValues
<1>1. KeysOf[p] \in Seq(Keys) /\ KeysOf[p] # <<>>
    BY KeysAssumption
<1>2. pri' \in 1..MaxPri /\ updated' \in BOOLEAN
    BY DEF Inv, Rest, Learn
<1> QED BY <1>1, <1>2, QuietInv DEF Learn, CanLearn

LEMMA OnCommitInv ==
    ASSUME Inv, NEW p \in Phrases, NEW v \in 1..MaxPri, OnCommit(p, v) PROVE Inv' /\ KeepsValues
<1>1. KeysOf[p] \in Seq(Keys)
    BY KeysAssumption
<1>2. NextPri(v) \in 1..MaxPri
    BY Numbers DEF NextPri
<1> QED BY <1>1, <1>2, QuietInv DEF OnCommit

LEMMA CommitEndInv == ASSUME Inv, CommitEnd PROVE Inv' /\ KeepsValues
<1>1. todo' \in Seq(Keys)
    BY DEF Inv, Rest, CommitEnd
<1> QED BY <1>1, PriAssumption, QuietInv DEF CommitEnd

\* After BeginWrite either the file is under way, or nothing has changed but fds.
LEMMA BeginWriteFacts ==
    ASSUME Inv, NEW d, NEW file, NEW to \in {"run", "learn", "off"},
           BeginWrite(d, file, to)
    PROVE  \/ /\ pc' = "save" /\ back' = to /\ out' = file /\ fds' = fds /\ fds' >= 2
              /\ fds' \in 0..FdLimit
           \/ /\ pc' = to /\ back' = back /\ out' = out /\ fds' \in 0..FdLimit
<1>1. fds \in 0..FdLimit /\ FdLimit \in Nat
    BY Numbers DEF Inv, Rest
<1> QED BY <1>1 DEF BeginWrite

\* Cleanup
LEMMA CleanupInv == ASSUME Inv, NEW p \in Phrases, Cleanup(p) PROVE Inv' /\ KeepsValues
<1>1. PICK order \in [1..Keep -> Listed] :
          /\ IsBest(order)
          /\ locs' = [k \in {order[i] : i \in 1..Keep} |->
                          (CHOOSE i \in 1..Keep : order[i] = k) - 1]
          /\ tmp' = [i \in 1..Keep |-> Value(order[i])]
    BY DEF Cleanup
<1>2. /\ zero' = {} /\ dataLen' = 0 /\ inx' = <<>> /\ open' = FALSE /\ total' = Keep
      /\ UNCHANGED <<usr, ok, cache, pri, updated>>
      /\ todo' = KeysOf[p] /\ pc = "run"
      /\ forgot' = TRUE /\ stale' = (stale \/ cache # Empty) /\ dirty' = (Keep > 0 \/ dirty)
      /\ BeginWrite(dirty', Merged(locs', <<>>, tmp', total'), "learn")
    BY DEF Cleanup, CanLearn, EntriesKept
<1>3. /\ Local' /\ Len(inx') = 0
      /\ DOMAIN locs' \subseteq DOMAIN locs
      /\ \A k \in DOMAIN locs' : Value(k)' = Value(k)
    BY <1>1, <1>2, RefillLocal DEF Inv
<1>4. KeepsValues
    BY <1>3 DEF KeepsValues
<1>5. ~stale' => Exact'
    <2>1. ~stale' => cache' = Empty
        BY <1>2
    <2> QED BY <1>2, <1>3, <2>1 DEF Exact, Empty
<1>6. \/ /\ pc' = "save" /\ back' = "learn" /\ out' = Merged(locs', <<>>, tmp', total')
         /\ fds' >= 2 /\ fds' \in 0..FdLimit
      \/ pc' = "learn" /\ back' = back /\ out' = out /\ fds' \in 0..FdLimit
    BY <1>2, BeginWriteFacts
<1>7. todo' \in Seq(Keys) /\ todo' # <<>>
    BY <1>2, KeysAssumption
<1>8. dirty' \in BOOLEAN /\ stale' \in BOOLEAN /\ forgot' \in BOOLEAN
    <2>1. stale \in BOOLEAN /\ dirty \in BOOLEAN
        BY DEF Inv, Rest
    <2> QED BY <1>2, <2>1
<1>9. tmp' \in Seq(Bytes) /\ IsTree(locs') /\ total' \in Nat /\ Placed(usr')
      /\ OwnPlaces(locs', dataLen' + Len(tmp')) /\ Len(tmp') \in Nat
    BY <1>3, LenProperties DEF Local, MemType
<1>10. <<>> \o tmp' = tmp' /\ inx' \o tmp' = tmp'
    BY <1>2, <1>9, ConcatEmptySeq
<1>11. /\ IsFile(out') /\ Placed(out')
       /\ pc' = "save" => Loadable(out') /\ out'.locs = locs' /\ out'.data = inx' \o tmp'
    <2>1. CASE pc' = "save"
        <3>1. out' = Database(locs', tmp', total')
            BY <1>6, <1>10, <2>1 DEF Merged
        <3>2. IsFile(out') /\ Loadable(out') /\ out'.locs = locs' /\ out'.data = tmp'
            BY <1>9, <3>1, DatabaseFacts
        <3>3. OwnPlaces(out'.locs, Len(out'.data))
            <4>1. dataLen' + Len(tmp') = Len(tmp')
                BY <1>2, <1>9
            <4> QED BY <1>9, <3>2, <4>1
        <3> QED BY <1>10, <3>2, <3>3 DEF Placed
    <2>2. CASE pc' # "save"
        BY <1>6, <2>2 DEF Inv, Rest, Placed
    <2> QED BY <2>1, <2>2
<1>12. Rest'
    BY <1>2, <1>6, <1>7, <1>8, <1>11 DEF Inv, Rest, Placed
<1>13. InMemory'
    BY <1>2, <1>5, <1>6, <1>11 DEF InMemory
<1>14. OnDisk'
    BY <1>2, <1>6 DEF Inv, OnDisk, BackupGood
<1>15. Kept'
    BY <1>2 DEF Kept
<1> QED BY <1>3, <1>4, <1>12, <1>13, <1>14, <1>15 DEF Inv

\* The end of the process, by CleanupPastEnd or Crash.
LEMMA DieInv ==
    ASSUME Inv, Die, pc # "off", UNCHANGED <<forgot, stale>>,
           \/ usr' = usr /\ ok' = ok
           \/ pc \in {"save", "restore"} /\ usr' = Part /\ ok' = ok
           \/ pc = "backup" /\ usr' = usr /\ ok' = Part
    PROVE  Inv' /\ KeepsValues
<1>1. /\ pc' = "off" /\ Fresh /\ cache' = Empty /\ dirty' = FALSE /\ back' = "run" /\ out' = NoFile
      /\ todo' = <<>> /\ pri' = DefaultPri /\ updated' = FALSE /\ fds' = FdLimit
    BY DEF Die, Fresh
<1>2. CacheType' /\ CacheBounded' /\ DOMAIN cache' = {}
    BY <1>1 DEF CacheType, CacheBounded, Empty
<1>3. /\ IsFile(usr') /\ Placed(usr') /\ IsFile(ok') /\ Placed(ok')
      /\ IsFile(out') /\ Placed(out') /\ Part.kind = "part" /\ ~Loadable(Part)
    BY <1>1, NoFileFacts DEF Inv, Local, MemType, Rest
<1>4. Local' /\ Len(inx') = dataLen' /\ DOMAIN locs' = {}
    BY <1>1, <1>2, <1>3, FreshLocal
<1>5. Exact'
    BY <1>2, <1>4 DEF Exact
<1>6. KeepsValues
    BY <1>4 DEF KeepsValues
<1>7. <<>> \in Seq(Keys) /\ FdLimit \in 0..FdLimit
    BY EmptySeq, Numbers
<1>8. Rest'
    <2>1. forgot' \in BOOLEAN /\ stale' \in BOOLEAN
        BY DEF Inv, Rest
    <2> QED BY <1>1, <1>3, <1>7, <2>1, PriAssumption DEF Rest, Placed
<1>9. InMemory'
    BY <1>1, <1>5 DEF Inv, InMemory
<1>10. OnDisk'
    <2>1. usr'.kind = "db" => usr' = usr
        BY <1>3
    <2>2. ok'.kind # "none" => Loadable(ok') \/ Loadable(usr')
        <3>1. CASE usr' = usr /\ ok' = ok
            BY <3>1 DEF Inv, OnDisk, BackupGood
        <3>2. CASE pc \in {"save", "restore"} /\ usr' = Part /\ ok' = ok
            BY <3>2 DEF Inv, OnDisk
        <3>3. CASE pc = "backup" /\ usr' = usr /\ ok' = Part
            BY <3>3 DEF Inv, OnDisk
        <3> QED BY <3>1, <3>2, <3>3
    <2> QED BY <1>1, <2>1, <2>2 DEF Inv, OnDisk, BackupGood
<1>11. Kept'
    <2>1. Loadable(ok') /\ usr'.kind = "db" => ok' = ok /\ usr' = usr
        BY <1>3
    <2> QED BY <1>1, <2>1 DEF Inv, Kept
<1> QED BY <1>4, <1>6, <1>8, <1>9, <1>10, <1>11 DEF Inv

LEMMA CleanupPastEndInv == ASSUME Inv, CleanupPastEnd PROVE Inv' /\ KeepsValues
BY DieInv DEF CleanupPastEnd, CanLearn

LEMMA CrashInv == ASSUME Inv, Crash PROVE Inv' /\ KeepsValues
BY DieInv DEF Crash

\* A step of the holder of m_phraseCS that writes only into the memory and in place.
LEMMA WriteInv ==
    ASSUME Inv, Local', ~stale => Exact' /\ Len(usr'.data) = Len(usr.data),
           usr'.kind = usr.kind, usr'.locs = usr.locs, usr'.f_size = usr.f_size,
           DOMAIN locs \subseteq DOMAIN locs',
           pc \in {"run", "learn", "commit"}, pc' \in {"run", "learn", "commit"},
           UNCHANGED <<ok, back, out, fds, forgot, stale>>,
           dirty' \in BOOLEAN, updated' \in BOOLEAN, pri' \in 1..MaxPri,
           todo' \in Seq(Keys), pc' = "learn" => todo' # <<>>
    PROVE  Inv'
<1>1. Rest'
    BY DEF Inv, Rest, Placed
<1>2. InMemory'
    BY DEF Inv, InMemory
<1>3. OnDisk'
    BY DEF Inv, OnDisk, BackupGood, Loadable
<1>4. Kept'
    BY DEF Inv, Kept
<1> QED BY <1>1, <1>2, <1>3, <1>4 DEF Inv

\* What is left of todo.
LEMMA TodoFacts ==
    ASSUME todo \in Seq(Keys), todo # <<>>
    PROVE  /\ Head(todo) \in Keys /\ Tail(todo) \in Seq(Keys)
           /\ Len(todo) # 1 => Tail(todo) # <<>>
<1>1. Len(todo) \in Nat \ {0}
    BY EmptySeq
<1>2. Head(todo) \in Keys /\ Tail(todo) \in Seq(Keys) /\ Len(Tail(todo)) = Len(todo) - 1
    BY HeadTailProperties
<1>3. Len(<<>>) = 0
    BY EmptySeq
<1> QED BY <1>1, <1>2, <1>3

\* LearnKey: the key is one more, or new, or the system's.
LEMMA LearnKeyInv == ASSUME Inv, LearnKey PROVE Inv' /\ KeepsValues
<1> DEFINE k == Head(todo)
<1>1. /\ pc = "learn" /\ todo' = Tail(todo) /\ pc' = (IF Len(todo) = 1 THEN "run" ELSE "learn")
      /\ UNCHANGED <<ok, open, back, out, pri, updated, fds, forgot, stale>>
    BY DEF LearnKey
<1>2. /\ todo \in Seq(Keys) /\ todo # <<>> /\ dirty \in BOOLEAN /\ updated \in BOOLEAN
      /\ pri \in 1..MaxPri
    BY <1>1 DEF Inv, Rest
<1>3. k \in Keys /\ todo' \in Seq(Keys) /\ (pc' = "learn" => todo' # <<>>)
    BY <1>1, <1>2, TodoFacts
<1>4. ~stale => Exact
    BY DEF Inv, InMemory
<1>5. CASE Visible(k) /\ Value(k) < MaxPri
    <2>1. Update(k, Value(k) + 1) /\ UNCHANGED <<locs, zero, dataLen, total, dirty, open>>
        BY <1>5 DEF LearnKey
    <2>2. k \in DOMAIN locs
        BY <1>5 DEF Visible
    <2>3. Value(k) + 1 \in Bytes
        BY <1>5, <2>2, ValueFacts, Numbers DEF Inv, Bytes
    <2> DEFINE v == Value(k) + 1
    <2>4. Update(k, v) /\ v \in Bytes
        BY <2>1, <2>3
    <2> HIDE DEF v, k
    <2>5. /\ Local'
          /\ Exact => Exact' /\ Len(usr'.data) = Len(usr.data)
          /\ usr'.kind = usr.kind /\ usr'.locs = usr.locs /\ usr'.f_size = usr.f_size
          /\ \A j \in DOMAIN locs : j # k => Value(j)' = Value(j)
        BY <2>1, <2>2, <2>4, UpdateLocal DEF Inv
    <2>6. Inv'
        BY <1>1, <1>2, <1>3, <1>4, <2>1, <2>5, WriteInv
    <2>7. KeepsValues
        BY <1>1, <1>2, <2>5 DEF KeepsValues, k
    <2> QED BY <2>6, <2>7
<1>6. CASE Visible(k) /\ ~(Value(k) < MaxPri)
    <2>1. UNCHANGED <<usr, memory, dirty>>
        BY <1>1, <1>6 DEF LearnKey
    <2>2. Local' /\ KeepsValues /\ (Exact <=> Exact')
        BY <2>1, MemoryUnchanged
    <2>3. Inv'
        BY <1>1, <1>2, <1>3, <1>4, <2>1, <2>2, WriteInv
    <2> QED BY <2>2, <2>3
<1>7. CASE ~Visible(k) /\ k \in SysKeys
    <2>1. UNCHANGED <<usr, memory, dirty>>
        BY <1>1, <1>7 DEF LearnKey
    <2>2. Local' /\ KeepsValues /\ (Exact <=> Exact')
        BY <2>1, MemoryUnchanged
    <2>3. Inv'
        BY <1>1, <1>2, <1>3, <1>4, <2>1, <2>2, WriteInv
    <2> QED BY <2>2, <2>3
<1>8. CASE ~Visible(k) /\ k \notin SysKeys
    <2>1. Add(k) /\ UNCHANGED <<cache, inx, usr, open>>
        BY <1>1, <1>8 DEF LearnKey
    <2>2. dirty' \in BOOLEAN
        BY <2>1 DEF Add
    <2> HIDE DEF k
    <2>3. /\ Local' /\ (Exact => Exact')
          /\ DOMAIN locs' = DOMAIN locs \cup {k}
          /\ \A j \in DOMAIN locs : Value(j)' = Value(j)
        BY <1>3, <2>1, AddLocal DEF Inv
    <2>4. Inv'
        BY <1>1, <1>2, <1>3, <1>4, <2>1, <2>2, <2>3, WriteInv
    <2>5. KeepsValues
        BY <2>3 DEF KeepsValues
    <2> QED BY <2>4, <2>5
<1> QED BY <1>5, <1>6, <1>7, <1>8

\* CommitKey
LEMMA CommitKeyInv == ASSUME Inv, CommitKey PROVE Inv' /\ KeepsValues
<1> DEFINE k == Head(todo)
<1>1. /\ pc = "commit" /\ todo # <<>> /\ todo' = Tail(todo) /\ updated' = (updated \/ Visible(k) \/ k \in SysKeys)
      /\ UNCHANGED <<ok, locs, zero, dataLen, total, open, dirty, pc, back, out, pri, fds, forgot, stale>>
    BY DEF CommitKey
<1>2. todo \in Seq(Keys) /\ dirty \in BOOLEAN /\ pri \in 1..MaxPri
    BY <1>1 DEF Inv, Rest
<1>3. todo' \in Seq(Keys)
    BY <1>1, <1>2, TodoFacts
<1>4. (~stale => Exact) /\ updated' \in BOOLEAN
    <2>1. updated \in BOOLEAN
        BY DEF Inv, Rest
    <2>2. Visible(k) \in BOOLEAN
        BY DEF Visible
    <2> QED BY <1>1, <2>1, <2>2 DEF Inv, InMemory
<1>5. CASE Visible(k)
    <2>1. Update(k, pri)
        BY <1>5 DEF CommitKey
    <2>2. k \in DOMAIN locs
        BY <1>5 DEF Visible
    <2>3. pri \in Bytes
        BY <1>2, Numbers DEF Bytes
    <2> HIDE DEF k
    <2>4. /\ Local'
          /\ Exact => Exact' /\ Len(usr'.data) = Len(usr.data)
          /\ usr'.kind = usr.kind /\ usr'.locs = usr.locs /\ usr'.f_size = usr.f_size
          /\ \A j \in DOMAIN locs : j # k => Value(j)' = Value(j)
        BY <1>1, <2>1, <2>2, <2>3, UpdateLocal DEF Inv
    <2>5. Inv'
        BY <1>1, <1>2, <1>3, <1>4, <2>4, WriteInv
    <2>6. KeepsValues
        BY <1>1, <2>4 DEF KeepsValues, k
    <2> QED BY <2>5, <2>6
<1>6. CASE ~Visible(k)
    <2>1. UNCHANGED <<usr, memory>>
        BY <1>1, <1>6 DEF CommitKey
    <2>2. Local' /\ KeepsValues /\ (Exact <=> Exact')
        BY <2>1, MemoryUnchanged
    <2>3. Inv'
        BY <1>1, <1>2, <1>3, <1>4, <2>1, <2>2, WriteInv
    <2> QED BY <2>2, <2>3
<1> QED BY <1>5, <1>6

\* CommitAges: sync, and then every byte but the ones at 0 or 1 one less.
LEMMA CommitAgesInv == ASSUME Inv, CommitAges PROVE Inv' /\ KeepsValues
<1> DEFINE d == WithCache(cache)
           e == [i \in DOMAIN d |-> IF i <= dataLen THEN Older(d[i]) ELSE d[i]]
<1>1. /\ pc = "commit" /\ todo = <<>> /\ InPlace(e) /\ tmp' = [i \in DOMAIN tmp |-> Older(tmp[i])]
      /\ cache' = Empty /\ pc' = "run" /\ pri' = DefaultPri /\ updated' = FALSE
      /\ UNCHANGED <<ok, locs, zero, dataLen, total, open, dirty, back, out, todo, fds, forgot, stale>>
    BY DEF CommitAges
<1>2. d \in Seq(Bytes) /\ tmp \in Seq(Bytes)
    BY SyncType DEF Inv, Local, MemType
<1>3. e \in Seq(Bytes) /\ Len(e) = Len(d)
    <2> HIDE DEF d
    <2> QED BY <1>2, AgedType
<1>4. tmp' \in Seq(Bytes) /\ Len(tmp') = Len(tmp)
    BY <1>1, <1>2, AgedType
<1> HIDE DEF e
<1>5. /\ Local'
      /\ usr'.kind = usr.kind /\ usr'.locs = usr.locs /\ usr'.f_size = usr.f_size
      /\ Exact => Exact' /\ Len(usr'.data) = Len(usr.data)
    BY <1>1, <1>3, <1>4, SyncLocal DEF Inv
<1>6. /\ dirty' \in BOOLEAN /\ todo' \in Seq(Keys) /\ pri' \in 1..MaxPri /\ updated' \in BOOLEAN
      /\ ~stale => Exact
    BY <1>1, PriAssumption DEF Inv, Rest, InMemory
<1>7. Inv'
    BY <1>1, <1>5, <1>6, WriteInv
<1>8. KeepsValues
    BY <1>1 DEF KeepsValues
<1> QED BY <1>7, <1>8

\* SyncJob and Quit: sync, and then what write() begins.
LEMMA SyncInv == ASSUME Inv, NEW to \in {"run", "off"}, Sync(to) PROVE Inv' /\ KeepsValues
<1> DEFINE d == WithCache(cache)
<1>1. /\ pc = "run" /\ InPlace(d) /\ cache' = Empty
      /\ BeginWrite(dirty, Merged(locs, inx', tmp, total), to)
      /\ UNCHANGED <<ok, locs, zero, dataLen, tmp, total, open, dirty, todo, pri, updated, forgot, stale>>
    BY DEF Sync
<1>2. d \in Seq(Bytes) /\ tmp \in Seq(Bytes) /\ inx' = d
    BY <1>1, SyncType DEF Inv, Local, MemType, InPlace
<1>3. /\ Local' /\ CacheType'
      /\ usr'.kind = usr.kind /\ usr'.locs = usr.locs /\ usr'.f_size = usr.f_size
      /\ Exact => Exact' /\ Len(usr'.data) = Len(usr.data)
    BY <1>1, <1>2, SyncLocal DEF Inv
<1> HIDE DEF d
<1>4. \/ /\ pc' = "save" /\ back' = to /\ out' = Merged(locs, inx', tmp, total)
         /\ fds' >= 2 /\ fds' \in 0..FdLimit
      \/ pc' = to /\ back' = back /\ out' = out /\ fds' \in 0..FdLimit
    BY <1>1, BeginWriteFacts
<1>5. /\ IsFile(out') /\ Placed(out')
      /\ pc' = "save" => Loadable(out') /\ out'.locs = locs' /\ out'.data = inx' \o tmp'
    <2>1. CASE pc' = "save"
        <3>1. out' = Database(locs, inx' \o tmp, total)
            BY <1>4, <2>1 DEF Merged
        <3>2. /\ inx' \o tmp \in Seq(Bytes) /\ Len(inx' \o tmp) = Len(inx') + Len(tmp)
              /\ Len(inx') \in Nat /\ Len(tmp) \in Nat
            BY <1>2, ConcatProperties, LenProperties
        <3>3. IsTree(locs) /\ total \in Nat /\ dataLen' <= Len(inx') /\ dataLen' \in Nat
              /\ OwnPlaces(locs', dataLen' + Len(tmp')) /\ \A j \in DOMAIN locs : locs[j] \in Nat
            BY <1>3 DEF Inv, Local, MemType, IsTree
        <3>4. /\ IsFile(out') /\ Loadable(out') /\ out'.locs = locs /\ out'.data = inx' \o tmp
            <4> DEFINE bytes == inx' \o tmp
            <4>1. bytes \in Seq(Bytes) /\ out' = Database(locs, bytes, total)
                BY <3>1, <3>2
            <4> HIDE DEF bytes
            <4>2. LET f == Database(locs, bytes, total) IN
                  IsFile(f) /\ Loadable(f) /\ f.locs = locs /\ f.data = bytes
                BY <3>3, <4>1, DatabaseFacts
            <4>3. IsFile(out') /\ Loadable(out') /\ out'.locs = locs /\ out'.data = bytes
                BY <4>1, <4>2
            <4> QED BY <4>3 DEF bytes
        <3>5. OwnPlaces(locs, Len(inx') + Len(tmp))
            BY <1>1, <3>2, <3>3 DEF OwnPlaces
        <3> QED BY <1>1, <3>2, <3>4, <3>5 DEF Placed
    <2>2. CASE pc' # "save"
        BY <1>4, <2>2 DEF Inv, Rest, Placed
    <2> QED BY <2>1, <2>2
<1>6. Rest'
    BY <1>1, <1>4, <1>5 DEF Inv, Rest, Placed
<1>7. ~stale => Exact' /\ Len(usr'.data) = Len(usr.data)
    BY <1>3 DEF Inv, InMemory
<1>8. InMemory'
    BY <1>1, <1>4, <1>5, <1>7 DEF Inv, InMemory
<1>9. OnDisk'
    BY <1>1, <1>3, <1>4, <1>7 DEF Inv, OnDisk, BackupGood, Loadable
<1>10. Kept'
    BY <1>1, <1>3, <1>4 DEF Inv, Kept
<1>11. ASSUME NEW k \in DOMAIN locs PROVE Value(k)' = Value(k)
    <2>1. CASE locs[k] >= dataLen
        BY <1>1, <2>1 DEF Value
    <2>2. CASE ~(locs[k] >= dataLen)
        <3>1. locs[k] \in Nat /\ locs[k] < Len(inx)
            <4>1. locs[k] \in Nat /\ dataLen \in Nat /\ dataLen <= Len(inx) /\ Len(inx) \in Nat
                BY LenProperties DEF Inv, Local, MemType, IsTree
            <4> QED BY <2>2, <4>1
        <3>2. d[locs[k] + 1] = IF locs[k] \in DOMAIN cache THEN cache[locs[k]] ELSE inx[locs[k] + 1]
            BY <3>1, WithCacheFacts, Numbers DEF Inv, Local, MemType, CacheBounded, d
        <3>3. DOMAIN cache' = {}
            BY <1>1 DEF Empty
        <3>4. Value(k)' = d[locs[k] + 1]
            BY <1>1, <1>2, <2>2, <3>3 DEF Value
        <3>5. Value(k) = IF locs[k] \in DOMAIN cache THEN cache[locs[k]] ELSE inx[locs[k] + 1]
            BY <2>2 DEF Value
        <3> QED BY <3>2, <3>4, <3>5
    <2> QED BY <2>1, <2>2
<1>12. KeepsValues
    BY <1>11 DEF KeepsValues
<1> QED BY <1>3, <1>6, <1>8, <1>9, <1>10, <1>12 DEF Inv

\* SaveDone: what was tmp is now at the end of the data area.
LEMMA SaveDoneInv == ASSUME Inv, SaveDone PROVE Inv' /\ KeepsValues
<1>1. /\ pc = "save" /\ usr' = out /\ dirty' = FALSE /\ Load(out)
      /\ pc' = back /\ back' = "run" /\ out' = NoFile
      /\ UNCHANGED <<ok, cache, todo, pri, updated, fds, forgot, stale>>
    BY DEF SaveDone
<1>2. /\ Loadable(out) /\ out.locs = locs /\ (~stale => cache = Empty /\ out.data = inx \o tmp)
      /\ IsFile(out) /\ Placed(out) /\ out.kind = "db"
    BY <1>1 DEF Inv, InMemory, Rest, Loadable
<1>3. CacheType' /\ CacheBounded'
    BY <1>1 DEF Inv, Local, MemType, CacheType, CacheBounded
<1>4. Local' /\ Len(inx') = dataLen' /\ locs' = locs
    BY <1>1, <1>2, <1>3, LoadLocal
<1>5. dataLen' = Len(out.data) /\ inx' = out.data
    BY <1>1, <1>2 DEF Load, Loaded
<1>6. ~stale => Exact'
    BY <1>1, <1>2, <1>4 DEF Exact, Empty
<1>7. IsFile(out') /\ Placed(out')
    BY <1>1, NoFileFacts
<1>8. Rest'
    BY <1>1, <1>7 DEF Inv, Rest, Placed
<1>9. InMemory'
    BY <1>1, <1>6 DEF Inv, InMemory, Rest
<1>10. OnDisk'
    BY <1>1, <1>2 DEF Inv, OnDisk, BackupGood, Rest
<1>11. Kept'
    BY <1>1, <1>2, <1>4 DEF Inv, Kept
<1>12. ASSUME ~stale, NEW k \in DOMAIN locs PROVE Value(k)' = Value(k)
    <2> DEFINE l == locs[k]
    <2>1. /\ l \in Nat /\ dataLen \in Nat /\ Len(tmp) \in Nat /\ inx \in Seq(Bytes) /\ tmp \in Seq(Bytes)
          /\ Len(inx) = dataLen /\ l < dataLen + Len(tmp) /\ DOMAIN cache = {} /\ DOMAIN cache' = {}
        BY <1>1, <1>2, <1>12, LenProperties DEF Inv, Local, MemType, IsTree, OwnPlaces, InMemory, Exact, Empty
    <2>2. /\ Len(inx \o tmp) = dataLen + Len(tmp)
          /\ \A i \in 1..(dataLen + Len(tmp)) : (inx \o tmp)[i] =
                  IF i <= dataLen THEN inx[i] ELSE tmp[i - dataLen]
        BY <2>1, ConcatProperties
    <2>3. Value(k)' = (inx \o tmp)[l + 1]
        <3>1. inx' = inx \o tmp /\ dataLen' = dataLen + Len(tmp)
            BY <1>2, <1>5, <1>12, <2>2
        <3>2. ~(l >= dataLen + Len(tmp))
            BY <2>1
        <3> QED BY <1>4, <2>1, <3>1, <3>2 DEF Value
    <2>4. l + 1 \in 1..(dataLen + Len(tmp))
        BY <2>1
    <2>5. CASE l >= dataLen
        <3>1. ~(l + 1 <= dataLen) /\ (l + 1) - dataLen = l - dataLen + 1
            BY <2>1, <2>5
        <3>2. (inx \o tmp)[l + 1] = tmp[l - dataLen + 1]
            BY <2>2, <2>4, <3>1
        <3>3. Value(k) = tmp[l - dataLen + 1]
            BY <2>5 DEF Value
        <3> QED BY <2>3, <3>2, <3>3
    <2>6. CASE ~(l >= dataLen)
        <3>1. l + 1 <= dataLen
            BY <2>1, <2>6
        <3>2. Value(k) = inx[l + 1]
            BY <2>1, <2>6 DEF Value
        <3> QED BY <2>2, <2>3, <2>4, <3>1, <3>2
    <2> QED BY <2>5, <2>6
<1>13. KeepsValues
    BY <1>1, <1>12 DEF KeepsValues
<1> QED BY <1>4, <1>8, <1>9, <1>10, <1>11, <1>13 DEF Inv

\* SaveFail: nothing is left but the backup.
LEMMA SaveFailInv == ASSUME Inv, SaveFail PROVE Inv' /\ KeepsValues
<1>1. /\ pc = "save" /\ usr' = Part /\ Fresh
      /\ pc' = back /\ back' = "run" /\ out' = NoFile /\ fds' = fds - 1 /\ forgot' = TRUE
      /\ UNCHANGED <<ok, cache, dirty, todo, pri, updated, stale>>
    BY DEF SaveFail
<1>2. /\ IsFile(usr') /\ Placed(usr') /\ usr'.kind = "part" /\ ~Loadable(usr')
      /\ IsFile(out') /\ Placed(out')
    BY <1>1, NoFileFacts
<1>3. CacheType' /\ CacheBounded'
    BY <1>1 DEF Inv, Local, MemType, CacheType, CacheBounded
<1>4. Local' /\ Len(inx') = dataLen' /\ DOMAIN locs' = {}
    BY <1>1, <1>2, <1>3, FreshLocal
<1>5. KeepsValues
    BY <1>4 DEF KeepsValues
<1>6. ~stale => Exact'
    BY <1>1, <1>4 DEF Inv, InMemory, Exact, Empty
<1>7. fds' \in 0..FdLimit
    BY <1>1, Numbers DEF Inv, Rest
<1>8. Rest'
    BY <1>1, <1>2, <1>7 DEF Inv, Rest, Placed
<1>9. InMemory'
    BY <1>1, <1>6 DEF Inv, InMemory, Rest
<1>10. OnDisk'
    BY <1>1, <1>2 DEF Inv, OnDisk, BackupGood, Rest
<1>11. Kept'
    BY <1>1 DEF Kept
<1> QED BY <1>4, <1>5, <1>8, <1>9, <1>10, <1>11 DEF Inv
-----------------------------------------------------------------------------
\* Every step keeps the invariant, and changes priorities as KeepsValues says.
LEMMA NextInv == ASSUME Inv, [Next]_vars PROVE Inv' /\ [KeepsValues]_vars
<1>1. CASE Start \/ BackupDone \/ RestoreDone
    BY <1>1, StartInv, BackupDoneInv, RestoreDoneInv
<1>2. CASE \E p \in Phrases : Learn(p) \/ Cleanup(p)
    BY <1>2, LearnInv, CleanupInv
<1>3. CASE CleanupPastEnd \/ LearnKey
    BY <1>3, CleanupPastEndInv, LearnKeyInv
<1>4. CASE \E p \in Phrases, v \in 1..MaxPri : OnCommit(p, v)
    BY <1>4, OnCommitInv
<1>5. CASE CommitKey \/ CommitEnd \/ CommitAges
    BY <1>5, CommitKeyInv, CommitEndInv, CommitAgesInv
<1>6. CASE SyncJob \/ Quit
    BY <1>6, SyncInv DEF SyncJob, Quit
<1>7. CASE Saving
    BY <1>7, SaveDoneInv, SaveFailInv DEF Saving
<1>8. CASE Crash
    BY <1>8, CrashInv
<1>9. CASE UNCHANGED vars
    <2>1. UNCHANGED <<usr, ok, memory, dirty, pc, back, out, todo, pri, updated, fds, forgot, stale>>
        BY <1>9 DEF vars
    <2>2. Local' /\ KeepsValues /\ (Exact <=> Exact')
        BY <2>1, MemoryUnchanged
    <2>3. Rest' /\ OnDisk' /\ Kept'
        BY <2>1 DEF Inv, Rest, Placed, OnDisk, BackupGood, Kept
    <2>4. InMemory'
        BY <2>1, <2>2 DEF Inv, InMemory
    <2> QED BY <2>2, <2>3, <2>4 DEF Inv
<1> QED BY <1>1, <1>2, <1>3, <1>4, <1>5, <1>6, <1>7, <1>8, <1>9 DEF Next

LEMMA AlwaysInv == Spec => []Inv
<1>1. Inv /\ [Next]_vars => Inv'
    BY NextInv
<1> QED BY <1>1, InitInv, PTL DEF Spec

\* The state of the database is well typed.
THEOREM TypeCorrect == Spec => []TypeOK
<1>1. Inv => TypeOK
    BY InvImplies
<1> QED BY <1>1, AlwaysInv, PTL

\* Once there was a backup, one of the two files can be loaded, whenever the process dies
\* or a copy fails (PY.cpp:51-73).
THEOREM BackupGoodHolds == Spec => []BackupGood
<1>1. Inv => BackupGood
    BY InvImplies
<1> QED BY <1>1, AlwaysInv, PTL

\* Every key has a byte of its own, in memory and in each file (IndexTreeWriter.cpp:106).
THEOREM NoAliasHolds == Spec => []NoAlias
<1>1. Inv => NoAlias
    BY InvImplies
<1> QED BY <1>1, AlwaysInv, PTL

\* Writing in place keeps the file as long as its header says, but for the cache that a
\* cleanup leaves (IndexTreeWriter.cpp:632, PY.cpp:690).
THEOREM FileExactHolds == Spec => []FileExact
<1>1. Inv => FileExact
    BY InvImplies
<1> QED BY <1>1, AlwaysInv, PTL

\* No key gets lost between backup, file and memory without a cleanup or a failed copy.
THEOREM NothingForgottenHolds == Spec => []NothingForgotten
<1>1. Inv => NothingForgotten
    BY InvImplies
<1> QED BY <1>1, AlwaysInv, PTL

\* A priority changes only by a commit or a lesson of its own key, or by the aging: not by
\* cache, sync, write and load.
THEOREM ValuesKeptHolds == Spec => ValuesKept
<1>1. Inv /\ [Next]_vars => [KeepsValues]_vars
    BY NextInv
<1> QED BY <1>1, AlwaysInv, PTL DEF Spec, ValuesKept
-----------------------------------------------------------------------------
(* The size of the database. *)

\* A number of entries that a phrase may have made, when the cleanup came in time.
Fits(t) == t <= MaxEntry \/ \E p \in Phrases : t <= MaxEntry + Len(KeysOf[p])

\* A tree with at most the keys that were counted.
Counted(l, t) == IsFiniteSet(DOMAIN l) /\ Cardinality(DOMAIN l) <= t /\ Fits(t)

\* There is room for what is left of the lesson.
HasRoom(t) == \E p \in Phrases : t + Len(todo) <= MaxEntry + Len(KeysOf[p])

\* The memory and each file are within the bound, also with the rest of the lesson.
Sized ==
    /\ Counted(locs, total)
    /\ Counted(usr.locs, usr.total) /\ Counted(ok.locs, ok.total) /\ Counted(out.locs, out.total)
    /\ pc = "learn" => HasRoom(total)
    /\ pc = "save" /\ back = "learn" => HasRoom(total) /\ HasRoom(out.total)

LEMMA EmptyCounted ==
    /\ Counted(Empty, 0)
    /\ NoFile.locs = Empty /\ NoFile.total = 0 /\ Part.locs = Empty /\ Part.total = 0
<1>1. DOMAIN Empty = {} /\ IsFiniteSet({}) /\ Cardinality({}) = 0
    BY FS_EmptySet, NoFileFacts
<1>2. 0 <= MaxEntry
    BY Numbers
<1> QED BY <1>1, <1>2 DEF Counted, Fits, NoFile, Part

\* Whatever a start finds.
LEMMA LoadCounted ==
    ASSUME NEW f, Counted(f.locs, f.total), Load(f)
    PROVE  /\ Counted(locs, total)'
           /\ Loadable(f) => total' = f.total
           /\ ~Loadable(f) => total' = 0
BY EmptyCounted DEF Load, Loaded, Fresh, Counted

LEMMA FreshCounted == Fresh => Counted(locs, total)' /\ total' = 0
BY EmptyCounted DEF Fresh, Counted

\* Writing in place leaves the tree of the file alone.
LEMMA InPlaceCounted ==
    ASSUME Inv, Sized, NEW d, usr' = usr \/ InPlace(d)
    PROVE  Counted(usr.locs, usr.total)'
<1>1. IsFile(usr)
    BY DEF Inv, Local, MemType
<1>2. usr'.locs = usr.locs /\ usr'.total = usr.total
    BY <1>1 DEF InPlace, IsFile
<1> QED BY <1>2 DEF Sized, Counted

LEMMA UpdateInPlace ==
    ASSUME NEW k, NEW v, Update(k, v)
    PROVE  \E d : usr' = usr \/ InPlace(d)
BY DEF Update

\* The lengths and counts that occur.
LEMMA SizeTypes ==
    ASSUME Inv
    PROVE  /\ total \in Nat /\ Len(todo) \in Nat /\ out.total \in Nat /\ MaxEntry \in Nat
           /\ Keep \in Nat /\ Keep <= MaxEntry
           /\ \A p \in Phrases : Len(KeysOf[p]) \in Nat
<1>1. total \in Nat /\ out.total \in Nat
    BY DEF Inv, Local, MemType, Rest, IsFile
<1>2. Len(todo) \in Nat
    BY LenProperties DEF Inv, Rest
<1>3. \A p \in Phrases : Len(KeysOf[p]) \in Nat
    BY KeysAssumption, LenProperties
<1>4. MaxEntry \in Nat /\ Keep \in Nat /\ Keep <= MaxEntry
    BY Numbers DEF Keep
<1> QED BY <1>1, <1>2, <1>3, <1>4

LEMMA RoomFits ==
    ASSUME Inv, NEW t \in Nat, HasRoom(t)
    PROVE  Fits(t)
<1>1. PICK p \in Phrases : t + Len(todo) <= MaxEntry + Len(KeysOf[p])
    BY DEF HasRoom
<1>2. t <= MaxEntry + Len(KeysOf[p])
    BY <1>1, SizeTypes
<1> QED BY <1>2 DEF Fits
-----------------------------------------------------------------------------
LEMMA StartSized ==
    ASSUME Inv, Sized, Start \/ BackupDone \/ RestoreDone PROVE Sized'
<1>1. CASE Start
    <2>1. Counted(locs, total)'
        BY <1>1, LoadCounted DEF Start, Sized
    <2>2. Counted(usr.locs, usr.total)' /\ Counted(ok.locs, ok.total)'
        BY <1>1, EmptyCounted DEF Start, Sized, Counted
    <2> QED BY <1>1, <2>1, <2>2 DEF Start, Sized, Counted
<1>2. CASE BackupDone
    BY <1>2 DEF BackupDone, Sized, Counted, memory, tree
<1>3. CASE RestoreDone
    <2>1. Counted(locs, total)'
        BY <1>3, LoadCounted DEF RestoreDone, Sized
    <2>2. Counted(usr.locs, usr.total)' /\ Counted(ok.locs, ok.total)'
        BY <1>3, EmptyCounted DEF RestoreDone, Sized, Counted
    <2> QED BY <1>3, <2>1, <2>2 DEF RestoreDone, Sized, Counted
<1> QED BY <1>1, <1>2, <1>3

\* A lesson begins below the limit.
LEMMA LearnSized == ASSUME Inv, Sized, NEW p \in Phrases, Learn(p) PROVE Sized'
<1>1. total + Len(todo') <= MaxEntry + Len(KeysOf[p])
    BY SizeTypes DEF Learn, NeedsCleanup
<1>2. HasRoom(total)'
    BY <1>1 DEF HasRoom, Learn
<1> QED BY <1>2 DEF Learn, Sized, Counted

\* A cleanup leaves half of the entries at most.
LEMMA CleanupSized == ASSUME Inv, Sized, NEW p \in Phrases, Cleanup(p) PROVE Sized'
<1>1. PICK order \in [1..Keep -> Listed] :
          locs' = [k \in {order[i] : i \in 1..Keep} |->
                      (CHOOSE i \in 1..Keep : order[i] = k) - 1]
    BY DEF Cleanup
<1>2. /\ total' = Keep /\ todo' = KeysOf[p] /\ UNCHANGED <<usr, ok>> /\ pc = "run"
      /\ BeginWrite(dirty', Merged(locs', <<>>, tmp', total'), "learn")
    BY DEF Cleanup, EntriesKept, CanLearn
<1> DEFINE best == {order[i] : i \in 1..Keep}
           f == [i \in 1..Keep |-> order[i]]
<1>3. DOMAIN locs' = best
    BY <1>1
<1>4. IsFiniteSet(best) /\ Cardinality(best) <= Keep
    <2>1. f \in Surjection(1..Keep, best)
        BY DEF Surjection
    <2>2. IsFiniteSet(1..Keep) /\ Cardinality(1..Keep) = Keep
        BY SizeTypes, FS_Interval
    <2> HIDE DEF f, best
    <2> QED BY <2>1, <2>2, FS_Surjection
<1>5. Counted(locs, total)'
    <2>1. Fits(total)'
        BY <1>2, SizeTypes DEF Fits
    <2> HIDE DEF best
    <2> QED BY <1>2, <1>3, <1>4, <2>1 DEF Counted
<1>6. HasRoom(total)'
    BY <1>2, SizeTypes DEF HasRoom
<1>7. \/ pc' = "save" /\ back' = "learn" /\ out' = Merged(locs', <<>>, tmp', total')
      \/ pc' = "learn" /\ out' = out
    BY <1>2 DEF BeginWrite
<1>8. Counted(out.locs, out.total)' /\ (pc' = "save" => HasRoom(out.total)')
    BY <1>5, <1>6, <1>7 DEF Sized, Counted, Merged, Database, HasRoom
<1> QED BY <1>2, <1>5, <1>6, <1>7, <1>8 DEF Sized, Counted

\* Each key of a lesson takes at most one entry.
LEMMA LearnKeySized == ASSUME Inv, Sized, LearnKey PROVE Sized'
<1> DEFINE k == Head(todo)
<1>1. /\ pc = "learn" /\ todo' = Tail(todo) /\ UNCHANGED <<ok, out>> /\ pc' \in {"run", "learn"}
      /\ todo # <<>> /\ todo \in Seq(Keys)
    BY DEF LearnKey, Inv, Rest
<1>2. Len(todo') \in Nat /\ Len(todo) = Len(todo') + 1
    <2>1. Len(Tail(todo)) = Len(todo) - 1
        BY <1>1, HeadTailProperties
    <2>2. Len(todo) \in Nat \ {0}
        BY <1>1, EmptySeq
    <2> QED BY <1>1, <2>1, <2>2
<1>3. Counted(usr.locs, usr.total)'
    <2>1. \E d : usr' = usr \/ InPlace(d)
        BY UpdateInPlace DEF LearnKey
    <2> QED BY <2>1, InPlaceCounted
<1>4. PICK p \in Phrases : total + Len(todo) <= MaxEntry + Len(KeysOf[p])
    BY <1>1 DEF Sized, HasRoom
<1>5. /\ total' \in {total, total + 1}
      /\ \/ locs' = locs
         \/ DOMAIN locs' = DOMAIN locs \cup {k} /\ total' = total + 1
    BY DEF LearnKey, Add
<1>6. total' + Len(todo') <= MaxEntry + Len(KeysOf[p]) /\ total' \in Nat /\ total' >= total
    BY <1>2, <1>4, <1>5, SizeTypes
<1>7. HasRoom(total)'
    BY <1>6 DEF HasRoom
<1>8. Fits(total)'
    BY <1>2, <1>6, SizeTypes DEF Fits
<1>9. IsFiniteSet(DOMAIN locs) /\ Cardinality(DOMAIN locs) <= total /\ Cardinality(DOMAIN locs) \in Nat
    BY FS_CardinalityType DEF Sized, Counted
<1>10. Counted(locs, total)'
    <2>1. CASE locs' = locs
        BY <1>6, <1>8, <1>9, <2>1, SizeTypes DEF Counted
    <2>2. CASE DOMAIN locs' = DOMAIN locs \cup {k} /\ total' = total + 1
        <3> HIDE DEF k
        <3>1. IsFiniteSet(DOMAIN locs') /\ Cardinality(DOMAIN locs') <= Cardinality(DOMAIN locs) + 1
            BY <1>9, <2>2, FS_AddElement
        <3>2. Cardinality(DOMAIN locs') \in Nat
            BY <3>1, FS_CardinalityType
        <3> QED BY <1>8, <1>9, <2>2, <3>1, <3>2, SizeTypes DEF Counted
    <2> QED BY <1>5, <2>1, <2>2
<1> QED BY <1>1, <1>3, <1>7, <1>10 DEF Sized, Counted

\* Commits count nothing.
LEMMA CommitSized ==
    ASSUME Inv, Sized,
           \/ \E p \in Phrases, v \in 1..MaxPri : OnCommit(p, v)
           \/ CommitKey \/ CommitEnd \/ CommitAges
    PROVE  Sized'
<1>1. UNCHANGED <<ok, locs, total, out>> /\ pc' \in {"run", "commit"}
    BY DEF OnCommit, CommitKey, CommitEnd, CommitAges, Inv, Rest, memory, tree, files
<1>2. \E d : usr' = usr \/ InPlace(d)
    BY UpdateInPlace DEF OnCommit, CommitKey, CommitEnd, CommitAges, files
<1>3. Counted(usr.locs, usr.total)'
    BY <1>2, InPlaceCounted
<1> QED BY <1>1, <1>3 DEF Sized, Counted

LEMMA SyncSized == ASSUME Inv, Sized, NEW to \in {"run", "off"}, Sync(to) PROVE Sized'
<1>1. /\ UNCHANGED <<ok, locs, total>> /\ InPlace(WithCache(cache)) /\ pc = "run"
      /\ BeginWrite(dirty, Merged(locs, inx', tmp, total), to)
    BY DEF Sync, tree
<1>2. Counted(usr.locs, usr.total)'
    BY <1>1, InPlaceCounted
<1>3. \/ pc' = "save" /\ back' = to /\ out' = Merged(locs, inx', tmp, total)
      \/ pc' = to /\ out' = out
    BY <1>1 DEF BeginWrite
<1>4. Counted(out.locs, out.total)'
    BY <1>1, <1>3 DEF Sized, Counted, Merged, Database
<1> QED BY <1>1, <1>2, <1>3, <1>4 DEF Sized, Counted

LEMMA SavingSized == ASSUME Inv, Sized, Saving PROVE Sized'
<1>1. /\ pc = "save" /\ pc' = back /\ back' = "run" /\ out' = NoFile /\ UNCHANGED <<ok, todo>>
      /\ back \in {"run", "learn", "off"}
    BY DEF Saving, SaveDone, SaveFail, Inv, Rest, local
<1>2. Counted(out.locs, out.total)' /\ Counted(ok.locs, ok.total)'
    BY <1>1, EmptyCounted DEF Sized, Counted
<1>3. CASE SaveDone
    <2>1. Load(out) /\ usr' = out /\ Loadable(out)
        BY <1>1, <1>3 DEF SaveDone, Inv, InMemory
    <2>2. Counted(locs, total)' /\ total' = out.total /\ Counted(usr.locs, usr.total)'
        BY <2>1, LoadCounted DEF Sized, Counted
    <2>3. pc' = "learn" => HasRoom(total)'
        BY <1>1, <2>2 DEF Sized, HasRoom
    <2> QED BY <1>1, <1>2, <2>2, <2>3 DEF Sized, Counted
<1>4. CASE SaveFail
    <2>1. Counted(locs, total)' /\ total' = 0 /\ Counted(usr.locs, usr.total)'
        BY <1>4, FreshCounted, EmptyCounted DEF SaveFail, Counted
    <2>2. ASSUME pc' = "learn" PROVE HasRoom(total)'
        <3>1. PICK p \in Phrases : total + Len(todo) <= MaxEntry + Len(KeysOf[p])
            BY <1>1, <2>2 DEF Sized, HasRoom
        <3>2. 0 + Len(todo) <= MaxEntry + Len(KeysOf[p])
            BY <3>1, SizeTypes
        <3> QED BY <1>1, <2>1, <3>2 DEF HasRoom
    <2> QED BY <1>1, <1>2, <2>1, <2>2 DEF Sized, Counted
<1> QED BY <1>3, <1>4 DEF Saving

LEMMA DeathSized == ASSUME Inv, Sized, CleanupPastEnd \/ Crash PROVE Sized'
<1>1. /\ Die /\ usr' \in {usr, Part} /\ ok' \in {ok, Part}
    BY DEF CleanupPastEnd, Crash, files
<1>2. pc' = "off" /\ out' = NoFile /\ Fresh
    BY <1>1 DEF Die, Fresh
<1>3. /\ Counted(locs, total)' /\ Counted(out.locs, out.total)'
      /\ Counted(usr.locs, usr.total)' /\ Counted(ok.locs, ok.total)'
    BY <1>1, <1>2, FreshCounted, EmptyCounted DEF Sized, Counted
<1> QED BY <1>2, <1>3 DEF Sized, Counted

LEMMA InitSized == Init => Sized
BY EmptyCounted DEF Init, Sized

LEMMA StepSized == ASSUME Inv, Sized, [Next]_vars PROVE Sized'
<1>1. CASE Start \/ BackupDone \/ RestoreDone
    BY <1>1, StartSized
<1>2. CASE \E p \in Phrases : Learn(p) \/ Cleanup(p)
    BY <1>2, LearnSized, CleanupSized
<1>3. CASE LearnKey
    BY <1>3, LearnKeySized
<1>4. CASE \/ \E p \in Phrases, v \in 1..MaxPri : OnCommit(p, v)
           \/ CommitKey \/ CommitEnd \/ CommitAges
    BY <1>4, CommitSized
<1>5. CASE SyncJob \/ Quit
    BY <1>5, SyncSized DEF SyncJob, Quit
<1>6. CASE Saving
    BY <1>6, SavingSized
<1>7. CASE CleanupPastEnd \/ Crash
    BY <1>7, DeathSized
<1>8. CASE UNCHANGED vars
    BY <1>8 DEF vars, Sized, Counted, HasRoom
<1> QED BY <1>1, <1>2, <1>3, <1>4, <1>5, <1>6, <1>7, <1>8 DEF Next

\* The cleanup keeps the database within MAX_USRDB_ENTRY and one phrase, and each key of
\* the tree is counted (PY.cpp:686-703).
THEOREM CapacityHolds == Spec => []Capacity
<1>1. Sized => Capacity
    BY DEF Sized, Counted, Fits, Capacity
<1>2. Inv /\ Sized /\ [Next]_vars => Sized'
    BY StepSized
<1> QED BY <1>1, <1>2, InitSized, AlwaysInv, PTL DEF Spec
-----------------------------------------------------------------------------
(* The database is a PhraseStore. *)

\* The tree of the file that is open is a part of the one in memory; while the file is
\* copied to the backup nothing was added, and the backup is copied for want of a file.
FileTree ==
    /\ open => \A k \in DOMAIN usr.locs : k \in DOMAIN locs /\ locs[k] = usr.locs[k]
    /\ pc = "backup" => open
    /\ pc = "restore" => ~Loadable(usr)

LEMMA FileTreeStep == ASSUME Inv, FileTree, [Next]_vars PROVE FileTree'
<1>1. CASE Start
    <2>1. pc' \in {"backup", "restore"} => usr' = usr
        BY <1>1 DEF Start
    <2>2. pc' = "backup" <=> Loadable(usr)
        BY <1>1 DEF Start
    <2>3. Loadable(usr) => open' /\ locs' = usr.locs
        BY <1>1 DEF Start, Load, Loaded
    <2>4. ~Loadable(usr) => ~open'
        BY <1>1 DEF Start, Load, Fresh
    <2> QED BY <2>1, <2>2, <2>3, <2>4 DEF FileTree
<1>2. CASE RestoreDone
    <2>1. Loadable(ok)
        BY <1>2 DEF RestoreDone, Inv, OnDisk
    <2>2. usr' = ok /\ locs' = ok.locs /\ pc' = "run"
        BY <1>2, <2>1 DEF RestoreDone, Load, Loaded
    <2> QED BY <2>2 DEF FileTree
<1>3. CASE SaveDone
    <2>1. Loadable(out) /\ back \in {"run", "learn", "off"}
        BY <1>3 DEF SaveDone, Inv, InMemory, Rest
    <2>2. usr' = out /\ locs' = out.locs /\ pc' = back
        BY <1>3, <2>1 DEF SaveDone, Load, Loaded
    <2> QED BY <2>1, <2>2 DEF FileTree
<1>4. CASE SaveFail
    <2>1. ~open' /\ pc' = back
        BY <1>4 DEF SaveFail, Fresh
    <2> QED BY <1>4, <2>1 DEF FileTree, Inv, Rest, SaveFail
<1>5. CASE CleanupPastEnd \/ Crash
    <2>1. ~open' /\ pc' = "off"
        BY <1>5 DEF CleanupPastEnd, Crash, Die
    <2> QED BY <2>1 DEF FileTree
<1>6. ASSUME NEW p \in Phrases, Cleanup(p) PROVE FileTree'
    <2>1. ~open' /\ pc' \in {"save", "learn"}
        BY <1>6 DEF Cleanup, BeginWrite
    <2> QED BY <2>1 DEF FileTree
<1>7. ASSUME UNCHANGED <<usr, locs, open>>, pc' \notin {"backup", "restore"} PROVE FileTree'
    BY <1>7 DEF FileTree
<1>8. CASE BackupDone \/ CommitEnd
    BY <1>7, <1>8 DEF BackupDone, CommitEnd
<1>9. CASE \E p \in Phrases : Learn(p) \/ \E v \in 1..MaxPri : OnCommit(p, v)
    BY <1>7, <1>9 DEF Learn, OnCommit
<1>10. CASE UNCHANGED vars
    BY <1>10 DEF vars, FileTree, Loadable
<1>11. ASSUME usr'.locs = usr.locs, open' = open, pc' \notin {"backup", "restore"},
              \A k \in DOMAIN locs : k \in DOMAIN locs' /\ locs'[k] = locs[k]
       PROVE  FileTree'
    BY <1>11 DEF FileTree
<1>12. ASSUME NEW d, InPlace(d) PROVE usr'.locs = usr.locs
    BY <1>12 DEF InPlace, Inv, Local, MemType, IsFile
<1>13. ASSUME NEW k, NEW v, Update(k, v) PROVE usr'.locs = usr.locs
    <2>1. usr' = usr \/ \E d : InPlace(d)
        BY <1>13 DEF Update
    <2> QED BY <1>12, <2>1
<1>14. CASE LearnKey
    <2>1. usr'.locs = usr.locs
        BY <1>13, <1>14 DEF LearnKey
    <2>2. \A k \in DOMAIN locs : k \in DOMAIN locs' /\ locs'[k] = locs[k]
        BY <1>14 DEF LearnKey, Add
    <2> QED BY <1>11, <1>14, <2>1, <2>2 DEF LearnKey
<1>15. CASE CommitKey
    <2>1. usr'.locs = usr.locs
        BY <1>13, <1>15 DEF CommitKey
    <2> QED BY <1>11, <1>15, <2>1 DEF CommitKey
<1>16. CASE CommitAges
    <2>1. usr'.locs = usr.locs
        BY <1>12, <1>16 DEF CommitAges
    <2> QED BY <1>11, <1>16, <2>1 DEF CommitAges
<1>17. CASE SyncJob \/ Quit
    <2>1. PICK to \in {"run", "off"} : Sync(to)
        BY <1>17 DEF SyncJob, Quit
    <2>2. usr'.locs = usr.locs
        BY <1>12, <2>1 DEF Sync
    <2>3. pc' \in {"save", "run", "off"}
        BY <2>1 DEF Sync, BeginWrite
    <2> QED BY <1>11, <2>1, <2>2, <2>3 DEF Sync
<1> QED BY <1>1, <1>2, <1>3, <1>4, <1>5, <1>6, <1>8, <1>9, <1>10, <1>14, <1>15, <1>16, <1>17
        DEF Next, Saving

\* The map in memory, whether or not the database is in use.
Map == [k \in DOMAIN locs |-> Value(k)]

\* After a load the map in memory is that of the file.
LEMMA MapIsContent ==
    ASSUME Local', open', locs' = usr'.locs, dataLen' = Len(inx'), cache' = Empty
    PROVE  Map' = Content(usr)'
<1>1. ASSUME NEW k \in DOMAIN locs' PROVE Value(k)' = usr'.data[usr'.locs[k] + 1]
    <2>1. usr'.data = inx' /\ usr'.kind = "db" /\ Len(inx') \in Nat
        BY LenProperties DEF Local, MemType
    <2>2. locs'[k] \in Nat /\ locs'[k] < dataLen'
        BY <2>1 DEF Local, Placed, OwnPlaces, MemType, IsTree
    <2>3. locs'[k] \notin DOMAIN cache' /\ ~(locs'[k] >= dataLen')
        BY <2>1, <2>2 DEF Empty
    <2> QED BY <2>1, <2>3 DEF Value
<1> QED BY <1>1 DEF Map, Content

\* A step that writes priorities into the file, if any, writes all that were changed.
LEMMA FileIsWritten ==
    ASSUME Inv, Inv', FileTree, ~stale, ~stale', UNCHANGED <<dataLen, open>>,
           \A k \in DOMAIN locs : k \in DOMAIN locs' /\ locs'[k] = locs[k],
           usr'.locs = usr.locs, usr' = usr \/ (open /\ cache' = Empty)
    PROVE  MapsOf(usr)' = MapsOf(usr) \/ MapsOf(usr)' = Promise!Written(Map')
<1>1. CASE usr' = usr
    BY <1>1 DEF MapsOf, Content, Loadable
<1>2. CASE open /\ cache' = Empty
    <2>1. Loadable(usr) /\ Loadable(usr')
        BY <1>2 DEF Inv, Local, OnDisk
    <2>2. MapsOf(usr) = {Content(usr)} /\ MapsOf(usr)' = {Content(usr')}
        BY <2>1 DEF MapsOf, Content, Loadable
    <2> DEFINE F == [k \in DOMAIN Content(usr) |->
                        IF k \in DOMAIN Map' THEN Map'[k] ELSE Content(usr)[k]]
    <2>3. Promise!Written(Map') = {F}
        BY <2>2 DEF Promise!Written
    <2>4. DOMAIN Content(usr) = DOMAIN usr.locs /\ DOMAIN Content(usr') = DOMAIN usr.locs
        BY DEF Content
    <2>5. ASSUME NEW k \in DOMAIN usr.locs PROVE F[k] = Content(usr')[k]
        <3>1. k \in DOMAIN locs' /\ locs'[k] = usr.locs[k]
            BY <1>2 DEF FileTree
        <3>2. F[k] = Value(k)'
            BY <2>4, <3>1 DEF Map
        <3>3. usr'.data = inx' /\ usr'.kind = "db" /\ Len(inx') \in Nat /\ Len(inx') = dataLen'
            BY <1>2, LenProperties DEF Inv, Local, MemType, InMemory, Exact
        <3>4. locs'[k] \in Nat /\ locs'[k] < dataLen'
            BY <3>1, <3>3 DEF Inv, Local, Placed, OwnPlaces, MemType, IsTree
        <3>5. locs'[k] \notin DOMAIN cache' /\ ~(locs'[k] >= dataLen')
            BY <1>2, <3>3, <3>4 DEF Empty
        <3>6. Value(k)' = inx'[locs'[k] + 1]
            BY <3>5 DEF Value
        <3> QED BY <3>1, <3>2, <3>3, <3>6 DEF Content
    <2>6. F = Content(usr')
        BY <2>4, <2>5 DEF Content
    <2> QED BY <2>2, <2>3, <2>6
<1> QED BY <1>1, <1>2

\* update stores the priority, wherever the key has its place.
LEMMA UpdateValue ==
    ASSUME Local, NEW k \in DOMAIN locs, NEW p \in Bytes, Update(k, p),
           UNCHANGED <<locs, dataLen>>
    PROVE  /\ Value(k)' = p
           /\ usr' = usr \/ (open /\ cache' = Empty)
<1> DEFINE l == locs[k]
           c == [x \in DOMAIN cache \cup {l} |-> IF x = l THEN p ELSE cache[x]]
<1>1. l \in Nat /\ dataLen \in Nat /\ Len(inx) \in Nat /\ dataLen <= Len(inx)
    BY LenProperties DEF Local, MemType, IsTree
<1>2. CASE l >= dataLen
    <2>1. tmp' = [tmp EXCEPT ![l - dataLen + 1] = p] /\ usr' = usr
        BY <1>2 DEF Update
    <2>2. l - dataLen + 1 \in 1..Len(tmp) /\ tmp \in Seq(Bytes)
        BY <1>2, ValueFacts DEF Local, MemType
    <2>3. tmp'[l - dataLen + 1] = p
        BY <2>1, <2>2, ExceptSeq
    <2> QED BY <1>2, <2>1, <2>3 DEF Value
<1>3. CASE ~(l >= dataLen)
    <2>1. l < Len(inx) /\ c[l] = p /\ l \in DOMAIN c
        BY <1>1, <1>3
    <2>2. CASE Cardinality(DOMAIN c) > CacheMax
        <3>1. InPlace(WithCache(c)) /\ cache' = Empty
            BY <1>3, <2>2 DEF Update
        <3>2. DOMAIN c \subseteq Nat /\ c \in [DOMAIN c -> Bytes]
            BY <1>1 DEF Local, MemType
        <3>3. \E n \in Nat : \A x \in DOMAIN c : x < n
            <4>1. PICK n \in Nat : \A x \in DOMAIN cache : x < n
                BY DEF Local, CacheBounded
            <4>2. DOMAIN cache \subseteq Nat /\ DOMAIN c = DOMAIN cache \cup {l}
                BY DEF Local, MemType
            <4>3. \A x \in DOMAIN c : x < n + l + 1
                BY <1>1, <4>1, <4>2
            <4>4. n + l + 1 \in Nat
                BY <1>1, <4>1
            <4> QED BY <4>3, <4>4
        <3> HIDE DEF c
        <3>4. WithCache(c)[l + 1] = p
            BY <1>1, <2>1, <3>2, <3>3, WithCacheFacts, Numbers DEF Local, MemType
        <3>5. inx' = WithCache(c) /\ l \notin DOMAIN cache' /\ (usr' = usr \/ open)
            BY <3>1 DEF InPlace, Empty
        <3> QED BY <1>3, <3>1, <3>4, <3>5 DEF Value
    <2>3. CASE ~(Cardinality(DOMAIN c) > CacheMax)
        <3>1. cache' = c /\ usr' = usr
            BY <1>3, <2>3 DEF Update
        <3> QED BY <1>3, <2>1, <3>1 DEF Value
    <2> QED BY <2>2, <2>3
<1> QED BY <1>2, <1>3

\* The aging reaches every key, with the changes that were in the cache.
LEMMA AgedValue ==
    ASSUME Local, CommitAges, NEW k \in DOMAIN locs
    PROVE  Value(k)' = Older(Value(k))
<1> DEFINE d == WithCache(cache)
           l == locs[k]
<1>1. /\ inx' = [i \in DOMAIN d |-> IF i <= dataLen THEN Older(d[i]) ELSE d[i]]
      /\ tmp' = [i \in DOMAIN tmp |-> Older(tmp[i])]
      /\ cache' = Empty /\ UNCHANGED <<locs, dataLen>>
    BY DEF CommitAges, InPlace
<1>2. l \in Nat /\ dataLen \in Nat /\ Len(inx) \in Nat /\ dataLen <= Len(inx)
    BY LenProperties DEF Local, MemType, IsTree
<1>3. CASE l >= dataLen
    <2>1. l - dataLen + 1 \in DOMAIN tmp
        BY <1>3, ValueFacts, LenProperties DEF Local, MemType
    <2> QED BY <1>1, <1>3, <2>1 DEF Value
<1>4. CASE ~(l >= dataLen)
    <2>0. l < Len(inx)
        BY <1>2, <1>4
    <2>1. /\ d \in Seq(Bytes) /\ Len(d) >= Len(inx)
          /\ d[l + 1] = IF l \in DOMAIN cache THEN cache[l] ELSE inx[l + 1]
        <3> HIDE DEF l
        <3> QED BY <1>2, <2>0, WithCacheFacts, Numbers DEF Local, MemType, CacheBounded
    <2> HIDE DEF d
    <2>2. Len(d) \in Nat /\ DOMAIN d = 1..Len(d)
        BY <2>1, LenProperties
    <2>3. l + 1 \in DOMAIN d /\ l + 1 <= dataLen
        BY <1>2, <1>4, <2>1, <2>2
    <2>4. Value(k)' = Older(d[l + 1])
        BY <1>1, <1>4, <2>3 DEF Value, Empty
    <2> QED BY <1>4, <2>1, <2>4 DEF Value
<1> QED BY <1>3, <1>4
-----------------------------------------------------------------------------
(* One lemma for each way in which a step is one of PhraseStore, or none. *)

\* Nothing is promised before a step and after it.
LEMMA StoreMuddled == ASSUME stale, stale' PROVE UNCHANGED Promise!vars
<1>1. ~InUse /\ ~InUse' /\ Known = Empty /\ Known' = Empty
    BY DEF InUse, Known
<1>2. MapsOf(usr) = {} /\ MapsOf(ok) = {} /\ MapsOf(usr)' = {} /\ MapsOf(ok)' = {}
    BY DEF MapsOf
<1>3. InUse' = InUse
    BY DEF InUse
<1> QED BY <1>1, <1>2, <1>3 DEF Promise!vars

\* The database is not looked at while it is not in use.
LEMMA StoreDown ==
    ASSUME ~stale, stale' = stale, pc \in {"off", "backup", "restore"},
           pc' \in {"off", "backup", "restore"},
           MapsOf(usr)' = MapsOf(usr), MapsOf(ok)' = MapsOf(ok)
    PROVE  UNCHANGED Promise!vars
<1>1. Known = Empty /\ Known' = Empty
    BY DEF InUse, Known
<1>2. InUse' = InUse
    BY DEF InUse
<1> QED BY <1>1, <1>2 DEF Promise!vars

\* What the promise is about, while the database is in use.
LEMMA StoreInUse ==
    /\ ~stale /\ pc \in {"run", "save", "learn", "commit"} => InUse /\ Known = Map
    /\ (~stale /\ pc \in {"run", "save", "learn", "commit"})' => InUse' /\ Known' = Map'
    /\ (pc' = "off") => ~InUse' /\ Known' = Empty
    /\ (~stale /\ Loadable(usr)) => MapsOf(usr) = {Content(usr)}
BY DEF InUse, Known, Map, MapsOf

\* A file keeps its map if it is not touched.
LEMMA FileSame ==
    ASSUME stale' = stale
    PROVE  /\ usr' = usr => MapsOf(usr)' = MapsOf(usr)
           /\ ok' = ok => MapsOf(ok)' = MapsOf(ok)
BY DEF MapsOf, Content, Loadable

\* Between two calls, or in one that finds nothing to do.
LEMMA StoreSame ==
    ASSUME ~stale, pc \in {"run", "save", "learn", "commit"},
           pc' \in {"run", "save", "learn", "commit"}, UNCHANGED <<usr, ok, stale>>,
           Map' = Map
    PROVE  UNCHANGED Promise!vars
<1>1. Known' = Known
    BY StoreInUse
<1>2. MapsOf(usr)' = MapsOf(usr) /\ MapsOf(ok)' = MapsOf(ok)
    BY FileSame
<1>3. InUse' = InUse
    BY DEF InUse
<1> QED BY <1>1, <1>2, <1>3 DEF Promise!vars

\* A step that changes priorities.
LEMMA StoreChange ==
    ASSUME Inv, Inv', FileTree, ~stale, pc \in {"run", "save", "learn", "commit"},
           pc' \in {"run", "save", "learn", "commit"},
           UNCHANGED <<ok, stale, locs, dataLen, open>>,
           usr'.locs = usr.locs, usr' = usr \/ (open /\ cache' = Empty)
    PROVE  Promise!Change(Map')
<1>1. MapsOf(usr)' = MapsOf(usr) \/ MapsOf(usr)' = Promise!Written(Map')
    BY FileIsWritten
<1>2. InUse /\ Known' = Map' /\ MapsOf(ok)' = MapsOf(ok)
    BY StoreInUse, FileSame
<1>3. InUse' = InUse
    BY DEF InUse
<1> QED BY <1>1, <1>2, <1>3 DEF Promise!Change

LEMMA ValuesTyped == Local => \A k \in DOMAIN locs : Value(k) \in Bytes
BY ValueFacts

LEMMA ValuesTypedNext == Local' => (\A k \in DOMAIN locs : Value(k) \in Bytes)'
BY ValuesTyped, PTL

\* The initialization: with the file, its backup, or nothing.
LEMMA StoreStart ==
    ASSUME Inv, Inv', FileTree, Start \/ BackupDone \/ RestoreDone
    PROVE  Promise!Next \/ UNCHANGED Promise!vars
<1>1. ASSUME pc' \in {"backup", "restore"} PROVE UNCHANGED Promise!vars
    <2>1. pc = "off" /\ UNCHANGED <<usr, ok, stale>>
        BY <1>1 DEF Start, BackupDone, RestoreDone
    <2>2. CASE stale
        BY <2>1, <2>2, StoreMuddled
    <2>3. CASE ~stale
        BY <1>1, <2>1, <2>3, FileSame, StoreDown
    <2> QED BY <2>2, <2>3
<1>2. ASSUME pc' \notin {"backup", "restore"}
      PROVE  /\ pc' = "run" /\ pc \in {"off", "backup", "restore"} /\ ~stale' /\ usr' = ok'
             /\ \/ Map' = Content(usr)' /\ Loadable(usr')
                \/ Map' = Empty /\ ~Loadable(usr') /\ ~Loadable(usr) /\ ~Loadable(ok)
             /\ Loadable(usr) => usr' = usr
             /\ ~Loadable(usr) => ok' = ok \/ (~Loadable(ok) /\ ~Loadable(ok'))
    <2>1. CASE Start
        <3>1. /\ pc = "off" /\ pc' = "run" /\ ~stale' /\ usr' = NoFile /\ ok' = NoFile
              /\ ~Loadable(usr) /\ ok.kind = "none" /\ Fresh
            BY <1>2, <2>1 DEF Start, Load
        <3>2. ~Loadable(NoFile) /\ ~Loadable(ok)
            BY <3>1, NoFileFacts DEF Loadable
        <3>3. Map' = Empty
            BY <3>1 DEF Map, Fresh, Empty
        <3> QED BY <3>1, <3>2, <3>3
    <2>2. CASE BackupDone
        <3>1. /\ pc = "backup" /\ pc' = "run" /\ ~stale' /\ usr' = usr /\ ok' = usr
              /\ UNCHANGED memory
            BY <2>2 DEF BackupDone
        <3>2. Loadable(usr) /\ open /\ locs = usr.locs /\ cache = Empty /\ Len(inx) = dataLen
            BY <3>1 DEF Inv, OnDisk, InMemory, Exact, FileTree
        <3>3. Map' = Content(usr)'
            BY <3>1, <3>2, MapIsContent DEF Inv
        <3> QED BY <3>1, <3>2, <3>3
    <2>3. CASE RestoreDone
        <3>1. Loadable(ok) /\ ~Loadable(usr) /\ cache = Empty
            BY <2>3 DEF RestoreDone, Inv, OnDisk, InMemory, FileTree
        <3>2. /\ pc = "restore" /\ pc' = "run" /\ ~stale' /\ usr' = ok /\ ok' = ok /\ cache' = cache
              /\ open' /\ locs' = ok.locs /\ dataLen' = Len(ok.data) /\ inx' = ok.data
            BY <2>3, <3>1 DEF RestoreDone, Load, Loaded
        <3>3. Map' = Content(usr)'
            BY <3>1, <3>2, MapIsContent DEF Inv
        <3> QED BY <3>1, <3>2, <3>3
    <2> QED BY <2>1, <2>2, <2>3
<1>3. ASSUME pc' \notin {"backup", "restore"} PROVE Promise!Next
    <2>1. InUse' /\ Known' = Map' /\ ~InUse
        BY <1>2, <1>3 DEF InUse, Known, Map
    <2>2. MapsOf(usr)' = MapsOf(ok)'
        BY <1>2, <1>3 DEF MapsOf, Loadable, Content
    <2>3. \/ MapsOf(usr)' = {Known'}
          \/ MapsOf(usr)' = {} /\ Known' = Empty /\ MapsOf(usr) = {} /\ MapsOf(ok) = {}
        <3>1. CASE Map' = Content(usr)' /\ Loadable(usr')
            BY <1>2, <1>3, <2>1, <3>1 DEF MapsOf, Loadable
        <3>2. CASE Map' = Empty /\ ~Loadable(usr') /\ ~Loadable(usr) /\ ~Loadable(ok)
            BY <2>1, <3>2 DEF MapsOf, Loadable
        <3> QED BY <1>2, <1>3, <3>1, <3>2
    <2>4. CASE stale
        <3>1. Known' \in Promise!Maps
            <4>1. Local'
                BY DEF Inv
            <4>2. DOMAIN locs' \subseteq Keys /\ \A k \in DOMAIN locs' : Value(k)' \in Bytes
                BY <4>1, ValuesTypedNext DEF Local, MemType, IsTree
            <4>3. Map' \in [DOMAIN locs' -> 0..MaxPri]
                BY <4>2 DEF Map, Bytes
            <4> QED BY <2>1, <4>2, <4>3 DEF Promise!Maps
        <3>2. Promise!Recover
            BY <1>2, <1>3, <2>1, <2>2, <2>3, <2>4, <3>1 DEF Promise!Recover, Promise!Empty, Empty
        <3> QED BY <3>2 DEF Promise!Next
    <2>5. CASE ~stale
        <3>1. stale' = stale
            BY <1>2, <1>3, <2>5 DEF Inv, Rest
        <3>2. CASE Loadable(usr)
            <4>1. MapsOf(usr)' = MapsOf(usr) /\ MapsOf(usr) # {}
                BY <1>2, <1>3, <2>5, <3>1, <3>2, FileSame DEF MapsOf
            <4>2. Promise!Open
                BY <2>1, <2>2, <2>3, <2>5, <3>1, <4>1 DEF Promise!Open
            <4> QED BY <4>2 DEF Promise!Next
        <3>3. CASE ~Loadable(usr)
            <4>1. MapsOf(usr) = {}
                BY <3>3 DEF MapsOf
            <4>2. MapsOf(ok)' = MapsOf(ok)
                <5>1. CASE ok' = ok
                    BY <3>1, <5>1, FileSame
                <5>2. CASE ~Loadable(ok) /\ ~Loadable(ok')
                    BY <5>2 DEF MapsOf, Loadable
                <5> QED BY <1>2, <1>3, <3>3, <5>1, <5>2
            <4>3. CASE MapsOf(usr)' = {Known'}
                <5>1. Promise!Restore
                    BY <2>1, <2>2, <2>5, <3>1, <4>1, <4>2, <4>3 DEF Promise!Restore
                <5> QED BY <5>1 DEF Promise!Next
            <4>4. CASE MapsOf(usr)' = {} /\ Known' = Empty
                <5>1. Promise!Create
                    BY <2>1, <2>2, <2>5, <3>1, <4>1, <4>2, <4>4
                       DEF Promise!Create, Promise!Empty, Empty
                <5> QED BY <5>1 DEF Promise!Next
            <4> QED BY <2>3, <4>3, <4>4
        <3> QED BY <3>2, <3>3
    <2> QED BY <2>4, <2>5
<1> QED BY <1>1, <1>3

\* A cleanup forgets keys, or everything: it may be the one with priorities in the cache.
LEMMA StoreCleanup ==
    ASSUME Inv, Inv', KeepsValues, NEW p \in Phrases, Cleanup(p)
    PROVE  Promise!Next \/ UNCHANGED Promise!vars
<1>1. /\ pc = "run" /\ pc' \in {"save", "learn"} /\ UNCHANGED <<usr, ok>>
      /\ stale' = (stale \/ cache # Empty)
    BY DEF Cleanup, CanLearn, BeginWrite
<1>2. CASE stale
    BY <1>1, <1>2, StoreMuddled
<1>3. CASE ~stale /\ stale'
    <2>1. InUse /\ ~InUse' /\ Known' = Empty /\ MapsOf(usr)' = {} /\ MapsOf(ok)' = {}
        BY <1>1, <1>3 DEF InUse, Known, MapsOf
    <2>2. Promise!Muddle
        BY <1>3, <2>1 DEF Promise!Muddle, Promise!Empty, Empty
    <2> QED BY <2>2 DEF Promise!Next
<1>4. CASE ~stale /\ ~stale'
    <2>1. stale' = stale
        BY <1>4 DEF Inv, Rest
    <2>2. InUse /\ InUse' /\ Known = Map /\ Known' = Map'
        BY <1>1, <1>4, StoreInUse
    <2>3. DOMAIN Map' \subseteq DOMAIN Map /\ \A k \in DOMAIN Map' : Map'[k] = Map[k]
        <3>1. PICK order \in [1..Keep -> Listed] :
                  DOMAIN locs' = {order[i] : i \in 1..Keep}
            BY DEF Cleanup
        <3>2. DOMAIN locs' \subseteq DOMAIN locs
            BY <3>1 DEF Listed
        <3>3. \A k \in DOMAIN locs' : Value(k)' = Value(k)
            BY <1>1, <1>4, <3>2 DEF KeepsValues
        <3> QED BY <3>2, <3>3 DEF Map
    <2>4. Map' = [k \in DOMAIN Map' |-> Map'[k]]
        BY DEF Map
    <2>5. MapsOf(usr)' = MapsOf(usr) /\ MapsOf(ok)' = MapsOf(ok)
        BY <1>1, <2>1, FileSame
    <2>6. InUse' = InUse
        BY <1>1, <2>1 DEF InUse
    <2>7. Promise!Forget
        BY <1>4, <2>1, <2>2, <2>3, <2>4, <2>5, <2>6 DEF Promise!Forget
    <2> QED BY <2>7 DEF Promise!Next
<1> QED BY <1>2, <1>3, <1>4

\* The death of the process, in or out of a copy.
LEMMA StoreDeath ==
    ASSUME Inv, Inv', FileTree, CleanupPastEnd \/ Crash
    PROVE  Promise!Next \/ UNCHANGED Promise!vars
<1>1. /\ pc # "off" /\ pc' = "off" /\ stale' = stale
      /\ \/ usr' = usr
         \/ pc \in {"save", "restore"} /\ usr' = Part
      /\ ok' = ok \/ (pc = "backup" /\ ok' = Part)
    BY DEF CleanupPastEnd, CanLearn, Crash, Die
<1>2. ~Loadable(Part)
    BY NoFileFacts
<1>3. CASE stale
    BY <1>1, <1>3, StoreMuddled
<1>4. CASE ~stale /\ pc \in {"run", "save", "learn", "commit"}
    <2>1. InUse /\ ~InUse' /\ Known' = Empty
        BY <1>1, <1>4, StoreInUse
    <2>2. MapsOf(ok)' = MapsOf(ok)
        BY <1>1, <1>4, FileSame
    <2>3. MapsOf(usr)' = MapsOf(usr) \/ MapsOf(usr)' = {}
        BY <1>1, <1>2, FileSame DEF MapsOf, Loadable
    <2>4. Promise!Down
        BY <1>1, <1>4, <2>1, <2>2, <2>3 DEF Promise!Down, Promise!Empty, Empty
    <2> QED BY <2>4 DEF Promise!Next
<1>5. CASE ~stale /\ pc = "backup"
    <2>1. Loadable(usr) /\ usr' = usr
        BY <1>1, <1>5 DEF Inv, OnDisk
    <2>2. MapsOf(usr)' = MapsOf(usr) /\ MapsOf(usr) # {}
        BY <1>1, <1>5, <2>1, FileSame DEF MapsOf
    <2>3. CASE ok' = ok
        BY <1>1, <1>5, <2>2, <2>3, FileSame, StoreDown
    <2>4. CASE ok' = Part
        <3>1. MapsOf(ok)' = {}
            BY <1>2, <2>4 DEF MapsOf, Loadable
        <3>2. ~InUse /\ InUse' = InUse /\ Known' = Known
            BY <1>1, <1>5 DEF InUse, Known
        <3>3. Promise!Interrupted
            BY <1>1, <1>5, <2>2, <3>1, <3>2 DEF Promise!Interrupted
        <3> QED BY <3>3 DEF Promise!Next
    <2> QED BY <1>1, <2>3, <2>4
<1>6. CASE ~stale /\ pc = "restore"
    <2>1. ~Loadable(usr) /\ ~Loadable(usr') /\ ok' = ok
        BY <1>1, <1>2, <1>6 DEF FileTree
    <2>2. MapsOf(usr)' = MapsOf(usr)
        BY <2>1 DEF MapsOf, Loadable
    <2> QED BY <1>1, <1>6, <2>1, <2>2, FileSame, StoreDown
<1>7. pc \in {"backup", "restore", "run", "save", "learn", "commit"}
    BY <1>1 DEF Inv, Rest
<1> QED BY <1>3, <1>4, <1>5, <1>6, <1>7
-----------------------------------------------------------------------------
\* A reading of a phrase raises the priority of its key, or adds it, or does nothing.
LEMMA StoreLearn ==
    ASSUME Inv, Inv', FileTree, KeepsValues, ~stale, LearnKey
    PROVE  Promise!Next \/ UNCHANGED Promise!vars
<1>1. /\ pc = "learn" /\ pc' \in {"run", "learn"} /\ todo # <<>>
      /\ UNCHANGED <<ok, open, stale>>
    BY DEF LearnKey, Inv, Rest
<1>2. PICK k \in Keys : k = Head(todo)
    BY <1>1, TodoFacts DEF Inv, Rest
<1>3. \A j \in DOMAIN locs \cap DOMAIN locs' : j # k => Value(j)' = Value(j)
    BY <1>1, <1>2 DEF KeepsValues
<1>4. InUse /\ InUse' /\ Known = Map /\ Known' = Map'
    BY <1>1, StoreInUse
<1>5. CASE Visible(k) /\ Value(k) < MaxPri
    <2>1. /\ Update(k, Value(k) + 1) /\ k \in DOMAIN locs
          /\ UNCHANGED <<locs, zero, dataLen, total>>
        BY <1>2, <1>5 DEF LearnKey, Visible
    <2> DEFINE v == Value(k) + 1
    <2>2. v \in Bytes /\ Update(k, v)
        BY <1>5, <2>1, ValueFacts, Numbers DEF Inv, Bytes
    <2> HIDE DEF v
    <2>3. Value(k)' = v /\ (usr' = usr \/ (open /\ cache' = Empty))
        BY <2>1, <2>2, UpdateValue DEF Inv
    <2>4. usr'.locs = usr.locs
        BY <1>1, <2>1, <2>2, UpdateLocal DEF Inv
    <2>5. Promise!Change(Map')
        BY <1>1, <2>1, <2>3, <2>4, StoreChange
    <2>6. Map' = [Known EXCEPT ![k] = @ + 1] /\ Known[k] < MaxPri /\ k \in DOMAIN Known
        BY <1>3, <1>4, <1>5, <2>1, <2>3 DEF Map, v
    <2>7. Promise!Raise(k)
        BY <2>5, <2>6 DEF Promise!Raise
    <2> QED BY <2>6, <2>7 DEF Promise!Next
<1>6. CASE ~Visible(k) /\ k \notin SysKeys /\ k \notin DOMAIN locs
    <2>1. Add(k) /\ UNCHANGED <<cache, inx, usr>>
        BY <1>2, <1>6 DEF LearnKey
    <2>2. DOMAIN locs' = DOMAIN locs \cup {k}
        BY <2>1 DEF Add
    <2>3. Value(k)' = DefaultPri
        <3>1. /\ locs'[k] = dataLen + Len(tmp) /\ dataLen' = dataLen
              /\ tmp' = Append(tmp, DefaultPri)
            BY <1>6, <2>1 DEF Add
        <3>2. tmp'[Len(tmp) + 1] = DefaultPri /\ dataLen \in Nat /\ Len(tmp) \in Nat
            BY <3>1, Numbers, LenProperties, AppendProperties DEF Inv, Local, MemType
        <3>3. locs'[k] >= dataLen' /\ locs'[k] - dataLen' + 1 = Len(tmp) + 1
            BY <3>1, <3>2
        <3> QED BY <3>2, <3>3 DEF Value
    <2>4. \A j \in DOMAIN locs : Value(j)' = Value(j)
        BY <1>3, <1>6, <2>2
    <2>5. Map' = [x \in DOMAIN Map \cup {k} |-> IF x = k THEN DefaultPri ELSE Map[x]]
        BY <1>6, <2>2, <2>3, <2>4 DEF Map
    <2>6. MapsOf(usr)' = MapsOf(usr) /\ MapsOf(ok)' = MapsOf(ok) /\ k \notin DOMAIN Map
        BY <1>1, <1>6, <2>1, FileSame DEF Map
    <2>7. InUse' = InUse
        BY <1>1 DEF InUse
    <2>8. Promise!Learn(k)
        BY <1>1, <1>4, <2>5, <2>6, <2>7 DEF Promise!Learn
    <2> QED BY <1>2, <2>8 DEF Promise!Next
<1>7. CASE ~Visible(k) /\ k \notin SysKeys /\ k \in DOMAIN locs
    <2>1. Add(k) /\ UNCHANGED <<cache, inx, usr, open>>
        BY <1>1, <1>2, <1>7 DEF LearnKey
    <2>2. DOMAIN locs' = DOMAIN locs \cup {k} /\ \A j \in DOMAIN locs : Value(j)' = Value(j)
        BY <1>2, <2>1, AddLocal DEF Inv
    <2>3. Map' = Map
        BY <1>7, <2>2 DEF Map
    <2> QED BY <1>1, <2>1, <2>3, StoreSame
<1>8. CASE (Visible(k) /\ ~(Value(k) < MaxPri)) \/ (~Visible(k) /\ k \in SysKeys)
    <2>1. UNCHANGED <<usr, memory>>
        BY <1>1, <1>2, <1>8 DEF LearnKey
    <2>2. Map' = Map
        BY <2>1 DEF Map, Value
    <2> QED BY <1>1, <2>1, <2>2, StoreSame
<1> QED BY <1>5, <1>6, <1>7, <1>8

\* A commit stores the priority of its key, if it finds it.
LEMMA StoreCommit ==
    ASSUME Inv, Inv', FileTree, KeepsValues, ~stale, CommitKey
    PROVE  Promise!Next \/ UNCHANGED Promise!vars
<1>1. /\ pc = "commit" /\ pc' = "commit" /\ todo # <<>> /\ pri \in 1..MaxPri
      /\ UNCHANGED <<ok, locs, zero, dataLen, total, open, stale>>
    BY DEF CommitKey, Inv, Rest
<1>2. PICK k \in Keys : k = Head(todo)
    BY <1>1, TodoFacts DEF Inv, Rest
<1>3. CASE Visible(k)
    <2>1. Update(k, pri) /\ k \in DOMAIN locs /\ pri \in Bytes
        BY <1>1, <1>3, <1>2, Numbers DEF CommitKey, Visible, Bytes
    <2>2. \A j \in DOMAIN locs : j # k => Value(j)' = Value(j)
        BY <1>1, <1>2 DEF KeepsValues
    <2>3. Value(k)' = pri /\ (usr' = usr \/ (open /\ cache' = Empty))
        BY <1>1, <2>1, UpdateValue DEF Inv
    <2>4. usr'.locs = usr.locs
        BY <1>1, <2>1, UpdateLocal DEF Inv
    <2>5. Promise!Change(Map')
        BY <1>1, <2>3, <2>4, StoreChange
    <2>6. Known = Map
        BY <1>1, StoreInUse
    <2>7. Map' = [Known EXCEPT ![k] = pri] /\ k \in DOMAIN Known
        BY <1>1, <2>1, <2>2, <2>3, <2>6 DEF Map
    <2>8. Promise!Commit(k, pri)
        BY <2>5, <2>7 DEF Promise!Commit
    <2> QED BY <1>1, <2>7, <2>8 DEF Promise!Next
<1>4. CASE ~Visible(k)
    <2>1. UNCHANGED <<usr, memory>>
        BY <1>1, <1>4, <1>2 DEF CommitKey
    <2>2. Map' = Map
        BY <2>1 DEF Map, Value
    <2> QED BY <1>1, <2>1, <2>2, StoreSame
<1> QED BY <1>3, <1>4

\* The aging.
LEMMA StoreAge ==
    ASSUME Inv, Inv', FileTree, ~stale, CommitAges
    PROVE  Promise!Next
<1>1. /\ pc = "commit" /\ pc' = "run" /\ cache' = Empty
      /\ UNCHANGED <<ok, locs, dataLen, open, stale>>
      /\ \E d : InPlace(d)
    BY DEF CommitAges
<1>2. usr'.locs = usr.locs /\ (usr' = usr \/ open)
    BY <1>1 DEF InPlace, Inv, Local, MemType, IsFile
<1>3. Promise!Change(Map')
    BY <1>1, <1>2, StoreChange
<1>4. Known = Map
    BY <1>1, StoreInUse
<1>5. \A k \in DOMAIN locs : Value(k)' = Older(Value(k))
    BY AgedValue DEF Inv
<1>6. Map' = [k \in DOMAIN Known |-> Promise!Older(Known[k])]
    BY <1>1, <1>4, <1>5 DEF Map, Older, Promise!Older
<1>7. Promise!Age
    BY <1>3, <1>6 DEF Promise!Age
<1> QED BY <1>7 DEF Promise!Next

\* sync, and the end of the process if write() has nothing to do.
LEMMA StoreSync ==
    ASSUME Inv, Inv', FileTree, KeepsValues, ~stale, NEW to \in {"run", "off"}, Sync(to)
    PROVE  Promise!Next
<1>1. /\ pc = "run" /\ pc' \in {"run", "save", "off"} /\ cache' = Empty
      /\ UNCHANGED <<ok, locs, dataLen, open, stale>>
      /\ \E d : InPlace(d)
    BY DEF Sync, BeginWrite
<1>2. usr'.locs = usr.locs /\ (usr' = usr \/ open)
    BY <1>1 DEF InPlace, Inv, Local, MemType, IsFile
<1>3. \A k \in DOMAIN locs : Value(k)' = Value(k)
    BY <1>1 DEF KeepsValues
<1>4. Map' = Map /\ Known = Map
    BY <1>1, <1>3, StoreInUse DEF Map
<1>5. CASE pc' \in {"run", "save"}
    <2>1. Promise!Change(Map')
        BY <1>1, <1>2, <1>5, StoreChange
    <2>2. Promise!Flush
        BY <1>4, <2>1 DEF Promise!Flush
    <2> QED BY <2>2 DEF Promise!Next
<1>6. CASE pc' = "off"
    <2>1. MapsOf(usr)' = MapsOf(usr) \/ MapsOf(usr)' = Promise!Written(Map')
        BY <1>1, <1>2, FileIsWritten
    <2>2. InUse /\ ~InUse' /\ Known' = Empty /\ MapsOf(ok)' = MapsOf(ok)
        BY <1>1, <1>6, StoreInUse, FileSame
    <2>3. Promise!Down
        BY <1>1, <1>4, <2>1, <2>2 DEF Promise!Down, Promise!Empty, Empty
    <2> QED BY <2>3 DEF Promise!Next
<1> QED BY <1>1, <1>5, <1>6

\* The copy to the file ends, or fails.
LEMMA StoreSave ==
    ASSUME Inv, Inv', FileTree, KeepsValues, ~stale, Saving
    PROVE  Promise!Next
<1>1. /\ pc = "save" /\ pc' = back /\ back \in {"run", "learn", "off"}
      /\ UNCHANGED <<ok, cache, stale>>
    BY DEF Saving, SaveDone, SaveFail, Inv, Rest
<1>2. cache' = Empty
    BY <1>1 DEF Inv, InMemory
<1>3. InUse /\ Known = Map /\ MapsOf(ok)' = MapsOf(ok)
    BY <1>1, StoreInUse, FileSame
<1>4. \/ InUse' /\ Known' = Map'
      \/ ~InUse' /\ Known' = Empty
    BY <1>1, StoreInUse
<1>5. CASE SaveDone
    <2>1. Loadable(out) /\ out.locs = locs
        BY <1>1 DEF Inv, InMemory
    <2>2. /\ usr' = out /\ locs' = out.locs /\ dataLen' = Len(out.data) /\ inx' = out.data
          /\ open'
        BY <1>5, <2>1 DEF SaveDone, Load, Loaded
    <2>3. Map' = Content(usr)'
        BY <1>2, <2>2, MapIsContent DEF Inv
    <2>4. Map' = Map
        BY <1>1, <2>1, <2>2 DEF Map, KeepsValues
    <2>5. MapsOf(usr)' = {Known}
        BY <1>1, <1>3, <2>1, <2>2, <2>3, <2>4 DEF MapsOf, Loadable
    <2>6. Promise!Save
        BY <1>1, <1>3, <1>4, <2>4, <2>5 DEF Promise!Save, Promise!Empty, Empty
    <2> QED BY <2>6 DEF Promise!Next
<1>6. CASE SaveFail
    <2>1. usr' = Part /\ Fresh
        BY <1>6 DEF SaveFail
    <2>2. MapsOf(usr)' = {}
        BY <2>1, NoFileFacts DEF MapsOf, Loadable
    <2>3. Map' = Empty
        BY <2>1 DEF Map, Fresh, Empty
    <2>4. InUse' \in BOOLEAN
        BY DEF InUse
    <2>5. Promise!Fail
        BY <1>1, <1>3, <1>4, <2>2, <2>3, <2>4 DEF Promise!Fail, Promise!Empty, Empty
    <2> QED BY <2>5 DEF Promise!Next
<1> QED BY <1>5, <1>6 DEF Saving
-----------------------------------------------------------------------------
\* Every step of the database is one of PhraseStore, or none.
LEMMA StoreStep ==
    Inv /\ Inv' /\ FileTree /\ [Next]_vars /\ [KeepsValues]_vars => [Promise!Next]_(Promise!vars)
<1> SUFFICES ASSUME Inv, Inv', FileTree, [Next]_vars, [KeepsValues]_vars
             PROVE  Promise!Next \/ UNCHANGED Promise!vars
    OBVIOUS
<1>1. CASE UNCHANGED vars
    <2>1. UNCHANGED <<usr, ok, memory, pc, stale>>
        BY <1>1 DEF vars
    <2>2. Known' = Known
        BY <2>1 DEF Known, InUse, Value
    <2>3. InUse' = InUse
        BY <2>1 DEF InUse
    <2>4. MapsOf(usr)' = MapsOf(usr) /\ MapsOf(ok)' = MapsOf(ok)
        BY <2>1, FileSame
    <2> QED BY <2>1, <2>2, <2>3, <2>4 DEF Promise!vars
<1>2. CASE KeepsValues /\ (Start \/ BackupDone \/ RestoreDone)
    BY <1>2, StoreStart
<1>3. CASE KeepsValues /\ \E p \in Phrases : Cleanup(p)
    BY <1>3, StoreCleanup
<1>4. CASE CleanupPastEnd \/ Crash
    BY <1>4, StoreDeath
<1>5. CASE KeepsValues /\ (\/ LearnKey \/ CommitKey \/ CommitAges \/ SyncJob \/ Quit \/ Saving)
    <2>1. stale' = stale
        BY <1>5 DEF LearnKey, CommitKey, CommitAges, SyncJob, Quit, Sync, Saving, SaveDone, SaveFail
    <2>2. CASE stale
        BY <2>1, <2>2, StoreMuddled
    <2>3. CASE ~stale
        BY <1>5, <2>3, StoreLearn, StoreCommit, StoreAge, StoreSync, StoreSave DEF SyncJob, Quit
    <2> QED BY <2>2, <2>3
<1>6. CASE CommitEnd \/ \E p \in Phrases : Learn(p) \/ \E v \in 1..MaxPri : OnCommit(p, v)
    <2>1. UNCHANGED <<usr, ok, memory, stale>> /\ pc \in {"run", "commit"}
          /\ pc' \in {"run", "learn", "commit"}
        BY <1>6 DEF CommitEnd, Learn, CanLearn, OnCommit
    <2>2. CASE stale
        BY <2>1, <2>2, StoreMuddled
    <2>3. Map' = Map
        BY <2>1 DEF Map, Value
    <2>4. CASE ~stale
        BY <2>1, <2>3, <2>4, StoreSame
    <2> QED BY <2>2, <2>4
<1> QED BY <1>1, <1>2, <1>3, <1>4, <1>5, <1>6 DEF Next

LEMMA StoreInit == Init => Promise!Init /\ FileTree
<1> SUFFICES ASSUME Init PROVE Promise!Init /\ FileTree
    OBVIOUS
<1>1. ~InUse /\ Known = Empty
    BY DEF Init, InUse, Known
<1>2. MapsOf(usr) = {} /\ MapsOf(ok) = {}
    BY NoFileFacts DEF Init, MapsOf
<1> QED BY <1>1, <1>2 DEF Init, FileTree, Promise!Init, Promise!Empty, Empty

\* The cache, the bytes in two places, write() and its copies, the backup and the deaths of
\* the process: to those who learn and commit phrases they are a map that is saved and found
\* again (PY.cpp:49-94, IndexTreeWriter.cpp), for any phrases, sizes and limits.
THEOREM ImplementsPhraseStore == Spec => IsPhraseStore
<1>1. Inv /\ FileTree /\ [Next]_vars => FileTree'
    BY FileTreeStep
<1>2. Inv /\ [Next]_vars => [KeepsValues]_vars
    BY NextInv
<1> QED BY <1>1, <1>2, StoreInit, StoreStep, AlwaysInv, PTL
        DEF Spec, IsPhraseStore, Promise!Spec
=============================================================================
