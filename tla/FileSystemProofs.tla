--------------------------- MODULE FileSystemProofs ---------------------------
(***************************************************************************)
(* A File that is open has its stream and agrees with the media, and what  *)
(* a write of Darwin acknowledged stays stored: for every set of paths and *)
(* Files, every number of chunks, every port and any faults of the         *)
(* platform.  The streams are found under hashes, so that all of this is   *)
(* for paths whose hashes differ.                                          *)
(*                                                                         *)
(* FilesInv is the type of the variables and what relates the streams to   *)
(* the media.  MatchInv adds that a path is open in one File at most and   *)
(* that every File agrees with what is stored; a call disturbs one path    *)
(* and one File (Touches), and StepKeeps(f) says that of the File f that   *)
(* it is called on.  AckedInv is about what is stored, in any File.        *)
(***************************************************************************)
EXTENDS FileSystem, FiniteSetTheorems, SequenceTheorems, TLAPS

\* No two paths have the same hash.
KeysDiffer == \A p, q \in Paths \cup {NoPath} : PathKey[p] = PathKey[q] => p = q

FileRecord == [path : Paths \cup {NoPath}, size : Nat, filePointer : Nat,
               openMode : Modes \cup {"Unknown"}, isOpen : BOOLEAN]

MediaTyped(m) ==
  DOMAIN m \subseteq Paths /\ \A p \in DOMAIN m : m[p] \in Seq(1 .. MaxChunks)

StreamsTyped(s) ==
  /\ DOMAIN s \subseteq Keys /\ IsFiniteSet(DOMAIN s)
  /\ \A k \in DOMAIN s :
       /\ s[k] \in [path : Paths \cup {NoPath}, append : BOOLEAN, good : BOOLEAN]
       /\ PathKey[s[k].path] = k

\* What a stream is open on is there; a handle of SimpleLink may be an error.
Backed(s, m) ==
  \A k \in DOMAIN s : port # "Cc32xx" \/ s[k].good => s[k].path \in DOMAIN m

FilesInv ==
  /\ port \in Ports
  /\ MediaTyped(media) /\ StreamsTyped(streams) /\ Backed(streams, media)
  /\ files \in [Files -> FileRecord]
  /\ opened \in Nat /\ chunks \in 0 .. MaxChunks
  /\ acked \in [Paths -> Seq(1 .. MaxChunks)]
  /\ port = "KeyValue" => DOMAIN streams = {}

LEMMA FilesTyped == FilesInv => TypeOK
  BY DEF FilesInv, TypeOK, MediaTyped, StreamsTyped, FileRecord

LEMMA FilesStart ==
  ASSUME FileSystemAssumption, Init
  PROVE  FilesInv
  <1>1. DOMAIN media = {} /\ DOMAIN streams = {}
    BY DEF Init
  <1>2. NewFile \in FileRecord
    BY DEF NewFile, FileRecord
  <1>3. files \in [Files -> FileRecord]
    BY <1>2 DEF Init
  <1>4. acked \in [Paths -> Seq(1 .. MaxChunks)]
    BY DEF Init
  <1>5. IsFiniteSet({})
    BY FS_EmptySet
  <1> QED BY <1>1, <1>3, <1>4, <1>5 DEF Init, FilesInv, MediaTyped, StreamsTyped, Backed, FileSystemAssumption

-----------------------------------------------------------------------------
LEMMA PutIs ==
  ASSUME NEW m, NEW k, NEW v
  PROVE  /\ DOMAIN Put(m, k, v) = DOMAIN m \cup {k}
         /\ Put(m, k, v)[k] = v
         /\ \A x \in DOMAIN m \ {k} : Put(m, k, v)[x] = m[x]
  BY DEF Put

LEMMA DropIs ==
  ASSUME NEW m, NEW k
  PROVE  /\ DOMAIN Drop(m, k) = DOMAIN m \ {k}
         /\ \A x \in DOMAIN m \ {k} : Drop(m, k)[x] = m[x]
  BY DEF Drop

LEMMA PutTyped ==
  ASSUME NEW p, NEW m, MediaTyped(m), p \in Paths, NEW v \in Seq(1 .. MaxChunks)
  PROVE  MediaTyped(Put(m, p, v))
  <1> DEFINE n == Put(m, p, v)
  <1>1. DOMAIN n = DOMAIN m \cup {p} /\ n[p] = v /\ \A x \in DOMAIN m \ {p} : n[x] = m[x]
    BY DEF Put
  <1> HIDE DEF n
  <1>2. MediaTyped(n)
    BY <1>1 DEF MediaTyped
  <1> QED BY <1>2 DEF n

LEMMA DropTyped ==
  ASSUME NEW p, NEW m, MediaTyped(m)
  PROVE  MediaTyped(Drop(m, p))
  <1> DEFINE n == Drop(m, p)
  <1>1. DOMAIN n = DOMAIN m \ {p} /\ \A x \in DOMAIN m \ {p} : n[x] = m[x]
    BY DropIs
  <1> HIDE DEF n
  <1>2. MediaTyped(n)
    BY <1>1 DEF MediaTyped
  <1> QED BY <1>2 DEF n

LEMMA PutStream ==
  ASSUME NEW s, StreamsTyped(s), NEW p \in Paths \cup {NoPath}, NEW a \in BOOLEAN, NEW g \in BOOLEAN
  PROVE  StreamsTyped(Put(s, PathKey[p], [path |-> p, append |-> a, good |-> g]))
  <1> DEFINE k == PathKey[p]
             r == [path |-> p, append |-> a, good |-> g]
  <1>1. r.path = p /\ r \in [path : Paths \cup {NoPath}, append : BOOLEAN, good : BOOLEAN]
    OBVIOUS
  <1>2. k \in Keys
    BY DEF Keys
  <1>3. k = PathKey[p]
    OBVIOUS
  <1> HIDE DEF k, r
  <1>4. IsFiniteSet(DOMAIN s \cup {k})
    BY FS_AddElement DEF StreamsTyped
  <1> DEFINE t == Put(s, k, r)
  <1>5. DOMAIN t = DOMAIN s \cup {k} /\ t[k] = r /\ \A x \in DOMAIN s \ {k} : t[x] = s[x]
    BY DEF Put
  <1> HIDE DEF t
  <1>6. StreamsTyped(t)
    BY <1>1, <1>2, <1>3, <1>4, <1>5 DEF StreamsTyped
  <1> QED BY <1>6 DEF k, r, t

LEMMA DropStream ==
  ASSUME NEW s, StreamsTyped(s), NEW k
  PROVE  StreamsTyped(Drop(s, k))
  <1> DEFINE t == Drop(s, k)
  <1>1. IsFiniteSet(DOMAIN s \ {k})
    BY FS_RemoveElement DEF StreamsTyped
  <1>2. DOMAIN t = DOMAIN s \ {k} /\ \A x \in DOMAIN s \ {k} : t[x] = s[x]
    BY DropIs
  <1> HIDE DEF t
  <1>3. StreamsTyped(t)
    BY <1>1, <1>2 DEF StreamsTyped
  <1> QED BY <1>3 DEF t

\* Setting or clearing the error of a stream.
LEMMA MarkIs ==
  ASSUME NEW s, StreamsTyped(s), NEW k \in DOMAIN s, NEW g \in BOOLEAN
  PROVE  LET t == [s EXCEPT ![k].good = g]
         IN  /\ DOMAIN t = DOMAIN s /\ \A x \in DOMAIN s : t[x].path = s[x].path /\ t[x].append = s[x].append
             /\ t[k].good = g /\ \A x \in DOMAIN s \ {k} : t[x] = s[x]
             /\ StreamsTyped(t)
  <1> DEFINE t == [s EXCEPT ![k].good = g]
  <1>1. s[k] \in [path : Paths \cup {NoPath}, append : BOOLEAN, good : BOOLEAN]
    BY DEF StreamsTyped
  <1>2. DOMAIN t = DOMAIN s /\ \A x \in DOMAIN s \ {k} : t[x] = s[x]
    OBVIOUS
  <1>3. t[k] = [path |-> s[k].path, append |-> s[k].append, good |-> g]
    BY <1>1
  <1>4. t[k].path = s[k].path /\ t[k].append = s[k].append /\ t[k].good = g
    BY <1>3
  <1>5. t[k] \in [path : Paths \cup {NoPath}, append : BOOLEAN, good : BOOLEAN]
    BY <1>1, <1>3
  <1> HIDE DEF t
  <1>6. StreamsTyped(t)
    BY <1>2, <1>4, <1>5 DEF StreamsTyped
  <1>7. \A x \in DOMAIN s : t[x].path = s[x].path /\ t[x].append = s[x].append
    BY <1>2, <1>4
  <1> QED BY <1>2, <1>4, <1>6, <1>7 DEF t

LEMMA WrittenTyped ==
  ASSUME NEW s \in Seq(1 .. MaxChunks), NEW at \in Nat, NEW append \in BOOLEAN, NEW c \in 1 .. MaxChunks
  PROVE  /\ Written(s, at, append, c) \in Seq(1 .. MaxChunks)
         /\ Len(Written(s, at, append, c)) \in {Len(s), Len(s) + 1}
         /\ append => Written(s, at, append, c) = Append(s, c)
  <1>1. CASE append \/ at >= Len(s)
    <2>1. Written(s, at, append, c) = Append(s, c)
      BY <1>1 DEF Written
    <2> QED BY <2>1, AppendProperties
  <1>2. CASE ~(append \/ at >= Len(s))
    <2>1. Written(s, at, append, c) = [s EXCEPT ![at + 1] = c] /\ at + 1 \in 1 .. Len(s)
      BY <1>2 DEF Written
    <2>2. [s EXCEPT ![at + 1] = c] \in Seq(1 .. MaxChunks) /\ Len([s EXCEPT ![at + 1] = c]) = Len(s)
      BY <2>1, ExceptSeq
    <2> QED BY <1>2, <2>1, <2>2
  <1> QED BY <1>1, <1>2

LEMMA Smaller ==
  ASSUME NEW a \in Nat, NEW b \in Nat
  PROVE  Min({a, b}) \in {a, b} /\ Min({a, b}) <= a /\ Min({a, b}) <= b
  <1>1. \E x \in {a, b} : \A y \in {a, b} : x =< y
    BY a <= b \/ b <= a
  <1> QED BY <1>1 DEF Min

\* A read at an offset within the file finds what is there, up to the end.
LEMMA FoundIs ==
  ASSUME FilesInv, NEW f \in Files, NEW s \in Seq(1 .. MaxChunks), NEW n \in Nat
  PROVE  /\ Len(Found(f, s, n)) \in Nat
         /\ files[f].filePointer <= Len(s) => files[f].filePointer + Len(Found(f, s, n)) <= Len(s)
  <1> DEFINE at == files[f].filePointer
             to == Min({at + n, Len(s)})
  <1>1. at \in Nat /\ Len(s) \in Nat
    BY DEF FilesInv, FileRecord
  <1>2. to \in Nat /\ to <= Len(s)
    <2> DEFINE a == at + n
               b == Len(s)
    <2>1. a \in Nat /\ b \in Nat
      BY <1>1
    <2> HIDE DEF a, b
    <2>2. Min({a, b}) \in {a, b} /\ Min({a, b}) <= b
      BY <2>1, Smaller
    <2>3. to = Min({a, b})
      BY DEF a, b
    <2> HIDE DEF to
    <2> QED BY <2>1, <2>2, <2>3 DEF b
  <1>3. Len(SubSeq(s, at + 1, to)) = IF at + 1 <= to THEN to - (at + 1) + 1 ELSE 0
    <2> HIDE DEF at, to
    <2>1. ASSUME NEW i \in at + 1 .. to
          PROVE  s[i] \in 1 .. MaxChunks
      <3>1. i \in 1 .. Len(s)
        BY <1>1, <1>2
      <3> QED BY <3>1, ElementOfSeq
    <2> QED BY <1>1, <1>2, <2>1, SubSeqProperties
  <1>4. Found(f, s, n) = SubSeq(s, at + 1, to)
    BY DEF Found
  <1> HIDE DEF at, to
  <1>5. /\ Len(Found(f, s, n)) \in Nat
        /\ at <= Len(s) => at + Len(Found(f, s, n)) <= Len(s)
    BY <1>1, <1>2, <1>3, <1>4
  <1> QED BY <1>5 DEF at

-----------------------------------------------------------------------------
SameBut(m, n, k) == DOMAIN n \ {k} = DOMAIN m \ {k} /\ \A x \in DOMAIN m \ {k} : n[x] = m[x]

\* An open File has its stream (key/value pairs have none, SPIFFS may lose it), and as
\* long as that is good, on Linux and Darwin in any case, its offset is within what is
\* stored. There the size is not less than what is stored.
Matches(f) ==
  LET p == files[f].path IN
  files[f].isOpen =>
    /\ port # "Spiffs" => HasKey(f)
    /\ p \in DOMAIN media /\ HasKey(f) /\ (port \in {"Linux", "Darwin"} \/ StreamOf(f).good)
         => files[f].filePointer <= Len(media[p])
    /\ p \in DOMAIN media /\ port \in {"Linux", "Darwin"} => files[f].size >= Len(media[p])

MatchInv ==
  Careful /\ port # "KeyValue" =>
    /\ \A f, g \in Files : files[f].isOpen /\ files[g].isOpen /\ files[f].path = files[g].path => f = g
    /\ \A f \in Files : Matches(f)

\* A call of f changes nothing but f, what is stored under p and the stream of p, and
\* no other open File is of that path.
Touches(f, p) ==
  /\ \A g \in Files \ {f} : files'[g] = files[g]
  /\ SameBut(media, media', p) /\ SameBut(streams, streams', PathKey[p])
  /\ files'[f].isOpen => files'[f].path = p
  /\ \/ files[f].isOpen /\ files[f].path = p
     \/ \A g \in Files : ~(files[g].isOpen /\ files[g].path = p)

StepKeeps(f) == FilesInv' /\ (Careful /\ MatchInv => \E p \in Paths \cup {NoPath} : Touches(f, p) /\ Matches(f)')

LEMMA TouchKeeps ==
  ASSUME FilesInv, FilesInv', KeysDiffer, MatchInv, port' = port, Careful, port # "KeyValue",
         NEW f \in Files, NEW p \in Paths \cup {NoPath}, Touches(f, p), Matches(f)'
  PROVE  MatchInv'
  <1>1. ASSUME NEW g \in Files \ {f}, files'[g].isOpen
        PROVE  files'[g] = files[g] /\ files[g].path # p /\ KeyOf(g) # PathKey[p] /\ KeyOf(g)' = KeyOf(g)
    <2>1. files'[g] = files[g] /\ files[g].path \in Paths \cup {NoPath}
      BY DEF Touches, FilesInv, FileRecord
    <2>2. files[g].path # p
      BY <1>1, <2>1 DEF Touches, MatchInv
    <2> QED BY <2>1, <2>2 DEF KeyOf, KeysDiffer
  <1>2. ASSUME NEW g \in Files \ {f}, files'[g].isOpen
        PROVE  Matches(g)'
    <2>1. /\ files'[g] = files[g] /\ files[g].path # p /\ KeyOf(g) # PathKey[p] /\ KeyOf(g)' = KeyOf(g)
          /\ Matches(g)
      BY <1>1, <1>2 DEF MatchInv
    <2>2. /\ files[g].path \in DOMAIN media' <=> files[g].path \in DOMAIN media
          /\ files[g].path \in DOMAIN media => media'[files[g].path] = media[files[g].path]
      BY <2>1 DEF Touches, SameBut
    <2>3. /\ HasKey(g)' <=> HasKey(g)
          /\ HasKey(g) => StreamOf(g)' = StreamOf(g)
      BY <2>1 DEF Touches, SameBut, HasKey, StreamOf
    <2> QED BY <2>1, <2>2, <2>3 DEF Matches
  <1>3. \A g \in Files : Matches(g)'
    BY <1>2 DEF Matches
  <1>4. ASSUME NEW g \in Files, NEW h \in Files, files'[g].isOpen, files'[h].isOpen, files'[g].path = files'[h].path
        PROVE  g = h
    <2>1. CASE g # f /\ h # f
      BY <1>1, <1>4, <2>1 DEF MatchInv
    <2>2. CASE g = f /\ h # f
      BY <1>1, <1>4, <2>2 DEF Touches
    <2>3. CASE h = f /\ g # f
      BY <1>1, <1>4, <2>3 DEF Touches
    <2> QED BY <2>1, <2>2, <2>3
  <1> QED BY <1>3, <1>4 DEF MatchInv

-----------------------------------------------------------------------------
ContentsTyped ==
  MediaTyped(media) /\ chunks \in 0 .. MaxChunks /\ acked \in [Paths -> Seq(1 .. MaxChunks)]

LEMMA SameButs ==
  ASSUME NEW m, NEW k
  PROVE  /\ SameBut(m, m, k) /\ SameBut(m, Drop(m, k), k)
         /\ \A v : SameBut(m, Put(m, k, v), k)
  BY DEF SameBut, Put, Drop

LEMMA StoreNothingIs ==
  ASSUME FilesInv, NEW c, NEW f, NEW e, StoreNothing(c, f, e)
  PROVE  ContentsTyped' /\ media' = media
  BY DEF StoreNothing, FilesInv, ContentsTyped

LEMMA StoreIs ==
  ASSUME FileSystemAssumption, FilesInv, NEW f, NEW p \in DOMAIN media, NEW at \in Nat, NEW append \in BOOLEAN,
         NEW e, chunks < MaxChunks, Store(f, p, at, append, e)
  PROVE  /\ ContentsTyped' /\ SameBut(media, media', p) /\ DOMAIN media' = DOMAIN media
         /\ Len(media[p]) \in Nat /\ Len(media'[p]) \in {Len(media[p]), Len(media[p]) + 1}
  <1>1. p \in Paths /\ media[p] \in Seq(1 .. MaxChunks) /\ MaxChunks \in Nat /\ chunks + 1 \in 1 .. MaxChunks
    BY DEF FilesInv, MediaTyped, FileSystemAssumption
  <1> DEFINE w == Written(media[p], at, append, chunks + 1)
  <1>2. /\ chunks' = chunks + 1 /\ media' = Put(media, p, w)
        /\ acked' = IF e = "Success" THEN [acked EXCEPT ![p] = Append(@, chunks + 1)] ELSE acked
    BY DEF Store, Exists
  <1>3. w \in Seq(1 .. MaxChunks) /\ Len(w) \in {Len(media[p]), Len(media[p]) + 1} /\ Len(media[p]) \in Nat
    BY <1>1, WrittenTyped
  <1> HIDE DEF w
  <1>4. MediaTyped(media') /\ SameBut(media, media', p) /\ DOMAIN media' = DOMAIN media /\ media'[p] = w
    <2>1. MediaTyped(media)
      BY DEF FilesInv
    <2>2. MediaTyped(media')
      BY <1>1, <1>2, <1>3, <2>1, PutTyped
    <2> QED BY <1>2, <2>2 DEF SameBut, Put
  <1>5. Append(acked[p], chunks + 1) \in Seq(1 .. MaxChunks)
    BY <1>1, AppendProperties DEF FilesInv
  <1>6. acked' \in [Paths -> Seq(1 .. MaxChunks)]
    BY <1>1, <1>2, <1>5 DEF FilesInv
  <1> QED BY <1>1, <1>2, <1>3, <1>4, <1>6 DEF ContentsTyped

\* A file is made empty, or opened as it is.
LEMMA OpenedIs ==
  ASSUME FilesInv, NEW p \in Paths, NEW truncates \in BOOLEAN,
         media' = Put(media, p, IF Exists(p) /\ ~truncates THEN media[p] ELSE <<>>),
         Forget(p) \/ UNCHANGED acked, chunks' = chunks
  PROVE  LET s == IF Exists(p) /\ ~truncates THEN media[p] ELSE <<>>
         IN  /\ ContentsTyped' /\ SameBut(media, media', p) /\ DOMAIN media' = DOMAIN media \cup {p}
             /\ media'[p] = s /\ Len(s) \in Nat
  <1> DEFINE s == IF Exists(p) /\ ~truncates THEN media[p] ELSE <<>>
  <1>1. s \in Seq(1 .. MaxChunks) /\ Len(s) \in Nat
    <2>1. Exists(p) => media[p] \in Seq(1 .. MaxChunks)
      BY DEF FilesInv, MediaTyped, Exists
    <2>2. <<>> \in Seq(1 .. MaxChunks)
      OBVIOUS
    <2>3. s \in Seq(1 .. MaxChunks)
      BY <2>1, <2>2
    <2> QED BY <2>3
  <1>2. media' = Put(media, p, s)
    OBVIOUS
  <1> HIDE DEF s
  <1>3. MediaTyped(media') /\ SameBut(media, media', p) /\ DOMAIN media' = DOMAIN media \cup {p} /\ media'[p] = s
    <2>1. MediaTyped(media)
      BY DEF FilesInv
    <2>2. MediaTyped(media')
      BY <1>1, <1>2, <2>1, PutTyped
    <2> QED BY <1>2, <2>2 DEF SameBut, Put
  <1>4. <<>> \in Seq(1 .. MaxChunks)
    OBVIOUS
  <1>5. acked' \in [Paths -> Seq(1 .. MaxChunks)]
    BY <1>4 DEF Forget, FilesInv
  <1>6. ContentsTyped'
    BY <1>3, <1>5 DEF ContentsTyped, FilesInv
  <1> QED BY <1>1, <1>3, <1>6 DEF s

\* A file is removed, or is not there or stays.
LEMMA RemovedIs ==
  ASSUME FilesInv, NEW p, NEW gone \in BOOLEAN, gone => Exists(p),
         IF gone THEN media' = Drop(media, p) /\ Forget(p) ELSE UNCHANGED <<media, acked>>, chunks' = chunks
  PROVE  ContentsTyped' /\ SameBut(media, media', p) /\ DOMAIN media \ {p} \subseteq DOMAIN media'
  <1>1. CASE gone
    <2>1. p \in Paths
      BY <1>1 DEF Exists, FilesInv, MediaTyped
    <2>2. MediaTyped(media') /\ SameBut(media, media', p) /\ DOMAIN media' = DOMAIN media \ {p}
      <3>1. MediaTyped(media) /\ media' = Drop(media, p)
        BY <1>1 DEF FilesInv
      <3>2. MediaTyped(media')
        BY <3>1, DropTyped
      <3> QED BY <3>1, <3>2 DEF SameBut, Drop
    <2>3. <<>> \in Seq(1 .. MaxChunks)
      OBVIOUS
    <2>4. acked' \in [Paths -> Seq(1 .. MaxChunks)]
      BY <1>1, <2>1, <2>3 DEF Forget, FilesInv
    <2> QED BY <2>2, <2>4 DEF ContentsTyped, FilesInv
  <1>2. CASE ~gone
    BY <1>2, SameButs DEF ContentsTyped, FilesInv
  <1> QED BY <1>1, <1>2

\* Streams that are backed stay so if nothing is removed but what has no stream.
LEMMA BackedKeeps ==
  ASSUME FilesInv, KeysDiffer, NEW p \in Paths \cup {NoPath}, port' = port, StreamsTyped(streams'),
         DOMAIN media \ {p} \subseteq DOMAIN media', SameBut(streams, streams', PathKey[p]),
         \/ PathKey[p] \notin DOMAIN streams'
         \/ p \in DOMAIN media'
         \/ port = "Cc32xx" /\ ~streams'[PathKey[p]].good
  PROVE  Backed(streams, media)'
  <1> SUFFICES ASSUME NEW k \in DOMAIN streams', port # "Cc32xx" \/ streams'[k].good
               PROVE  streams'[k].path \in DOMAIN media'
    BY DEF Backed
  <1>1. PathKey[streams'[k].path] = k /\ streams'[k].path \in Paths \cup {NoPath}
    BY DEF StreamsTyped
  <1>2. CASE k = PathKey[p]
    <2>1. streams'[k].path = p
      BY <1>1, <1>2 DEF KeysDiffer
    <2> QED BY <1>2, <2>1
  <1>3. CASE k # PathKey[p]
    <2>1. k \in DOMAIN streams /\ streams'[k] = streams[k]
      BY <1>3 DEF SameBut
    <2> QED BY <1>1, <1>3, <2>1 DEF Backed, FilesInv
  <1> QED BY <1>2, <1>3

LEMMA InvOf ==
  ASSUME FilesInv, port' = port, ContentsTyped', StreamsTyped(streams'), Backed(streams, media)',
         files' \in [Files -> FileRecord], opened' \in Nat, port # "KeyValue"
  PROVE  FilesInv'
  BY DEF FilesInv, ContentsTyped

LEMMA OpenedCounts ==
  ASSUME StreamsTyped(streams)
  PROVE  Cardinality(DOMAIN streams) \in Nat
  BY FS_CardinalityType DEF StreamsTyped

-----------------------------------------------------------------------------
LEMMA PosixOpens ==
  ASSUME FileSystemAssumption, FilesInv, KeysDiffer, port \in {"Linux", "Darwin"},
         NEW f \in Files, NEW p \in Paths, NEW mode \in Modes, PosixOpen(f, p, mode)
  PROVE  StepKeeps(f)
  <1>0. port' = port /\ MayOpen(f, p) /\ StreamsTyped(streams) /\ files \in [Files -> FileRecord] /\ opened \in Nat
    BY DEF PosixOpen, FilesInv
  <1>1. CASE isOpen(f)
    <2>1. UNCHANGED <<streams, files>> /\ opened' = Cardinality(DOMAIN streams) /\ StoreNothing("open", f, "Success")
      BY <1>1 DEF PosixOpen
    <2>2. ContentsTyped' /\ media' = media /\ opened' \in Nat
      BY <1>0, <2>1, StoreNothingIs, OpenedCounts
    <2>3. FilesInv'
      BY <1>0, <2>1, <2>2 DEF FilesInv, ContentsTyped, Backed
    <2>4. Careful => Touches(f, p) /\ Matches(f)'
      BY <1>0, <2>1, <2>2, SameButs DEF Touches, Matches, MayOpen
    <2> QED BY <2>3, <2>4 DEF StepKeeps
  <1>2. CASE ~isOpen(f)
    <2> DEFINE m == toStdOpenMode(mode)
               s == IF Exists(p) /\ ~m.trunc THEN media[p] ELSE <<>>
    <2>0. m.trunc \in BOOLEAN /\ m.append \in BOOLEAN
      BY DEF toStdOpenMode
    <2>1. PICK bad \in Fails("open"), noSize \in Fails("size") :
                /\ IF bad
                   THEN /\ streams' = Drop(streams, PathKey[p])
                        /\ StoreNothing("open", f, "Failure")
                        /\ UNCHANGED files
                   ELSE /\ streams' = Put(streams, PathKey[p], [path |-> p, append |-> m.append, good |-> TRUE])
                        /\ media' = Put(media, p, s)
                        /\ IF s = <<>> THEN Forget(p) ELSE UNCHANGED acked
                        /\ files' = [files EXCEPT ![f] =
                             IF noSize THEN [@ EXCEPT !.path = p]
                             ELSE [path |-> p, size |-> Len(s), filePointer |-> Len(s),
                                   openMode |-> mode, isOpen |-> TRUE]]
                        /\ UNCHANGED chunks
                /\ UNCHANGED opened
      BY <1>2 DEF PosixOpen
    <2>2. CASE bad
      <3>1. streams' = Drop(streams, PathKey[p]) /\ UNCHANGED <<files, opened>> /\ StoreNothing("open", f, "Failure")
        BY <2>1, <2>2
      <3>2. ContentsTyped' /\ media' = media /\ StreamsTyped(streams')
        BY <1>0, <3>1, StoreNothingIs, DropStream
      <3>3. SameBut(streams, streams', PathKey[p]) /\ PathKey[p] \notin DOMAIN streams'
        BY <3>1 DEF SameBut, Drop
      <3>4. Backed(streams, media)'
        BY <1>0, <3>2, <3>3, BackedKeeps
      <3>5. FilesInv'
        BY <1>0, <3>1, <3>2, <3>4, InvOf
      <3>6. Careful => Touches(f, p) /\ Matches(f)'
        BY <1>0, <3>1, <3>2, <3>3, SameButs DEF Touches, Matches, MayOpen
      <3> QED BY <3>5, <3>6 DEF StepKeeps
    <2>3. CASE ~bad
      <3> DEFINE r == IF noSize THEN [files[f] EXCEPT !.path = p]
                      ELSE [path |-> p, size |-> Len(s), filePointer |-> Len(s), openMode |-> mode, isOpen |-> TRUE]
      <3>1. /\ streams' = Put(streams, PathKey[p], [path |-> p, append |-> m.append, good |-> TRUE])
            /\ media' = Put(media, p, s) /\ chunks' = chunks /\ opened' = opened
            /\ Forget(p) \/ UNCHANGED acked
            /\ files' = [files EXCEPT ![f] = r]
        BY <2>1, <2>3
      <3>2. ContentsTyped' /\ SameBut(media, media', p) /\ DOMAIN media' = DOMAIN media \cup {p}
            /\ media'[p] = s /\ Len(s) \in Nat
        BY <2>0, <3>1, OpenedIs
      <3>3. StreamsTyped(streams')
        BY <1>0, <2>0, <3>1, PutStream
      <3>4. SameBut(streams, streams', PathKey[p]) /\ PathKey[p] \in DOMAIN streams'
        BY <3>1 DEF SameBut, Put
      <3>5. Backed(streams, media)'
        BY <1>0, <3>2, <3>3, <3>4, BackedKeeps
      <3>6. r \in FileRecord /\ r.path = p /\ (r.isOpen => files[f].isOpen \/ (r.size = Len(s) /\ r.filePointer = Len(s)))
        <4>1. CASE noSize
          <5>1. files[f] \in FileRecord
            BY <1>0
          <5>2. r = [files[f] EXCEPT !.path = p]
            BY <4>1
          <5> QED BY <5>1, <5>2 DEF FileRecord
        <4>2. CASE ~noSize
          BY <3>2, <4>2 DEF FileRecord
        <4> QED BY <4>1, <4>2
      <3> HIDE DEF r, s, m
      <3>7. files' \in [Files -> FileRecord] /\ files'[f] = r /\ \A g \in Files \ {f} : files'[g] = files[g]
        BY <1>0, <3>1, <3>6
      <3>8. FilesInv'
        BY <1>0, <3>1, <3>2, <3>3, <3>5, <3>7, InvOf
      <3>9. Careful => Touches(f, p) /\ Matches(f)'
        <4>1. Careful => Touches(f, p)
          BY <1>0, <3>2, <3>4, <3>6, <3>7 DEF Touches, MayOpen
        <4>2. Careful => (r.isOpen => r.size = Len(s) /\ r.filePointer = Len(s))
          BY <1>0, <3>6 DEF MayOpen
        <4> QED BY <1>0, <3>2, <3>4, <3>6, <3>7, <4>1, <4>2 DEF Matches, HasKey, KeyOf
      <3> QED BY <3>8, <3>9 DEF StepKeeps
    <2> QED BY <2>2, <2>3
  <1> QED BY <1>1, <1>2

\* A call of f on the path it has, by a caller that may use f.
LEMMA OwnStep ==
  ASSUME FilesInv, KeysDiffer, port # "KeyValue", port' = port, NEW f \in Files, MayUse(f),
         ContentsTyped', SameBut(media, media', files[f].path),
         DOMAIN media \ {files[f].path} \subseteq DOMAIN media',
         StreamsTyped(streams'), SameBut(streams, streams', KeyOf(f)),
         \/ KeyOf(f) \notin DOMAIN streams'
         \/ files[f].path \in DOMAIN media'
         \/ port = "Cc32xx" /\ ~streams'[KeyOf(f)].good,
         NEW r \in FileRecord, files' = [files EXCEPT ![f] = r], r.path = files[f].path, opened' \in Nat,
         Careful /\ Matches(f) => Matches(f)'
  PROVE  StepKeeps(f)
  <1> DEFINE p == files[f].path
  <1>1. p \in Paths \cup {NoPath} /\ KeyOf(f) = PathKey[p] /\ files \in [Files -> FileRecord]
    BY DEF KeyOf, FilesInv, FileRecord
  <1>2. Backed(streams, media)'
    BY <1>1, BackedKeeps
  <1>3. files' \in [Files -> FileRecord] /\ files'[f] = r /\ \A g \in Files \ {f} : files'[g] = files[g]
    BY <1>1
  <1>4. FilesInv'
    BY <1>2, <1>3, InvOf
  <1>5. Careful /\ MatchInv => Touches(f, p) /\ Matches(f)'
    BY <1>1, <1>3 DEF Touches, MatchInv, MayUse
  <1> QED BY <1>1, <1>4, <1>5 DEF StepKeeps

\* ... that removes and stores nothing.
LEMMA QuietStep ==
  ASSUME FilesInv, KeysDiffer, port # "KeyValue", port' = port, NEW f \in Files, MayUse(f),
         ContentsTyped', media' = media,
         \/ streams' = streams
         \/ /\ HasKey(f) /\ port \in {"Linux", "Darwin"}
            /\ \E g \in BOOLEAN : streams' = [streams EXCEPT ![KeyOf(f)].good = g],
         NEW r \in FileRecord, files' = [files EXCEPT ![f] = r], r.path = files[f].path, opened' \in Nat,
         Careful /\ Matches(f) /\ r.isOpen =>
           /\ files[f].isOpen
           /\ files[f].path \in DOMAIN media /\ HasKey(f) /\ (port \in {"Linux", "Darwin"} \/ StreamOf(f).good)
                => r.filePointer <= Len(media[files[f].path])
           /\ files[f].path \in DOMAIN media /\ port \in {"Linux", "Darwin"} => r.size >= Len(media[files[f].path])
  PROVE  StepKeeps(f)
  <1>1. StreamsTyped(streams) /\ files[f].path \in Paths \cup {NoPath} /\ files \in [Files -> FileRecord]
    BY DEF FilesInv, FileRecord
  <1>2. /\ StreamsTyped(streams') /\ SameBut(streams, streams', KeyOf(f)) /\ DOMAIN streams' = DOMAIN streams
        /\ \A k \in DOMAIN streams : streams'[k].path = streams[k].path
        /\ port \notin {"Linux", "Darwin"} => streams' = streams
    <2>1. CASE streams' = streams
      BY <1>1, <2>1, SameButs
    <2>2. ASSUME HasKey(f), port \in {"Linux", "Darwin"}, NEW g \in BOOLEAN, streams' = [streams EXCEPT ![KeyOf(f)].good = g]
          PROVE  <1>2!:
      <3>1. KeyOf(f) \in DOMAIN streams
        BY <2>2 DEF HasKey
      <3> DEFINE t == [streams EXCEPT ![KeyOf(f)].good = g]
      <3>2. /\ DOMAIN t = DOMAIN streams /\ \A x \in DOMAIN streams : t[x].path = streams[x].path
            /\ \A x \in DOMAIN streams \ {KeyOf(f)} : t[x] = streams[x]
            /\ StreamsTyped(t)
        BY <1>1, <3>1, MarkIs
      <3>3. streams' = t
        BY <2>2
      <3> HIDE DEF t
      <3> QED BY <2>2, <3>2, <3>3 DEF SameBut
    <2> QED BY <2>1, <2>2
  <1>3. \/ KeyOf(f) \notin DOMAIN streams'
        \/ files[f].path \in DOMAIN media'
        \/ port = "Cc32xx" /\ ~streams'[KeyOf(f)].good
    <2>1. KeyOf(f) \in DOMAIN streams => streams[KeyOf(f)].path = files[f].path
      BY <1>1 DEF StreamsTyped, KeyOf, KeysDiffer
    <2> QED BY <1>2, <2>1 DEF Backed, FilesInv
  <1>4. SameBut(media, media', files[f].path)
    BY SameButs
  <1>5. files'[f] = r
    BY <1>1
  <1>6. Careful /\ Matches(f) => Matches(f)'
    BY <1>2, <1>5 DEF Matches, HasKey, StreamOf, KeyOf
  <1> QED BY <1>2, <1>3, <1>4, <1>6, OwnStep

LEMMA ClosedRecord ==
  ASSUME NEW a \in FileRecord
  PROVE  [a EXCEPT !.openMode = "Unknown", !.isOpen = FALSE]
           = [path |-> a.path, size |-> a.size, filePointer |-> a.filePointer,
              openMode |-> "Unknown", isOpen |-> FALSE]
  <1> DEFINE q == [a EXCEPT !.openMode = "Unknown", !.isOpen = FALSE]
             r == [path |-> a.path, size |-> a.size, filePointer |-> a.filePointer,
                   openMode |-> "Unknown", isOpen |-> FALSE]
  <1>1. q \in FileRecord /\ r \in FileRecord
    BY DEF FileRecord
  <1>2. q.path = r.path /\ q.size = r.size /\ q.filePointer = r.filePointer /\ q.openMode = r.openMode
    BY DEF FileRecord
  <1>3. q.isOpen = r.isOpen
    BY DEF FileRecord
  <1> HIDE DEF q, r
  <1>4. q = r
    BY ONLY <1>1, <1>2, <1>3 DEF FileRecord
  <1> QED BY <1>4 DEF q, r

\* Closing takes the stream away.
LEMMA CloseStep ==
  ASSUME FilesInv, KeysDiffer, port # "KeyValue", port' = port, NEW f \in Files, MayUse(f),
         ContentsTyped', SameBut(media, media', files[f].path),
         DOMAIN media \ {files[f].path} \subseteq DOMAIN media',
         streams' = Drop(streams, KeyOf(f)), files' = Closed(f), opened' \in {opened, Cardinality(DOMAIN streams')}
  PROVE  StepKeeps(f)
  <1>1. StreamsTyped(streams) /\ files \in [Files -> FileRecord] /\ files[f] \in FileRecord /\ opened \in Nat
    BY DEF FilesInv
  <1>2. StreamsTyped(streams') /\ SameBut(streams, streams', KeyOf(f)) /\ KeyOf(f) \notin DOMAIN streams'
    BY <1>1, DropStream DEF SameBut, Drop
  <1>3. opened' \in Nat
    <2>1. Cardinality(DOMAIN streams') \in Nat
      BY <1>2, FS_CardinalityType DEF StreamsTyped
    <2> QED BY <1>1, <2>1
  <1> DEFINE r == [path |-> files[f].path, size |-> files[f].size, filePointer |-> files[f].filePointer,
                   openMode |-> "Unknown", isOpen |-> FALSE]
  <1>4. r \in FileRecord /\ r.path = files[f].path /\ r.isOpen = FALSE
    BY <1>1 DEF FileRecord
  <1>5. files' = [files EXCEPT ![f] = r]
    <2> DEFINE q == [files[f] EXCEPT !.openMode = "Unknown", !.isOpen = FALSE]
    <2>1. q = r
      BY <1>1, ClosedRecord
    <2>2. files' = [files EXCEPT ![f] = q]
      <3>1. files'[f] = q /\ DOMAIN files' = Files /\ \A g \in Files \ {f} : files'[g] = files[g]
        BY <1>1 DEF Closed
      <3>2. files' = [g \in Files |-> files'[g]]
        BY <1>1 DEF Closed
      <3> HIDE DEF q
      <3> QED BY <1>1, <3>1, <3>2
    <2> HIDE DEF q, r
    <2> QED BY <2>1, <2>2
  <1> HIDE DEF r
  <1>6. files'[f] = r
    BY <1>1, <1>5
  <1>7. Matches(f)'
    BY <1>4, <1>6 DEF Matches
  <1> QED BY <1>2, <1>3, <1>4, <1>5, <1>7, OwnStep

-----------------------------------------------------------------------------
LEMMA KeepsFile ==
  ASSUME FilesInv, NEW f \in Files
  PROVE  /\ files[f] \in FileRecord /\ files = [files EXCEPT ![f] = files[f]]
         /\ files[f].path \in Paths \cup {NoPath} /\ opened \in Nat
         /\ HasKey(f) /\ KeysDiffer => StreamOf(f).path = files[f].path /\ StreamOf(f).append \in BOOLEAN
                         /\ (port # "Cc32xx" \/ StreamOf(f).good => files[f].path \in DOMAIN media)
  <1>1. files[f] \in FileRecord /\ files = [files EXCEPT ![f] = files[f]] /\ opened \in Nat
    BY DEF FilesInv
  <1>2. files[f].path \in Paths \cup {NoPath}
    BY <1>1 DEF FileRecord
  <1>3. HasKey(f) /\ KeysDiffer => StreamOf(f).path = files[f].path
    BY <1>2 DEF HasKey, KeyOf, StreamOf, KeysDiffer, FilesInv, StreamsTyped
  <1>4. HasKey(f) /\ KeysDiffer => StreamOf(f).append \in BOOLEAN
    BY DEF HasKey, KeyOf, StreamOf, FilesInv, StreamsTyped
  <1>5. HasKey(f) /\ KeysDiffer /\ (port # "Cc32xx" \/ StreamOf(f).good) => files[f].path \in DOMAIN media
    BY <1>3 DEF HasKey, KeyOf, StreamOf, FilesInv, Backed
  <1> QED BY <1>1, <1>2, <1>3, <1>4, <1>5

LEMMA PosixCloses ==
  ASSUME FilesInv, KeysDiffer, port \in {"Linux", "Darwin"}, NEW f \in Files, PosixClose(f)
  PROVE  StepKeeps(f)
  <1>0. port' = port /\ MayUse(f) /\ port # "KeyValue"
    BY DEF PosixClose
  <1>1. /\ ContentsTyped' /\ media' = media
        /\ \/ UNCHANGED <<files, opened>> /\ streams' = streams
           \/ UNCHANGED <<files, opened>> /\ HasKey(f) /\ streams' = [streams EXCEPT ![KeyOf(f)].good = TRUE]
           \/ streams' = Drop(streams, KeyOf(f)) /\ files' = Closed(f) /\ opened' = Cardinality(DOMAIN streams')
    BY StoreNothingIs DEF PosixClose, isOpen, Clear
  <1>2. CASE streams' = Drop(streams, KeyOf(f)) /\ files' = Closed(f) /\ opened' = Cardinality(DOMAIN streams')
    BY <1>0, <1>1, <1>2, SameButs, CloseStep
  <1>3. CASE UNCHANGED <<files, opened>> /\ (streams' = streams \/
               (HasKey(f) /\ streams' = [streams EXCEPT ![KeyOf(f)].good = TRUE]))
    BY <1>0, <1>1, <1>3, KeepsFile, QuietStep DEF Matches
  <1> QED BY <1>1, <1>2, <1>3

LEMMA PosixRemoves ==
  ASSUME FilesInv, KeysDiffer, port \in {"Linux", "Darwin"}, NEW f \in Files, PosixRemove(f)
  PROVE  StepKeeps(f)
  <1> DEFINE p == files[f].path
  <1>0. port' = port /\ MayUse(f) /\ port # "KeyValue"
    BY DEF PosixRemove
  <1>1. \/ /\ UNCHANGED <<files, opened, media>> /\ ContentsTyped'
           /\ isOpen(f) /\ streams' = [streams EXCEPT ![KeyOf(f)].good = TRUE]
        \/ /\ \/ streams' = Drop(streams, KeyOf(f)) /\ files' = Closed(f) /\ opened' = Cardinality(DOMAIN streams')
              \/ UNCHANGED <<streams, files, opened>> /\ ~isOpen(f)
           /\ chunks' = chunks
           /\ \E gone \in BOOLEAN :
                /\ gone => Exists(p)
                /\ IF gone THEN media' = Drop(media, p) /\ Forget(p) ELSE UNCHANGED <<media, acked>>
    <2>1. PICK ok \in IF isOpen(f) THEN Flushes(f) ELSE {TRUE}, bad \in Fails("delete") :
       IF ok THEN
              /\ IF isOpen(f)
                 THEN /\ streams' = Drop(streams, KeyOf(f))
                      /\ files' = Closed(f)
                      /\ opened' = Cardinality(DOMAIN streams')
                 ELSE UNCHANGED <<streams, files, opened>>
              /\ IF bad \/ ~Exists(p) THEN UNCHANGED <<media, acked>> ELSE media' = Drop(media, p) /\ Forget(p)
              /\ UNCHANGED chunks
       ELSE /\ streams' = Clear(f)
            /\ StoreNothing("remove", f, "Failure")
            /\ UNCHANGED <<files, opened>>
      BY DEF PosixRemove
    <2>2. CASE ok
      <3>1. CASE bad \/ ~Exists(p)
        <4>1. UNCHANGED <<media, acked>> /\ FALSE \in BOOLEAN
          BY <2>1, <2>2, <3>1
        <4> QED BY <2>1, <2>2, <4>1
      <3>2. CASE ~(bad \/ ~Exists(p))
        <4>1. media' = Drop(media, p) /\ Forget(p) /\ Exists(p)
          BY <2>1, <2>2, <3>2
        <4> QED BY <2>1, <2>2, <4>1
      <3> QED BY <3>1, <3>2
    <2>3. CASE ~ok
      <3>1. isOpen(f)
        BY <2>3
      <3>2. media' = media /\ ContentsTyped'
        BY <2>1, <2>3, StoreNothingIs
      <3> QED BY <2>1, <2>3, <3>1, <3>2 DEF Clear
    <2> QED BY <2>2, <2>3
  <1>2. CASE UNCHANGED <<files, opened, media>> /\ ContentsTyped' /\ isOpen(f)
             /\ streams' = [streams EXCEPT ![KeyOf(f)].good = TRUE]
    BY <1>0, <1>2, KeepsFile, QuietStep DEF Matches, isOpen
  <1>3. ASSUME chunks' = chunks, NEW gone \in BOOLEAN, gone => Exists(p),
               IF gone THEN media' = Drop(media, p) /\ Forget(p) ELSE UNCHANGED <<media, acked>>,
               \/ streams' = Drop(streams, KeyOf(f)) /\ files' = Closed(f) /\ opened' = Cardinality(DOMAIN streams')
               \/ UNCHANGED <<streams, files, opened>> /\ ~isOpen(f)
        PROVE  StepKeeps(f)
    <2>1. ContentsTyped' /\ SameBut(media, media', p) /\ DOMAIN media \ {p} \subseteq DOMAIN media'
      BY <1>3, RemovedIs
    <2>2. CASE streams' = Drop(streams, KeyOf(f)) /\ files' = Closed(f) /\ opened' = Cardinality(DOMAIN streams')
      BY <1>0, <2>1, <2>2, CloseStep
    <2>3. CASE UNCHANGED <<streams, files, opened>> /\ ~isOpen(f)
      <3>1. KeyOf(f) \notin DOMAIN streams' /\ SameBut(streams, streams', KeyOf(f)) /\ StreamsTyped(streams')
            /\ opened' \in Nat
        BY <2>3, SameButs DEF isOpen, HasKey, FilesInv
      <3>2. Matches(f) => Matches(f)'
        BY <1>0, <2>3 DEF Matches, isOpen, HasKey
      <3> QED BY <1>0, <2>1, <2>3, <3>1, <3>2, KeepsFile, OwnStep
    <2> QED BY <1>3, <2>2, <2>3
  <1> QED BY <1>1, <1>2, <1>3

LEMMA PosixSynchronizes ==
  ASSUME FilesInv, KeysDiffer, port \in {"Linux", "Darwin"}, NEW f \in Files, PosixSynchronize(f)
  PROVE  StepKeeps(f)
  <1>1. /\ ContentsTyped' /\ media' = media /\ port' = port /\ MayUse(f) /\ HasKey(f)
        /\ UNCHANGED <<files, opened>> /\ streams' = [streams EXCEPT ![KeyOf(f)].good = TRUE]
    BY StoreNothingIs DEF PosixSynchronize, isOpen, Clear
  <1> QED BY <1>1, KeepsFile, QuietStep DEF Matches

\* The offset moves.
LEMMA MovedRecord ==
  ASSUME NEW a \in FileRecord, NEW n \in Nat
  PROVE  LET r == [a EXCEPT !.filePointer = n]
         IN  r \in FileRecord /\ r.path = a.path /\ r.size = a.size /\ r.isOpen = a.isOpen /\ r.filePointer = n
  BY DEF FileRecord

LEMMA SizedRecord ==
  ASSUME NEW a \in FileRecord, NEW n \in Nat
  PROVE  LET r == [a EXCEPT !.size = n]
         IN  r \in FileRecord /\ r.path = a.path /\ r.size = n /\ r.isOpen = a.isOpen /\ r.filePointer = a.filePointer
  BY DEF FileRecord

LEMMA PosixReads ==
  ASSUME FilesInv, KeysDiffer, port \in {"Linux", "Darwin"}, NEW f \in Files, NEW n \in Buffers, PosixRead(f, n)
  PROVE  StepKeeps(f)
  <1>0. port' = port /\ MayUse(f) /\ port # "KeyValue" /\ opened' = opened /\ opened \in Nat
        /\ ContentsTyped' /\ media' = media
    BY StoreNothingIs DEF PosixRead, FilesInv
  <1>1. CASE canReadFromFile(files[f].openMode) /\ isOpen(f) /\ StreamOf(f).good
    <2> DEFINE s == media[StreamOf(f).path]
               found == Found(f, s, n)
               at == files[f].filePointer
    <2>1. /\ files' = [files EXCEPT ![f].filePointer = @ + Len(found)]
          /\ streams' = [streams EXCEPT ![KeyOf(f)].good = ~(Len(found) < n)]
      BY <1>1 DEF PosixRead
    <2>2. HasKey(f) /\ StreamOf(f).path = files[f].path /\ files[f].path \in DOMAIN media /\ files[f] \in FileRecord
      BY <1>1, KeepsFile DEF isOpen
    <2>3. s \in Seq(1 .. MaxChunks) /\ n \in Nat /\ at \in Nat /\ Len(s) \in Nat
      BY <2>2 DEF FilesInv, MediaTyped, FileRecord, Buffers
    <2>4. Len(found) \in Nat /\ (at <= Len(s) => at + Len(found) <= Len(s))
      BY <2>3, FoundIs
    <2> DEFINE r == [files[f] EXCEPT !.filePointer = at + Len(found)]
    <2>5. r \in FileRecord /\ r.path = files[f].path /\ r.size = files[f].size /\ r.isOpen = files[f].isOpen
          /\ r.filePointer = at + Len(found)
      <3> DEFINE to == at + Len(found)
      <3>1. to \in Nat
        BY <2>3, <2>4
      <3> HIDE DEF to
      <3>2. /\ [files[f] EXCEPT !.filePointer = to] \in FileRecord
            /\ [files[f] EXCEPT !.filePointer = to].path = files[f].path
            /\ [files[f] EXCEPT !.filePointer = to].size = files[f].size
            /\ [files[f] EXCEPT !.filePointer = to].isOpen = files[f].isOpen
            /\ [files[f] EXCEPT !.filePointer = to].filePointer = to
        BY <2>2, <3>1, MovedRecord
      <3> QED BY <3>2 DEF to
    <2>6. files' = [files EXCEPT ![f] = r]
      BY <2>1
    <2>7. \E g \in BOOLEAN : streams' = [streams EXCEPT ![KeyOf(f)].good = g]
      BY <2>1
    <2>8. Matches(f) /\ files[f].isOpen => /\ r.filePointer <= Len(media[files[f].path])
                                           /\ r.size >= Len(media[files[f].path])
      BY <2>2, <2>4, <2>5 DEF Matches
    <2> HIDE DEF r
    <2> QED BY <1>0, <2>2, <2>5, <2>6, <2>7, <2>8, QuietStep
  <1>2. CASE ~(canReadFromFile(files[f].openMode) /\ isOpen(f) /\ StreamOf(f).good)
    <2>1. files' = files /\ (streams' = streams \/ (HasKey(f) /\ streams' = [streams EXCEPT ![KeyOf(f)].good = TRUE]))
      BY <1>2 DEF PosixRead, isOpen, Clear
    <2> QED BY <1>0, <2>1, KeepsFile, QuietStep DEF Matches
  <1> QED BY <1>1, <1>2

LEMMA PosixSizes ==
  ASSUME FilesInv, KeysDiffer, port \in {"Linux", "Darwin"}, NEW f \in Files, PosixSize(f)
  PROVE  StepKeeps(f)
  <1>1. /\ ContentsTyped' /\ media' = media /\ port' = port /\ MayUse(f) /\ HasKey(f)
        /\ opened' = opened /\ opened \in Nat /\ streams' = [streams EXCEPT ![KeyOf(f)].good = TRUE]
    BY StoreNothingIs DEF PosixSize, isOpen, Clear, FilesInv
  <1>2. CASE files' = files
    BY <1>1, <1>2, KeepsFile, QuietStep DEF Matches
  <1>3. CASE files' = [files EXCEPT ![f].size = Len(media[StreamOf(f).path])]
    <2>1. StreamOf(f).path = files[f].path /\ files[f].path \in DOMAIN media /\ files[f] \in FileRecord
      BY <1>1, KeepsFile
    <2> DEFINE n == Len(media[files[f].path])
               r == [files[f] EXCEPT !.size = n]
    <2>2. n \in Nat
      BY <2>1 DEF FilesInv, MediaTyped
    <2>3. r \in FileRecord /\ r.path = files[f].path /\ r.size = n /\ r.isOpen = files[f].isOpen
          /\ r.filePointer = files[f].filePointer
      BY <2>1, <2>2, SizedRecord
    <2>4. files' = [files EXCEPT ![f] = r]
      BY <1>3, <2>1
    <2>5. Matches(f) /\ files[f].isOpen => /\ r.filePointer <= n /\ r.size >= n
      BY <1>1, <2>1, <2>2, <2>3 DEF Matches
    <2> HIDE DEF r
    <2> QED BY <1>1, <2>1, <2>3, <2>4, <2>5, QuietStep
  <1> QED BY <1>2, <1>3 DEF PosixSize

LEMMA PosixWrites ==
  ASSUME FileSystemAssumption, FilesInv, KeysDiffer, port \in {"Linux", "Darwin"}, NEW f \in Files, PosixWrite(f)
  PROVE  StepKeeps(f)
  <1>0. port' = port /\ MayUse(f) /\ port # "KeyValue" /\ opened' = opened /\ opened \in Nat /\ chunks < MaxChunks
    BY DEF PosixWrite, FilesInv
  <1>1. CASE isOpen(f) /\ canWriteToFile(files[f].openMode) /\ StreamOf(f).good
    <2> DEFINE p == files[f].path
               r == [files[f] EXCEPT !.size = files[f].size + 1]
    <2>1. HasKey(f) /\ StreamOf(f).path = p /\ StreamOf(f).append \in BOOLEAN /\ p \in DOMAIN media
          /\ files[f] \in FileRecord
      BY <1>1, KeepsFile DEF isOpen
    <2>2. files[f].filePointer \in Nat /\ files[f].size + 1 \in Nat
      BY <2>1 DEF FileRecord
    <2>3. r \in FileRecord /\ r.path = p /\ r.size = files[f].size + 1 /\ r.isOpen = files[f].isOpen
          /\ r.filePointer = files[f].filePointer
      BY <2>1, <2>2, SizedRecord
    <2>4. /\ files' = [files EXCEPT ![f] = r] /\ streams' = [streams EXCEPT ![KeyOf(f)].good = TRUE]
          /\ \/ \E e : Store(f, p, files[f].filePointer, StreamOf(f).append, e)
             \/ chunks' = chunks + 1 /\ UNCHANGED <<media, acked>>
      BY <1>1, <2>1 DEF PosixWrite, Clear
    <2>5. /\ ContentsTyped' /\ SameBut(media, media', p) /\ DOMAIN media' = DOMAIN media
          /\ Len(media[p]) \in Nat /\ Len(media'[p]) \in {Len(media[p]), Len(media[p]) + 1}
      <3>1. ASSUME NEW e, Store(f, p, files[f].filePointer, StreamOf(f).append, e)
            PROVE  <2>5!:
        BY <1>0, <2>1, <2>2, <3>1, StoreIs
      <3>2. CASE chunks' = chunks + 1 /\ UNCHANGED <<media, acked>>
        <4>1. Len(media[p]) \in Nat
          BY <2>1 DEF FilesInv, MediaTyped
        <4>2. chunks' \in 0 .. MaxChunks
          BY <1>0, <3>2 DEF FilesInv, FileSystemAssumption
        <4> QED BY <3>2, <4>1, <4>2, SameButs DEF ContentsTyped, FilesInv
      <3> QED BY <2>4, <3>1, <3>2
    <2> HIDE DEF r
    <2> DEFINE t == [streams EXCEPT ![KeyOf(f)].good = TRUE]
    <2>6. StreamsTyped(t) /\ DOMAIN t = DOMAIN streams /\ \A x \in DOMAIN streams \ {KeyOf(f)} : t[x] = streams[x]
      <3>1. StreamsTyped(streams) /\ KeyOf(f) \in DOMAIN streams
        BY <2>1 DEF FilesInv, HasKey
      <3> QED BY <3>1, MarkIs
    <2>7. StreamsTyped(streams') /\ SameBut(streams, streams', KeyOf(f)) /\ DOMAIN streams' = DOMAIN streams
      BY <2>4, <2>6 DEF SameBut
    <2>8. files'[f] = r
      BY <2>4 DEF FilesInv
    <2>9. Matches(f) => Matches(f)'
      <3>1. /\ files'[f].path = p /\ files'[f].isOpen = files[f].isOpen /\ files'[f].size = files[f].size + 1
            /\ files'[f].filePointer = files[f].filePointer /\ files[f].size \in Nat
        BY <2>1, <2>3, <2>8 DEF FileRecord
      <3>2. HasKey(f)' /\ p \in DOMAIN media'
        BY <2>1, <2>5, <2>7, <3>1 DEF HasKey, KeyOf
      <3>3. Matches(f) /\ files[f].isOpen =>
              files[f].filePointer <= Len(media[p]) /\ files[f].size >= Len(media[p])
        BY <2>1 DEF Matches
      <3>4. Matches(f) /\ files[f].isOpen =>
              files'[f].filePointer <= Len(media'[p]) /\ files'[f].size >= Len(media'[p])
        <4> DEFINE a == files[f].filePointer
                   b == files[f].size
                   c == Len(media[p])
                   d == Len(media'[p])
        <4>1. a \in Nat /\ b \in Nat /\ c \in Nat /\ d \in {c, c + 1}
          BY <2>2, <2>5, <3>1
        <4>2. files'[f].filePointer = a /\ files'[f].size = b + 1
          BY <3>1
        <4> HIDE DEF a, b, c, d
        <4>3. a <= c /\ b >= c => a <= d /\ b + 1 >= d
          BY <4>1
        <4> QED BY <3>3, <4>2, <4>3 DEF a, b, c, d
      <3> QED BY <3>1, <3>2, <3>4 DEF Matches
    <2> HIDE DEF t
    <2> QED BY <1>0, <2>1, <2>3, <2>4, <2>5, <2>7, <2>9, OwnStep
  <1>2. CASE ~(isOpen(f) /\ canWriteToFile(files[f].openMode) /\ StreamOf(f).good)
    <2>1. /\ files' = files /\ ContentsTyped' /\ media' = media
          /\ streams' = streams \/ (HasKey(f) /\ streams' = [streams EXCEPT ![KeyOf(f)].good = TRUE])
      BY <1>2, StoreNothingIs DEF PosixWrite, isOpen, Clear
    <2> QED BY <1>0, <2>1, KeepsFile, QuietStep DEF Matches
  <1> QED BY <1>1, <1>2

\* Seek works on every port, and on a File that is not open too.
LEMMA SeekKeeps ==
  ASSUME FilesInv, KeysDiffer, NEW f \in Files, Seek(f)
  PROVE  FilesInv' /\ (MatchInv => MatchInv')
  <1> DEFINE r == [files[f] EXCEPT !.filePointer = 0]
  <1>1. files[f] \in FileRecord /\ files \in [Files -> FileRecord]
    BY DEF FilesInv
  <1>2. r \in FileRecord /\ r.path = files[f].path /\ r.size = files[f].size /\ r.isOpen = files[f].isOpen
        /\ r.filePointer = 0
    BY <1>1, MovedRecord
  <1>3. files' = [files EXCEPT ![f] = r] /\ UNCHANGED <<port, media, streams, opened, chunks, acked>>
    BY DEF Seek
  <1> HIDE DEF r
  <1>4. files' \in [Files -> FileRecord] /\ files'[f] = r /\ \A g \in Files \ {f} : files'[g] = files[g]
    BY <1>1, <1>2, <1>3
  <1>5. FilesInv'
    BY <1>3, <1>4 DEF FilesInv, Backed
  <1>6. ASSUME NEW g \in Files, Matches(g)
        PROVE  Matches(g)'
    <2>1. /\ files'[g].path = files[g].path /\ files'[g].isOpen = files[g].isOpen /\ files'[g].size = files[g].size
          /\ files'[g].filePointer \in {0, files[g].filePointer}
      BY <1>2, <1>4
    <2>2. \A p \in DOMAIN media : Len(media[p]) \in Nat
      BY DEF FilesInv, MediaTyped
    <2> QED BY <1>3, <1>6, <2>1, <2>2 DEF Matches, HasKey, KeyOf, StreamOf
  <1>7. \A g \in Files : files'[g].path = files[g].path /\ files'[g].isOpen = files[g].isOpen
    BY <1>2, <1>4
  <1> QED BY <1>3, <1>5, <1>6, <1>7 DEF MatchInv

-----------------------------------------------------------------------------
LEMMA SpiffsOpens ==
  ASSUME FileSystemAssumption, FilesInv, KeysDiffer, port = "Spiffs",
         NEW f \in Files, NEW p \in Paths, NEW mode \in Modes, SpiffsOpen(f, p, mode, MaxOpenFiles)
  PROVE  StepKeeps(f)
  <1> DEFINE m == toPosixOpenMode(mode)
             s == IF Exists(p) /\ ~m.trunc THEN media[p] ELSE <<>>
  <1>0. port' = port /\ MayOpen(f, p) /\ StreamsTyped(streams) /\ files \in [Files -> FileRecord] /\ opened \in Nat
        /\ m.trunc \in BOOLEAN /\ m.append \in BOOLEAN /\ m.writes \in BOOLEAN /\ files[f] \in FileRecord
    BY DEF SpiffsOpen, FilesInv, toPosixOpenMode
  <1>1. CASE UNCHANGED <<streams, files, opened>> /\ \E e : StoreNothing("open", f, e)
    <2>1. ContentsTyped' /\ media' = media
      BY <1>1, StoreNothingIs
    <2>2. FilesInv'
      BY <1>0, <1>1, <2>1 DEF FilesInv, ContentsTyped, Backed
    <2>3. Careful => Touches(f, p) /\ Matches(f)'
      BY <1>0, <1>1, <2>1, SameButs DEF Touches, Matches, MayOpen
    <2> QED BY <2>2, <2>3 DEF StepKeeps
  <1>2. ASSUME media' = Put(media, p, s), Forget(p) \/ UNCHANGED acked, chunks' = chunks,
               NEW r \in FileRecord, r.path = p, files' = [files EXCEPT ![f] = r],
               StreamsTyped(streams'), SameBut(streams, streams', PathKey[p]), opened' \in Nat,
               r.isOpen => r.filePointer = Len(s)
        PROVE  StepKeeps(f)
    <2>1. ContentsTyped' /\ SameBut(media, media', p) /\ DOMAIN media' = DOMAIN media \cup {p}
          /\ media'[p] = s /\ Len(s) \in Nat
      BY <1>0, <1>2, OpenedIs
    <2> HIDE DEF s, m
    <2>2. Backed(streams, media)'
      BY <1>0, <1>2, <2>1, BackedKeeps
    <2>3. files' \in [Files -> FileRecord] /\ files'[f] = r /\ \A g \in Files \ {f} : files'[g] = files[g]
      BY <1>0, <1>2
    <2>4. FilesInv'
      BY <1>0, <1>2, <2>1, <2>2, <2>3, InvOf
    <2>5. Careful => Touches(f, p)
      BY <1>0, <1>2, <2>1, <2>3 DEF Touches, MayOpen
    <2>6. Matches(f)'
      BY <1>0, <1>2, <2>1, <2>3 DEF Matches
    <2> QED BY <2>4, <2>5, <2>6 DEF StepKeeps
  <1>3. ASSUME media' = Put(media, p, s), Forget(p) \/ UNCHANGED acked, chunks' = chunks,
               files' = [files EXCEPT ![f] = [@ EXCEPT !.path = p, !.isOpen = FALSE, !.openMode = "Unknown",
                                                       !.filePointer = files[f].size]],
               UNCHANGED <<streams, opened>>
        PROVE  StepKeeps(f)
    <2> DEFINE r == [files[f] EXCEPT !.path = p, !.isOpen = FALSE, !.openMode = "Unknown",
                                     !.filePointer = files[f].size]
    <2>1. r \in FileRecord /\ r.path = p /\ r.isOpen = FALSE
      BY <1>0 DEF FileRecord
    <2>2. files' = [files EXCEPT ![f] = r]
      BY <1>3
    <2> HIDE DEF r, s, m
    <2> QED BY <1>0, <1>2, <1>3, <2>1, <2>2, SameButs
  <1>4. ASSUME media' = Put(media, p, s), Forget(p) \/ UNCHANGED acked, chunks' = chunks,
               files' = [files EXCEPT ![f] = [path |-> p, size |-> Len(s), filePointer |-> Len(s),
                                              openMode |-> mode, isOpen |-> TRUE]],
               streams' = Put(streams, PathKey[p], [path |-> p, append |-> m.append, good |-> m.writes]),
               opened' = Cardinality(DOMAIN streams')
        PROVE  StepKeeps(f)
    <2> DEFINE r == [path |-> p, size |-> Len(s), filePointer |-> Len(s), openMode |-> mode, isOpen |-> TRUE]
    <2>0. Len(s) \in Nat
      BY <1>0, <1>4, OpenedIs
    <2>1. r \in FileRecord /\ r.path = p /\ r.filePointer = Len(s)
      BY <2>0 DEF FileRecord
    <2>2. files' = [files EXCEPT ![f] = r]
      BY <1>4
    <2>3. StreamsTyped(streams')
      BY <1>0, <1>4, PutStream
    <2>4. SameBut(streams, streams', PathKey[p])
      BY <1>4 DEF SameBut, Put
    <2>5. opened' \in Nat
      BY <1>4, <2>3, FS_CardinalityType DEF StreamsTyped
    <2> HIDE DEF r, s, m
    <2> QED BY <1>2, <1>4, <2>1, <2>2, <2>3, <2>4, <2>5
  <1>5. CASE Cardinality(DOMAIN streams) >= MaxOpenFiles
    <2>1. UNCHANGED <<streams, files, opened>> /\ StoreNothing("open", f, "LimitReached")
      BY <1>5 DEF SpiffsOpen
    <2> QED BY <1>1, <2>1
  <1>6. CASE ~(Cardinality(DOMAIN streams) >= MaxOpenFiles)
    <2>1. PICK bad \in Fails("open"), noSize \in Fails("size") :
                IF bad \/ (m.exists /\ ~Exists(p))
                THEN StoreNothing("open", f, "Failure") /\ UNCHANGED <<streams, files, opened>>
                ELSE /\ media' = Put(media, p, s)
                     /\ IF s = <<>> THEN Forget(p) ELSE UNCHANGED acked
                     /\ UNCHANGED chunks
                     /\ IF noSize
                        THEN /\ files' = [files EXCEPT ![f] = [@ EXCEPT !.path = p, !.isOpen = FALSE, !.openMode = "Unknown",
                                                                        !.filePointer = files[f].size]]
                             /\ UNCHANGED <<streams, opened>>
                        ELSE /\ files' = [files EXCEPT ![f] = [path |-> p, size |-> Len(s), filePointer |-> Len(s),
                                                               openMode |-> mode, isOpen |-> TRUE]]
                             /\ streams' = Put(streams, PathKey[p],
                                               [path |-> p, append |-> m.append, good |-> m.writes])
                             /\ opened' = Cardinality(DOMAIN streams')
      BY <1>6 DEF SpiffsOpen
    <2> HIDE DEF s, m
    <2> QED BY <1>1, <1>3, <1>4, <2>1
  <1> QED BY <1>5, <1>6

LEMMA SpiffsCloses ==
  ASSUME FilesInv, KeysDiffer, port = "Spiffs", NEW f \in Files, SpiffsClose(f)
  PROVE  StepKeeps(f)
  <1>1. /\ ContentsTyped' /\ media' = media /\ port' = port /\ MayUse(f)
        /\ \/ UNCHANGED <<streams, files, opened>>
           \/ streams' = Drop(streams, KeyOf(f)) /\ files' = Closed(f) /\ opened' = Cardinality(DOMAIN streams')
    BY StoreNothingIs DEF SpiffsClose
  <1>2. CASE UNCHANGED <<streams, files, opened>>
    BY <1>1, <1>2, KeepsFile, QuietStep DEF Matches
  <1>3. CASE streams' = Drop(streams, KeyOf(f)) /\ files' = Closed(f) /\ opened' = Cardinality(DOMAIN streams')
    BY <1>1, <1>3, SameButs, CloseStep
  <1> QED BY <1>1, <1>2, <1>3

LEMMA SpiffsRemoves ==
  ASSUME FilesInv, KeysDiffer, port = "Spiffs", NEW f \in Files, SpiffsRemove(f)
  PROVE  StepKeeps(f)
  <1> DEFINE p == files[f].path
  <1>0. port' = port /\ MayUse(f) /\ streams' = Drop(streams, KeyOf(f)) /\ opened' = opened /\ chunks' = chunks
    BY DEF SpiffsRemove
  <1>1. PICK gone \in BOOLEAN : /\ gone => Exists(p)
                                /\ IF gone THEN media' = Drop(media, p) /\ Forget(p) ELSE UNCHANGED <<media, acked>>
                                /\ files' = files \/ files' = Closed(f)
    <2>1. PICK stuck \in Fails("close"), bad \in Fails("delete") :
             LET open == files[f].isOpen /\ stuck
                 gone == ~open /\ ~bad /\ Exists(p)
             IN  /\ files' = IF open THEN files ELSE Closed(f)
                 /\ IF gone THEN media' = Drop(media, p) /\ Forget(p) ELSE UNCHANGED <<media, acked>>
      BY DEF SpiffsRemove
    <2>2. CASE ~(files[f].isOpen /\ stuck) /\ ~bad /\ Exists(p)
      <3>1. media' = Drop(media, p) /\ Forget(p) /\ files' = Closed(f)
        BY <2>1, <2>2
      <3> QED BY <2>2, <3>1
    <2>3. CASE ~(~(files[f].isOpen /\ stuck) /\ ~bad /\ Exists(p))
      <3>1. UNCHANGED <<media, acked>> /\ (files' = files \/ files' = Closed(f))
        BY <2>1, <2>3
      <3> QED BY <3>1
    <2> QED BY <2>2, <2>3
  <1>2. ContentsTyped' /\ SameBut(media, media', p) /\ DOMAIN media \ {p} \subseteq DOMAIN media'
    BY <1>0, <1>1, RemovedIs
  <1>3. CASE files' = Closed(f)
    BY <1>0, <1>2, <1>3, CloseStep
  <1>4. CASE files' = files
    <2>1. StreamsTyped(streams') /\ SameBut(streams, streams', KeyOf(f)) /\ KeyOf(f) \notin DOMAIN streams'
      BY <1>0, DropStream DEF SameBut, Drop, FilesInv
    <2>2. Matches(f)'
      BY <1>0, <1>4, <2>1 DEF Matches, HasKey, KeyOf
    <2>3. opened' \in Nat
      BY <1>0 DEF FilesInv
    <2> QED BY <1>0, <1>2, <1>4, <2>1, <2>2, <2>3, KeepsFile, OwnStep
  <1> QED BY <1>1, <1>3, <1>4

LEMMA SpiffsReads ==
  ASSUME FilesInv, KeysDiffer, port = "Spiffs", NEW f \in Files, NEW n \in Buffers, SpiffsRead(f, n)
  PROVE  StepKeeps(f)
  <1> DEFINE s == media[files[f].path]
             at == files[f].filePointer
             to == at + Len(Found(f, s, n))
             r == [files[f] EXCEPT !.filePointer = to]
  <1>1. HasKey(f) /\ StreamOf(f).path = files[f].path /\ files[f].path \in DOMAIN media /\ files[f] \in FileRecord
    BY KeepsFile DEF SpiffsRead
  <1>2. /\ port' = port /\ MayUse(f) /\ ContentsTyped' /\ media' = media /\ streams' = streams
        /\ opened' = opened /\ opened \in Nat /\ files' = [files EXCEPT ![f] = r]
    BY <1>1, StoreNothingIs DEF SpiffsRead, FilesInv
  <1>3. s \in Seq(1 .. MaxChunks) /\ n \in Nat /\ at \in Nat /\ Len(s) \in Nat
    BY <1>1 DEF FilesInv, MediaTyped, FileRecord, Buffers
  <1>4. to \in Nat /\ (at <= Len(s) => to <= Len(s))
    BY <1>3, FoundIs
  <1> HIDE DEF to
  <1>5. r \in FileRecord /\ r.path = files[f].path /\ r.isOpen = files[f].isOpen /\ r.filePointer = to
    BY <1>1, <1>4, MovedRecord
  <1> HIDE DEF r
  <1>6. Matches(f) /\ files[f].isOpen /\ StreamOf(f).good => r.filePointer <= Len(s)
    BY <1>1, <1>4, <1>5 DEF Matches
  <1> QED BY <1>1, <1>2, <1>5, <1>6, QuietStep

LEMMA SpiffsWrites ==
  ASSUME FileSystemAssumption, FilesInv, KeysDiffer, port = "Spiffs", NEW f \in Files, SpiffsWrite(f)
  PROVE  StepKeeps(f)
  <1> DEFINE p == files[f].path
  <1>0. /\ port' = port /\ MayUse(f) /\ HasKey(f) /\ chunks < MaxChunks /\ UNCHANGED <<streams, files, opened>>
        /\ opened \in Nat /\ StreamsTyped(streams)
    BY DEF SpiffsWrite, FilesInv
  <1>1. StreamOf(f).path = p /\ StreamOf(f).append \in BOOLEAN /\ p \in DOMAIN media /\ files[f] \in FileRecord
    BY <1>0, KeepsFile
  <1>2. files[f].filePointer \in Nat
    BY <1>1 DEF FileRecord
  <1>3. CASE StreamOf(f).good
    <2>1. PICK e : Store(f, p, files[f].filePointer, StreamOf(f).append, e)
      BY <1>1, <1>3 DEF SpiffsWrite
    <2>2. /\ ContentsTyped' /\ SameBut(media, media', p) /\ DOMAIN media' = DOMAIN media
          /\ Len(media[p]) \in Nat /\ Len(media'[p]) \in {Len(media[p]), Len(media[p]) + 1}
      BY <1>0, <1>1, <1>2, <2>1, StoreIs
    <2>3. SameBut(streams, streams', KeyOf(f))
      BY <1>0, SameButs
    <2>4. files[f].filePointer <= Len(media[p]) => files[f].filePointer <= Len(media'[p])
      BY <1>2, <2>2
    <2>5. Matches(f) => Matches(f)'
      BY <1>0, <1>1, <2>2, <2>4 DEF Matches, HasKey, KeyOf, StreamOf
    <2> QED BY <1>0, <1>1, <2>2, <2>3, <2>5, KeepsFile, OwnStep
  <1>4. CASE ~StreamOf(f).good
    <2>1. ContentsTyped' /\ media' = media
      BY <1>4, StoreNothingIs DEF SpiffsWrite
    <2> QED BY <1>0, <2>1, KeepsFile, QuietStep DEF Matches
  <1> QED BY <1>3, <1>4

-----------------------------------------------------------------------------
LEMMA PairsInv ==
  ASSUME FilesInv, port = "KeyValue", port' = port, ContentsTyped', UNCHANGED <<streams, opened>>,
         files' \in [Files -> FileRecord]
  PROVE  FilesInv'
  <1>1. StreamsTyped(streams') /\ Backed(streams, media)'
    BY DEF FilesInv, Backed
  <1> QED BY <1>1 DEF FilesInv, ContentsTyped

LEMMA ClosedTyped ==
  ASSUME FilesInv, NEW f \in Files
  PROVE  Closed(f) \in [Files -> FileRecord]
  <1>1. files[f] \in FileRecord /\ files \in [Files -> FileRecord]
    BY DEF FilesInv
  <1> DEFINE q == [files[f] EXCEPT !.openMode = "Unknown", !.isOpen = FALSE]
  <1>2. q \in FileRecord
    BY <1>1 DEF FileRecord
  <1>3. Closed(f)[f] = q /\ DOMAIN Closed(f) = Files /\ \A g \in Files \ {f} : Closed(f)[g] = files[g]
    BY <1>1 DEF Closed
  <1>4. Closed(f) = [g \in Files |-> Closed(f)[g]]
    BY <1>1 DEF Closed
  <1> HIDE DEF q
  <1>5. \A g \in Files : Closed(f)[g] \in FileRecord
    BY <1>1, <1>2, <1>3
  <1> QED BY <1>4, <1>5

LEMMA PairsOpen ==
  ASSUME FileSystemAssumption, FilesInv, port = "KeyValue", NEW f \in Files, NEW p \in Paths, NEW mode \in Modes,
         KeyValueOpen(f, p, mode)
  PROVE  FilesInv'
  <1> DEFINE q     == files[f].path
             found == Exists(q)
             size  == IF found THEN Len(media[q]) ELSE 0
             error == IF fileMustExist(mode) /\ ~found THEN "FileNotFound"
                      ELSE IF fileMustNotExist(mode) /\ found THEN "FileExists" ELSE "Success"
             dummy == error = "Success" /\ ~fileShouldBeTruncated(mode) /\ size = 0 /\ q # NoPath
             at    == IF error # "Success" THEN files[f].filePointer
                      ELSE IF fileShouldBeTruncated(mode) THEN 0 ELSE size
             r     == [path |-> p, size |-> size, openMode |-> mode, isOpen |-> TRUE, filePointer |-> at]
  <1>1. /\ dummy => chunks < MaxChunks
        /\ files' = [files EXCEPT ![f] = r]
        /\ chunks' = IF dummy THEN chunks + 1 ELSE chunks
        /\ IF dummy THEN media' = Put(media, q, <<chunks + 1>>) /\ Forget(q) ELSE UNCHANGED <<media, acked>>
        /\ UNCHANGED <<port, streams, opened>>
    BY DEF KeyValueOpen
  <1>2. files[f] \in FileRecord /\ files \in [Files -> FileRecord] /\ q \in Paths \cup {NoPath}
    BY DEF FilesInv, FileRecord
  <1>3. found => Len(media[q]) \in Nat
    BY DEF Exists, FilesInv, MediaTyped
  <1>4. size \in Nat /\ files[f].filePointer \in Nat
    BY <1>2, <1>3 DEF FileRecord
  <1>5. at \in Nat
    BY <1>4
  <1>6. dummy => q \in Paths
    BY <1>2
  <1> HIDE DEF dummy, size, at
  <1>7. r \in FileRecord
    BY <1>4, <1>5 DEF FileRecord
  <1> HIDE DEF r
  <1>8. files' \in [Files -> FileRecord]
    BY <1>1, <1>2, <1>7
  <1>9. ContentsTyped'
    <2>1. CASE dummy
      <3>1. chunks + 1 \in 1 .. MaxChunks /\ chunks' = chunks + 1
        BY <1>1, <2>1 DEF FilesInv, FileSystemAssumption
      <3>2. <<chunks + 1>> \in Seq(1 .. MaxChunks) /\ <<>> \in Seq(1 .. MaxChunks)
        BY <3>1
      <3>3. MediaTyped(media)
        BY DEF FilesInv
      <3>4. MediaTyped(Put(media, q, <<chunks + 1>>))
        BY <1>6, <2>1, <3>2, <3>3, PutTyped
      <3>5. acked' \in [Paths -> Seq(1 .. MaxChunks)]
        BY <1>1, <1>6, <2>1, <3>2 DEF Forget, FilesInv
      <3> QED BY <1>1, <2>1, <3>1, <3>4, <3>5 DEF ContentsTyped
    <2>2. CASE ~dummy
      BY <1>1, <2>2 DEF ContentsTyped, FilesInv
    <2> QED BY <2>1, <2>2
  <1> QED BY <1>1, <1>8, <1>9, PairsInv

LEMMA PairsClose ==
  ASSUME FilesInv, port = "KeyValue", NEW f \in Files, KeyValueClose(f)
  PROVE  FilesInv'
  <1>1. /\ ContentsTyped' /\ UNCHANGED <<port, streams, opened>> /\ (files' = files \/ files' = Closed(f))
    BY StoreNothingIs DEF KeyValueClose
  <1>2. files' \in [Files -> FileRecord]
    BY <1>1, ClosedTyped DEF FilesInv
  <1> QED BY <1>1, <1>2, PairsInv

LEMMA PairsRemove ==
  ASSUME FilesInv, port = "KeyValue", NEW f \in Files, KeyValueRemove(f)
  PROVE  FilesInv'
  <1> DEFINE p == files[f].path
  <1>0. UNCHANGED <<port, streams, opened, chunks>>
    BY DEF KeyValueRemove
  <1>1. PICK bad \in Fails("flush") :
          LET gone == ~(files[f].isOpen /\ bad) /\ Exists(p)
          IN  /\ files' = IF files[f].isOpen /\ ~bad THEN Closed(f) ELSE files
              /\ IF gone THEN media' = Drop(media, p) /\ Forget(p) ELSE UNCHANGED <<media, acked>>
    BY DEF KeyValueRemove
  <1>2. files' \in [Files -> FileRecord]
    BY <1>1, ClosedTyped DEF FilesInv
  <1>3. ContentsTyped'
    <2>1. CASE ~(files[f].isOpen /\ bad) /\ Exists(p)
      BY <1>0, <1>1, <2>1, RemovedIs
    <2>2. CASE ~(~(files[f].isOpen /\ bad) /\ Exists(p))
      BY <1>0, <1>1, <2>2 DEF ContentsTyped, FilesInv
    <2> QED BY <2>1, <2>2
  <1> QED BY <1>0, <1>2, <1>3, PairsInv

LEMMA PairsRead ==
  ASSUME FilesInv, port = "KeyValue", NEW f \in Files, NEW n \in Buffers, KeyValueRead(f, n)
  PROVE  FilesInv'
  <1>1. ContentsTyped' /\ UNCHANGED <<port, streams, files, opened>>
    BY StoreNothingIs DEF KeyValueRead
  <1>2. files' \in [Files -> FileRecord]
    BY <1>1 DEF FilesInv
  <1> QED BY <1>1, <1>2, PairsInv

LEMMA PairsWrite ==
  ASSUME FileSystemAssumption, FilesInv, port = "KeyValue", NEW f \in Files, KeyValueWrite(f)
  PROVE  FilesInv'
  <1> DEFINE p == files[f].path
  <1>1. /\ chunks < MaxChunks /\ p # NoPath /\ chunks' = chunks + 1 /\ media' = Put(media, p, <<chunks + 1>>)
        /\ acked' = [acked EXCEPT ![p] = <<chunks + 1>>] /\ UNCHANGED <<port, streams, files, opened>>
    BY DEF KeyValueWrite
  <1>2. p \in Paths /\ MediaTyped(media)
    BY <1>1 DEF FilesInv, FileRecord
  <1>3. chunks + 1 \in 1 .. MaxChunks
    BY <1>1 DEF FilesInv, FileSystemAssumption
  <1>4. <<chunks + 1>> \in Seq(1 .. MaxChunks)
    BY <1>3
  <1>5. MediaTyped(Put(media, p, <<chunks + 1>>))
    BY <1>2, <1>4, PutTyped
  <1>6. acked' \in [Paths -> Seq(1 .. MaxChunks)]
    BY <1>1, <1>4 DEF FilesInv
  <1>7. ContentsTyped'
    BY <1>1, <1>3, <1>5, <1>6 DEF ContentsTyped
  <1>8. files' \in [Files -> FileRecord]
    BY <1>1 DEF FilesInv
  <1> QED BY <1>1, <1>7, <1>8, PairsInv

LEMMA PairsSize ==
  ASSUME FilesInv, port = "KeyValue", NEW f \in Files, KeyValueSize(f)
  PROVE  FilesInv'
  <1> DEFINE n == IF Exists(files[f].path) THEN Len(media[files[f].path]) ELSE 0
             r == [files[f] EXCEPT !.size = n]
  <1>1. ContentsTyped' /\ UNCHANGED <<port, streams, opened>> /\ files' = [files EXCEPT ![f] = r]
    BY StoreNothingIs DEF KeyValueSize
  <1>2. n \in Nat /\ files[f] \in FileRecord
    <2>1. Exists(files[f].path) => Len(media[files[f].path]) \in Nat
      BY DEF Exists, FilesInv, MediaTyped
    <2> QED BY <2>1 DEF FilesInv
  <1> HIDE DEF n
  <1>3. r \in FileRecord
    BY <1>2, SizedRecord
  <1> HIDE DEF r
  <1>4. files' \in [Files -> FileRecord]
    BY <1>1, <1>3 DEF FilesInv
  <1> QED BY <1>1, <1>4, PairsInv

-----------------------------------------------------------------------------
LEMMA SlOpens ==
  ASSUME FilesInv, KeysDiffer, port = "Cc32xx",
         NEW f \in Files, NEW p \in Paths, NEW mode \in Modes, SlOpen(f, p, mode)
  PROVE  StepKeeps(f)
  <1> DEFINE trunc == fileShouldBeTruncated(mode)
             s == IF Exists(p) /\ ~trunc THEN media[p] ELSE <<>>
             size == IF trunc THEN 0 ELSE files[f].size
             r == [path |-> p, size |-> size, filePointer |-> 0, openMode |-> mode, isOpen |-> TRUE]
             h(g) == [path |-> p, append |-> FALSE, good |-> g]
  <1>0. port' = port /\ MayOpen(f, p) /\ StreamsTyped(streams) /\ files \in [Files -> FileRecord] /\ opened \in Nat
        /\ files[f] \in FileRecord /\ trunc \in BOOLEAN
    BY DEF SlOpen, FilesInv, fileShouldBeTruncated
  <1>1. r \in FileRecord /\ r.path = p /\ r.filePointer = 0
    <2>1. size \in Nat
      BY <1>0 DEF FileRecord
    <2> HIDE DEF size
    <2> QED BY <2>1 DEF FileRecord
  <1>2. CASE UNCHANGED <<streams, files, opened>> /\ \E e : StoreNothing("open", f, e)
    <2>1. ContentsTyped' /\ media' = media
      BY <1>2, StoreNothingIs
    <2>2. FilesInv'
      BY <1>0, <1>2, <2>1 DEF FilesInv, ContentsTyped, Backed
    <2>3. Careful => Touches(f, p) /\ Matches(f)'
      BY <1>0, <1>2, <2>1, SameButs DEF Touches, Matches, MayOpen
    <2> QED BY <2>2, <2>3 DEF StepKeeps
  <1>3. ASSUME NEW g \in BOOLEAN, streams' = Put(streams, PathKey[p], h(g)), files' = [files EXCEPT ![f] = r],
               opened' = Cardinality(DOMAIN streams'), ContentsTyped', SameBut(media, media', p),
               DOMAIN media \subseteq DOMAIN media',
               g => p \in DOMAIN media' /\ Len(media'[p]) \in Nat
        PROVE  StepKeeps(f)
    <2>1. StreamsTyped(streams')
      BY <1>0, <1>3, PutStream
    <2>2. SameBut(streams, streams', PathKey[p]) /\ PathKey[p] \in DOMAIN streams' /\ streams'[PathKey[p]] = h(g)
      BY <1>3 DEF SameBut, Put
    <2>3. streams'[PathKey[p]].good = g
      BY <2>2
    <2>4. opened' \in Nat
      BY <1>3, <2>1, FS_CardinalityType DEF StreamsTyped
    <2> HIDE DEF r, h
    <2>5. Backed(streams, media)'
      BY <1>0, <1>3, <2>1, <2>2, <2>3, BackedKeeps
    <2>6. files' \in [Files -> FileRecord] /\ files'[f] = r /\ \A x \in Files \ {f} : files'[x] = files[x]
      BY <1>0, <1>1, <1>3
    <2>7. FilesInv'
      BY <1>0, <1>3, <2>1, <2>4, <2>5, <2>6, InvOf
    <2>8. Careful => Touches(f, p)
      BY <1>0, <1>1, <1>3, <2>2, <2>6 DEF Touches, MayOpen
    <2>9. Matches(f)'
      BY <1>0, <1>1, <1>3, <2>2, <2>3, <2>6 DEF Matches, HasKey, KeyOf, StreamOf
    <2> QED BY <2>7, <2>8, <2>9 DEF StepKeeps
  <1>4. CASE PathKey[p] \in DOMAIN streams
    BY <1>2, <1>4 DEF SlOpen
  <1>5. CASE PathKey[p] \notin DOMAIN streams
    <2>1. \/ /\ streams' = Put(streams, PathKey[p], h(TRUE)) /\ files' = [files EXCEPT ![f] = r]
             /\ opened' = Cardinality(DOMAIN streams') /\ media' = Put(media, p, s)
             /\ Forget(p) \/ UNCHANGED acked
             /\ chunks' = chunks
          \/ UNCHANGED <<streams, files, opened>> /\ \E e : StoreNothing("open", f, e)
          \/ /\ streams' = Put(streams, PathKey[p], h(FALSE)) /\ files' = [files EXCEPT ![f] = r]
             /\ opened' = Cardinality(DOMAIN streams') /\ StoreNothing("open", f, "Success")
      BY <1>5 DEF SlOpen
    <2>2. ASSUME media' = Put(media, p, s), Forget(p) \/ UNCHANGED acked, chunks' = chunks
          PROVE  ContentsTyped' /\ SameBut(media, media', p) /\ DOMAIN media' = DOMAIN media \cup {p}
                 /\ Len(media'[p]) \in Nat
      BY <1>0, <2>2, OpenedIs
    <2>3. ASSUME StoreNothing("open", f, "Success")
          PROVE  ContentsTyped' /\ SameBut(media, media', p) /\ DOMAIN media' = DOMAIN media
      BY <2>3, StoreNothingIs, SameButs
    <2> HIDE DEF r, h, s, size
    <2> QED BY <1>2, <1>3, <2>1, <2>2, <2>3
  <1> QED BY <1>4, <1>5

LEMMA SlCloses ==
  ASSUME FilesInv, KeysDiffer, port = "Cc32xx", NEW f \in Files, SlClose(f)
  PROVE  StepKeeps(f)
  <1>1. /\ ContentsTyped' /\ media' = media /\ port' = port /\ MayUse(f)
        /\ \/ UNCHANGED <<streams, files, opened>>
           \/ streams' = Drop(streams, KeyOf(f)) /\ files' = Closed(f) /\ opened' = Cardinality(DOMAIN streams')
    BY StoreNothingIs DEF SlClose
  <1>2. CASE UNCHANGED <<streams, files, opened>>
    BY <1>1, <1>2, KeepsFile, QuietStep DEF Matches
  <1>3. CASE streams' = Drop(streams, KeyOf(f)) /\ files' = Closed(f) /\ opened' = Cardinality(DOMAIN streams')
    BY <1>1, <1>3, SameButs, CloseStep
  <1> QED BY <1>1, <1>2, <1>3

LEMMA SlRemoves ==
  ASSUME FilesInv, KeysDiffer, port = "Cc32xx", NEW f \in Files, SlRemove(f)
  PROVE  StepKeeps(f)
  <1> DEFINE p == files[f].path
  <1>0. port' = port /\ MayUse(f)
    BY DEF SlRemove
  <1>1. \/ UNCHANGED <<streams, files, opened>> /\ StoreNothing("remove", f, "Failure")
        \/ /\ \/ streams' = Drop(streams, KeyOf(f)) /\ files' = Closed(f) /\ opened' = Cardinality(DOMAIN streams')
              \/ UNCHANGED <<streams, files, opened>> /\ ~HasKey(f)
           /\ chunks' = chunks
           /\ \E gone \in BOOLEAN :
                /\ gone => Exists(p)
                /\ IF gone THEN media' = Drop(media, p) /\ Forget(p) ELSE UNCHANGED <<media, acked>>
    <2>1. PICK stuck \in Fails("close"), bad \in Fails("delete") :
       IF ~files[f].isOpen \/ (HasKey(f) /\ (stuck \/ ~StreamOf(f).good))
       THEN StoreNothing("remove", f, "Failure") /\ UNCHANGED <<streams, files, opened>>
       ELSE /\ IF HasKey(f)
               THEN /\ streams' = Drop(streams, KeyOf(f))
                    /\ files' = Closed(f)
                    /\ opened' = Cardinality(DOMAIN streams')
               ELSE UNCHANGED <<streams, files, opened>>
            /\ IF bad \/ ~Exists(p) THEN UNCHANGED <<media, acked>> ELSE media' = Drop(media, p) /\ Forget(p)
            /\ UNCHANGED chunks
      BY DEF SlRemove
    <2>2. CASE bad \/ ~Exists(p)
      <3>1. FALSE \in BOOLEAN
        OBVIOUS
      <3> QED BY <2>1, <2>2, <3>1
    <2>3. CASE ~(bad \/ ~Exists(p))
      <3>1. TRUE \in BOOLEAN /\ Exists(p)
        BY <2>3
      <3> QED BY <2>1, <2>3, <3>1
    <2> QED BY <2>2, <2>3
  <1>2. CASE UNCHANGED <<streams, files, opened>> /\ StoreNothing("remove", f, "Failure")
    <2>1. ContentsTyped' /\ media' = media
      BY <1>2, StoreNothingIs
    <2> QED BY <1>0, <1>2, <2>1, KeepsFile, QuietStep DEF Matches
  <1>3. ASSUME chunks' = chunks, NEW gone \in BOOLEAN, gone => Exists(p),
               IF gone THEN media' = Drop(media, p) /\ Forget(p) ELSE UNCHANGED <<media, acked>>,
               \/ streams' = Drop(streams, KeyOf(f)) /\ files' = Closed(f) /\ opened' = Cardinality(DOMAIN streams')
               \/ UNCHANGED <<streams, files, opened>> /\ ~HasKey(f)
        PROVE  StepKeeps(f)
    <2>1. ContentsTyped' /\ SameBut(media, media', p) /\ DOMAIN media \ {p} \subseteq DOMAIN media'
      BY <1>3, RemovedIs
    <2>2. CASE streams' = Drop(streams, KeyOf(f)) /\ files' = Closed(f) /\ opened' = Cardinality(DOMAIN streams')
      BY <1>0, <2>1, <2>2, CloseStep
    <2>3. CASE UNCHANGED <<streams, files, opened>> /\ ~HasKey(f)
      <3>1. KeyOf(f) \notin DOMAIN streams' /\ SameBut(streams, streams', KeyOf(f)) /\ StreamsTyped(streams')
            /\ opened' \in Nat
        BY <2>3, SameButs DEF HasKey, FilesInv
      <3>2. Matches(f) => Matches(f)'
        BY <1>0, <2>3 DEF Matches, HasKey
      <3> QED BY <1>0, <2>1, <2>3, <3>1, <3>2, KeepsFile, OwnStep
    <2> QED BY <1>3, <2>2, <2>3
  <1> QED BY <1>1, <1>2, <1>3

\* The map of handles after readBlocking() and writeBlocking().
LEMMA HandleIs ==
  ASSUME FilesInv, port = "Cc32xx", NEW f \in Files, streams' = SlHandle(f)
  PROVE  /\ StreamsTyped(streams') /\ SameBut(streams, streams', KeyOf(f)) /\ KeyOf(f) \in DOMAIN streams'
         /\ HasKey(f) => streams' = streams
         /\ ~HasKey(f) => ~streams'[KeyOf(f)].good
  <1>1. StreamsTyped(streams) /\ files[f].path \in Paths \cup {NoPath} /\ KeyOf(f) = PathKey[files[f].path]
    BY KeepsFile DEF FilesInv, KeyOf
  <1>2. CASE HasKey(f)
    BY <1>1, <1>2, SameButs DEF SlHandle, HasKey
  <1>3. CASE ~HasKey(f)
    <2> DEFINE h == [path |-> files[f].path, append |-> FALSE, good |-> FALSE]
    <2>1. streams' = Put(streams, KeyOf(f), h)
      BY <1>3 DEF SlHandle
    <2>2. StreamsTyped(streams')
      BY <1>1, <2>1, PutStream
    <2>3. SameBut(streams, streams', KeyOf(f)) /\ KeyOf(f) \in DOMAIN streams' /\ streams'[KeyOf(f)] = h
      BY <2>1 DEF SameBut, Put
    <2>4. ~streams'[KeyOf(f)].good
      BY <2>3
    <2> QED BY <1>3, <2>2, <2>3, <2>4
  <1> QED BY <1>2, <1>3

\* A read or a write without a handle, or with a handle that is an error, or not
\* allowed in the mode of the File.
LEMMA IdleHandle ==
  ASSUME FilesInv, KeysDiffer, port = "Cc32xx", NEW f \in Files, MayUse(f), port' = port, opened' = opened,
         streams' = SlHandle(f), files' = files, ContentsTyped', media' = media
  PROVE  StepKeeps(f)
  <1>1. /\ StreamsTyped(streams') /\ SameBut(streams, streams', KeyOf(f)) /\ KeyOf(f) \in DOMAIN streams'
        /\ HasKey(f) => streams' = streams
        /\ ~HasKey(f) => ~streams'[KeyOf(f)].good
    BY HandleIs
  <1>2. /\ SameBut(media, media', files[f].path) /\ DOMAIN media \ {files[f].path} \subseteq DOMAIN media'
        /\ opened' \in Nat
    BY SameButs DEF FilesInv
  <1>3. \/ KeyOf(f) \notin DOMAIN streams'
        \/ files[f].path \in DOMAIN media'
        \/ port = "Cc32xx" /\ ~streams'[KeyOf(f)].good
    BY <1>1, KeepsFile DEF StreamOf
  <1>4. Matches(f) => Matches(f)'
    BY <1>1 DEF Matches, HasKey, KeyOf, StreamOf
  <1> QED BY <1>1, <1>2, <1>3, <1>4, KeepsFile, OwnStep

LEMMA SlReads ==
  ASSUME FilesInv, KeysDiffer, port = "Cc32xx", NEW f \in Files, NEW n \in Buffers, SlRead(f, n)
  PROVE  StepKeeps(f)
  <1>0. port' = port /\ MayUse(f) /\ opened' = opened /\ opened \in Nat /\ streams' = SlHandle(f)
        /\ ContentsTyped' /\ media' = media
    BY StoreNothingIs DEF SlRead, FilesInv
  <1>1. CASE ~(HasKey(f) /\ StreamOf(f).good /\ canReadFromFile(files[f].openMode))
    <2>1. files' = files
      BY <1>1 DEF SlRead
    <2> QED BY <1>0, <2>1, IdleHandle
  <1>2. CASE HasKey(f) /\ StreamOf(f).good /\ canReadFromFile(files[f].openMode)
    <2> DEFINE s == media[files[f].path]
               at == files[f].filePointer
               to == at + Len(Found(f, s, n))
               r == [files[f] EXCEPT !.filePointer = to]
    <2>1. StreamOf(f).path = files[f].path /\ files[f].path \in DOMAIN media /\ files[f] \in FileRecord
      BY <1>2, KeepsFile
    <2>2. streams' = streams /\ files' = [files EXCEPT ![f] = r]
      BY <1>2, <2>1 DEF SlRead, SlHandle
    <2>3. s \in Seq(1 .. MaxChunks) /\ n \in Nat /\ at \in Nat /\ Len(s) \in Nat
      BY <2>1 DEF FilesInv, MediaTyped, FileRecord, Buffers
    <2>4. to \in Nat /\ (at <= Len(s) => to <= Len(s))
      BY <2>3, FoundIs
    <2> HIDE DEF to
    <2>5. r \in FileRecord /\ r.path = files[f].path /\ r.isOpen = files[f].isOpen /\ r.filePointer = to
      BY <2>1, <2>4, MovedRecord
    <2> HIDE DEF r
    <2>6. Matches(f) /\ files[f].isOpen => r.filePointer <= Len(s)
      BY <1>2, <2>1, <2>4, <2>5 DEF Matches
    <2> QED BY <1>0, <2>1, <2>2, <2>5, <2>6, QuietStep
  <1> QED BY <1>1, <1>2

LEMMA SlWrites ==
  ASSUME FileSystemAssumption, FilesInv, KeysDiffer, port = "Cc32xx", NEW f \in Files, SlWrite(f)
  PROVE  StepKeeps(f)
  <1> DEFINE p == files[f].path
             r == [files[f] EXCEPT !.size = files[f].size + 1]
  <1>0. port' = port /\ MayUse(f) /\ chunks < MaxChunks /\ opened' = opened /\ opened \in Nat
        /\ streams' = SlHandle(f)
    BY DEF SlWrite, FilesInv
  <1>1. CASE ~(HasKey(f) /\ StreamOf(f).good /\ canWriteToFile(files[f].openMode))
    <2>1. files' = files /\ ContentsTyped' /\ media' = media
      BY <1>1, StoreNothingIs DEF SlWrite
    <2> QED BY <1>0, <2>1, IdleHandle
  <1>2. CASE HasKey(f) /\ StreamOf(f).good /\ canWriteToFile(files[f].openMode)
    <2>1. StreamOf(f).path = p /\ p \in DOMAIN media /\ files[f] \in FileRecord /\ StreamsTyped(streams)
      BY <1>2, KeepsFile DEF FilesInv
    <2>2. files[f].filePointer \in Nat /\ files[f].size + 1 \in Nat
      BY <2>1 DEF FileRecord
    <2>3. /\ streams' = streams /\ files' = [files EXCEPT ![f] = r]
          /\ Store(f, p, files[f].filePointer, FALSE, "Success")
      BY <1>2, <2>1 DEF SlWrite, SlHandle
    <2>4. r \in FileRecord /\ r.path = p /\ r.isOpen = files[f].isOpen /\ r.filePointer = files[f].filePointer
      BY <2>1, <2>2, SizedRecord
    <2> HIDE DEF r
    <2>5. /\ ContentsTyped' /\ SameBut(media, media', p) /\ DOMAIN media' = DOMAIN media
          /\ Len(media[p]) \in Nat /\ Len(media'[p]) \in {Len(media[p]), Len(media[p]) + 1}
      BY <1>0, <2>1, <2>2, <2>3, StoreIs
    <2>6. SameBut(streams, streams', KeyOf(f))
      BY <2>3, SameButs
    <2>7. files[f].filePointer <= Len(media[p]) => files[f].filePointer <= Len(media'[p])
      BY <2>2, <2>5
    <2>8. files'[f] = r
      BY <2>3 DEF FilesInv
    <2>9. Matches(f) => Matches(f)'
      BY <1>0, <1>2, <2>1, <2>3, <2>4, <2>5, <2>7, <2>8 DEF Matches, HasKey, KeyOf, StreamOf
    <2> QED BY <1>0, <2>1, <2>3, <2>4, <2>5, <2>6, <2>9, OwnStep
  <1> QED BY <1>1, <1>2

-----------------------------------------------------------------------------
\* What one call of any port keeps.
LEMMA FilesKeep ==
  ASSUME FileSystemAssumption, KeysDiffer, FilesInv, [Next]_vars
  PROVE  FilesInv' /\ (MatchInv => MatchInv')
  <1>1. ASSUME NEW f \in Files, port # "KeyValue", port' = port, StepKeeps(f)
        PROVE  FilesInv' /\ (MatchInv => MatchInv')
    <2>1. FilesInv' /\ (Careful /\ MatchInv => \E p \in Paths \cup {NoPath} : Touches(f, p) /\ Matches(f)')
      BY <1>1 DEF StepKeeps
    <2>2. CASE Careful
      BY <1>1, <2>1, <2>2, TouchKeeps
    <2>3. CASE ~Careful
      BY <2>1, <2>3 DEF MatchInv
    <2> QED BY <2>2, <2>3
  <1>2. ASSUME FilesInv', port = "KeyValue", port' = port
        PROVE  FilesInv' /\ (MatchInv => MatchInv')
    BY <1>2 DEF MatchInv
  <1>3. CASE UNCHANGED vars
    BY <1>3 DEF vars, FilesInv, MatchInv, Matches, Backed, HasKey, KeyOf, StreamOf
  <1>4. CASE port \in {"Linux", "Darwin"} /\ PosixFiles
    <2>1. PICK f \in Files :
            \/ \E p \in Paths, mode \in Modes : PosixOpen(f, p, mode)
            \/ PosixClose(f) \/ PosixRemove(f) \/ PosixWrite(f) \/ PosixSynchronize(f) \/ PosixSize(f) \/ Seek(f)
            \/ \E n \in Buffers : PosixRead(f, n)
      BY <1>4 DEF PosixFiles
    <2>2. CASE \E p \in Paths, mode \in Modes : PosixOpen(f, p, mode)
      BY <1>1, <1>4, <2>2, PosixOpens DEF PosixOpen
    <2>3. CASE PosixClose(f)
      BY <1>1, <1>4, <2>3, PosixCloses DEF PosixClose
    <2>4. CASE PosixRemove(f)
      BY <1>1, <1>4, <2>4, PosixRemoves DEF PosixRemove
    <2>5. CASE PosixWrite(f)
      BY <1>1, <1>4, <2>5, PosixWrites DEF PosixWrite
    <2>6. CASE PosixSynchronize(f)
      BY <1>1, <1>4, <2>6, PosixSynchronizes DEF PosixSynchronize
    <2>7. CASE PosixSize(f)
      BY <1>1, <1>4, <2>7, PosixSizes DEF PosixSize
    <2>8. CASE Seek(f)
      BY <2>8, SeekKeeps
    <2>9. CASE \E n \in Buffers : PosixRead(f, n)
      BY <1>1, <1>4, <2>9, PosixReads DEF PosixRead
    <2> QED BY <2>1, <2>2, <2>3, <2>4, <2>5, <2>6, <2>7, <2>8, <2>9
  <1>5. CASE SpiffsFiles
    <2>1. PICK f \in Files :
            \/ \E p \in Paths, mode \in Modes : SpiffsOpen(f, p, mode, MaxOpenFiles)
            \/ SpiffsClose(f) \/ SpiffsRemove(f) \/ SpiffsWrite(f) \/ Seek(f)
            \/ \E n \in Buffers : SpiffsRead(f, n)
      BY <1>5 DEF SpiffsFiles
    <2>0. port = "Spiffs"
      BY <1>5 DEF SpiffsFiles
    <2>2. CASE \E p \in Paths, mode \in Modes : SpiffsOpen(f, p, mode, MaxOpenFiles)
      BY <1>1, <2>0, <2>2, SpiffsOpens DEF SpiffsOpen
    <2>3. CASE SpiffsClose(f)
      BY <1>1, <2>0, <2>3, SpiffsCloses DEF SpiffsClose
    <2>4. CASE SpiffsRemove(f)
      BY <1>1, <2>0, <2>4, SpiffsRemoves DEF SpiffsRemove
    <2>5. CASE SpiffsWrite(f)
      BY <1>1, <2>0, <2>5, SpiffsWrites DEF SpiffsWrite
    <2>6. CASE Seek(f)
      BY <2>6, SeekKeeps
    <2>7. CASE \E n \in Buffers : SpiffsRead(f, n)
      BY <1>1, <2>0, <2>7, SpiffsReads DEF SpiffsRead
    <2> QED BY <2>1, <2>2, <2>3, <2>4, <2>5, <2>6, <2>7
  <1>6. CASE KeyValueFiles
    <2>1. PICK f \in Files :
            \/ \E p \in Paths, mode \in Modes : KeyValueOpen(f, p, mode)
            \/ KeyValueClose(f) \/ KeyValueRemove(f) \/ KeyValueWrite(f) \/ KeyValueSize(f) \/ Seek(f)
            \/ \E n \in Buffers : KeyValueRead(f, n)
      BY <1>6 DEF KeyValueFiles
    <2>0. port = "KeyValue"
      BY <1>6 DEF KeyValueFiles
    <2>2. CASE \E p \in Paths, mode \in Modes : KeyValueOpen(f, p, mode)
      BY <1>2, <2>0, <2>2, PairsOpen DEF KeyValueOpen
    <2>3. CASE KeyValueClose(f)
      BY <1>2, <2>0, <2>3, PairsClose DEF KeyValueClose
    <2>4. CASE KeyValueRemove(f)
      BY <1>2, <2>0, <2>4, PairsRemove DEF KeyValueRemove
    <2>5. CASE KeyValueWrite(f)
      BY <1>2, <2>0, <2>5, PairsWrite DEF KeyValueWrite
    <2>6. CASE KeyValueSize(f)
      BY <1>2, <2>0, <2>6, PairsSize DEF KeyValueSize
    <2>7. CASE Seek(f)
      BY <2>7, SeekKeeps
    <2>8. CASE \E n \in Buffers : KeyValueRead(f, n)
      BY <1>2, <2>0, <2>8, PairsRead DEF KeyValueRead
    <2> QED BY <2>1, <2>2, <2>3, <2>4, <2>5, <2>6, <2>7, <2>8
  <1>7. CASE SlFiles
    <2>1. PICK f \in Files :
            \/ \E p \in Paths, mode \in Modes : SlOpen(f, p, mode)
            \/ SlClose(f) \/ SlRemove(f) \/ SlWrite(f) \/ Seek(f)
            \/ \E n \in Buffers : SlRead(f, n)
      BY <1>7 DEF SlFiles
    <2>0. port = "Cc32xx"
      BY <1>7 DEF SlFiles
    <2>2. CASE \E p \in Paths, mode \in Modes : SlOpen(f, p, mode)
      BY <1>1, <2>0, <2>2, SlOpens DEF SlOpen
    <2>3. CASE SlClose(f)
      BY <1>1, <2>0, <2>3, SlCloses DEF SlClose
    <2>4. CASE SlRemove(f)
      BY <1>1, <2>0, <2>4, SlRemoves DEF SlRemove
    <2>5. CASE SlWrite(f)
      BY <1>1, <2>0, <2>5, SlWrites DEF SlWrite
    <2>6. CASE Seek(f)
      BY <2>6, SeekKeeps
    <2>7. CASE \E n \in Buffers : SlRead(f, n)
      BY <1>1, <2>0, <2>7, SlReads DEF SlRead
    <2> QED BY <2>1, <2>2, <2>3, <2>4, <2>5, <2>6, <2>7
  <1> QED BY <1>3, <1>4, <1>5, <1>6, <1>7 DEF Next, LinuxFiles, DarwinFiles

LEMMA MatchStart ==
  ASSUME FilesInv, Init
  PROVE  MatchInv
  <1>1. \A f \in Files : files[f].isOpen = FALSE
    BY DEF Init, NewFile
  <1> QED BY <1>1 DEF MatchInv, Matches

LEMMA OpenFilesMatch ==
  ASSUME FilesInv, MatchInv, KeysDiffer, Careful
  PROVE  OpenFileHasStream /\ OpenFileMatchesMedia
  <1>1. OpenFileHasStream
    <2> SUFFICES ASSUME port \in {"Linux", "Darwin", "Cc32xx"}, NEW f \in Files, files[f].isOpen
                 PROVE  HasKey(f) /\ StreamOf(f).path = files[f].path
      BY DEF OpenFileHasStream
    <2>1. HasKey(f)
      BY DEF MatchInv, Matches
    <2> QED BY <2>1, KeepsFile
  <1>2. OpenFileMatchesMedia
    <2> SUFFICES ASSUME NEW f \in Files, files[f].isOpen, HasKey(f), StreamOf(f).good, Exists(files[f].path)
                 PROVE  /\ files[f].filePointer <= Len(media[files[f].path])
                        /\ port \in {"Linux", "Darwin"} => files[f].size >= Len(media[files[f].path])
      BY DEF OpenFileMatchesMedia
    <2>1. port # "KeyValue"
      BY DEF FilesInv, HasKey
    <2>2. Matches(f)
      BY <2>1 DEF MatchInv
    <2> QED BY <2>2 DEF Matches, Exists
  <1> QED BY <1>1, <1>2

-----------------------------------------------------------------------------
Ascends(s) == \A i, j \in DOMAIN s : i < j => s[i] < s[j]

\* What is acknowledged is stored, both in the order of the writes.
InOrder(a, s, n) ==
  Range(a) \subseteq Range(s) /\ Ascends(s) /\ Ascends(a) /\ \A i \in DOMAIN s : s[i] <= n

Stored(p) == IF Exists(p) THEN media[p] ELSE <<>>

StoredInv == \A p \in Paths : InOrder(acked[p], Stored(p), chunks)

AppendInv == \A k \in DOMAIN streams : streams[k].append

\* On Darwin, where no caller truncates a file by opening it.
AckedInv ==
  port = "Darwin" /\ Modes \cap {"ReadWriteTruncate", "WriteOnlyTruncate"} = {} => AppendInv /\ StoredInv

LEMMA NothingInOrder ==
  ASSUME NEW n \in Nat
  PROVE  InOrder(<<>>, <<>>, n)
  BY DEF InOrder, Range, Ascends

LEMMA AppendAscends ==
  ASSUME NEW s \in Seq(1 .. MaxChunks), MaxChunks \in Nat, NEW n \in Nat, Ascends(s), \A i \in DOMAIN s : s[i] <= n
  PROVE  /\ Ascends(Append(s, n + 1)) /\ \A i \in DOMAIN Append(s, n + 1) : Append(s, n + 1)[i] <= n + 1
         /\ Range(Append(s, n + 1)) = Range(s) \cup {n + 1}
  <1> DEFINE t == Append(s, n + 1)
  <1>1. /\ DOMAIN s = 1 .. Len(s) /\ Len(s) \in Nat /\ DOMAIN t = 1 .. Len(s) + 1
        /\ \A i \in 1 .. Len(s) : t[i] = s[i] /\ s[i] \in 1 .. MaxChunks
        /\ t[Len(s) + 1] = n + 1
    <2>1. s \in Seq(Int) /\ n + 1 \in Int
      <3>1. 1 .. MaxChunks \subseteq Int
        OBVIOUS
      <3> QED BY <3>1
    <2>2. /\ t \in Seq(Int) /\ Len(t) = Len(s) + 1 /\ \A i \in 1 .. Len(s) : t[i] = s[i]
          /\ t[Len(s) + 1] = n + 1
      BY <2>1, AppendProperties
    <2>3. \A i \in 1 .. Len(s) : s[i] \in 1 .. MaxChunks
      BY ElementOfSeq
    <2> QED BY <2>2, <2>3
  <1> HIDE DEF t
  <1>2. \A i \in DOMAIN t : t[i] <= n + 1
    <2> SUFFICES ASSUME NEW i \in DOMAIN t
                 PROVE  t[i] <= n + 1
      OBVIOUS
    <2>1. CASE i = Len(s) + 1
      BY <1>1, <2>1
    <2>2. CASE i \in 1 .. Len(s)
      <3>1. t[i] = s[i] /\ s[i] <= n /\ s[i] \in Int
        BY <1>1, <2>2
      <3> QED BY <3>1
    <2> QED BY <1>1, <2>1, <2>2
  <1>3. Ascends(t)
    BY <1>1 DEF Ascends
  <1>4. Range(t) = Range(s) \cup {n + 1}
    <2>1. \A i \in DOMAIN s : i \in DOMAIN t /\ t[i] = s[i]
      BY <1>1
    <2>2. \A i \in DOMAIN t : i \in DOMAIN s \/ i = Len(s) + 1
      BY <1>1
    <2>3. Len(s) + 1 \in DOMAIN t
      BY <1>1
    <2>4. ASSUME NEW x \in Range(t)
          PROVE  x \in Range(s) \cup {n + 1}
      <3>1. PICK i \in DOMAIN t : x = t[i]
        BY DEF Range
      <3> QED BY <1>1, <2>1, <2>2, <3>1 DEF Range
    <2>5. ASSUME NEW x \in Range(s) \cup {n + 1}
          PROVE  x \in Range(t)
      <3>1. CASE x = n + 1
        BY <1>1, <2>3, <3>1 DEF Range
      <3>2. CASE x \in Range(s)
        <4>1. PICK i \in DOMAIN s : x = s[i]
          BY <3>2 DEF Range
        <4> QED BY <2>1, <4>1 DEF Range
      <3> QED BY <3>1, <3>2
    <2> QED BY <2>4, <2>5
  <1> QED BY <1>2, <1>3, <1>4 DEF t

LEMMA AppendInOrder ==
  ASSUME MaxChunks \in Nat, NEW a \in Seq(1 .. MaxChunks), NEW s \in Seq(1 .. MaxChunks), NEW n \in Nat,
         InOrder(a, s, n)
  PROVE  /\ InOrder(a, Append(s, n + 1), n + 1)
         /\ InOrder(Append(a, n + 1), Append(s, n + 1), n + 1)
  <1>1. \A i \in DOMAIN a : a[i] <= n
    <2> SUFFICES ASSUME NEW i \in DOMAIN a
                 PROVE  a[i] <= n
      OBVIOUS
    <2>1. a[i] \in Range(s)
      BY DEF InOrder, Range
    <2> QED BY <2>1 DEF InOrder, Range
  <1>2. /\ Ascends(Append(s, n + 1)) /\ \A i \in DOMAIN Append(s, n + 1) : Append(s, n + 1)[i] <= n + 1
        /\ Range(Append(s, n + 1)) = Range(s) \cup {n + 1}
    BY AppendAscends DEF InOrder
  <1>3. Ascends(Append(a, n + 1)) /\ Range(Append(a, n + 1)) = Range(a) \cup {n + 1}
    BY <1>1, AppendAscends DEF InOrder
  <1> QED BY <1>2, <1>3 DEF InOrder

\* The contents stay as they are, a file is opened or removed, or a write appends.
LEMMA StoredKeeps ==
  ASSUME FileSystemAssumption, FilesInv, FilesInv', StoredInv, NEW p,
         \/ UNCHANGED <<media, acked>> /\ chunks' \in {chunks, chunks + 1}
         \/ /\ p \in Paths /\ media' = Put(media, p, Stored(p)) /\ chunks' = chunks
            /\ IF Stored(p) = <<>> THEN Forget(p) ELSE UNCHANGED acked
         \/ p \in Paths /\ media' = Drop(media, p) /\ Forget(p) /\ chunks' = chunks
         \/ /\ p \in DOMAIN media
            /\ \E f, at, e : Store(f, p, at, TRUE, e)
  PROVE  StoredInv'
  <1>0. MaxChunks \in Nat /\ chunks \in Nat /\ chunks' \in Nat /\ acked \in [Paths -> Seq(1 .. MaxChunks)]
        /\ \A q \in DOMAIN media : media[q] \in Seq(1 .. MaxChunks)
    BY DEF FileSystemAssumption, FilesInv, MediaTyped
  <1>1. ASSUME NEW q \in Paths, acked'[q] = acked[q], Stored(q)' = Stored(q), chunks' \in {chunks, chunks + 1}
        PROVE  InOrder(acked[q], Stored(q), chunks)'
    <2>1. InOrder(acked[q], Stored(q), chunks)
      BY DEF StoredInv
    <2>2. Stored(q) \in Seq(1 .. MaxChunks)
      <3>1. <<>> \in Seq(1 .. MaxChunks)
        OBVIOUS
      <3> QED BY <1>0, <3>1 DEF Stored, Exists
    <2>3. \A i \in DOMAIN Stored(q) : Stored(q)[i] \in Nat
      BY <1>0, <2>2
    <2>4. \A i \in DOMAIN Stored(q) : Stored(q)[i] <= chunks'
      BY <1>0, <1>1, <2>1, <2>3 DEF InOrder
    <2> QED BY <1>1, <2>1, <2>4 DEF InOrder
  <1>2. CASE UNCHANGED <<media, acked>> /\ chunks' \in {chunks, chunks + 1}
    BY <1>1, <1>2 DEF StoredInv, Stored, Exists
  <1>3. ASSUME NEW q \in Paths \ {p}, SameBut(media, media', p)
        PROVE  Stored(q)' = Stored(q)
    BY <1>3 DEF SameBut, Stored, Exists
  <1>4. CASE /\ p \in Paths /\ media' = Put(media, p, Stored(p)) /\ chunks' = chunks
             /\ IF Stored(p) = <<>> THEN Forget(p) ELSE UNCHANGED acked
    <2>1. Stored(p)' = Stored(p) /\ SameBut(media, media', p)
      BY <1>4 DEF Stored, Exists, Put, SameBut
    <2>2. ASSUME NEW q \in Paths
          PROVE  InOrder(acked[q], Stored(q), chunks)'
      <3>1. CASE Stored(p) = <<>> /\ q = p
        <4>1. acked'[q] = <<>> /\ Stored(q)' = <<>>
          BY <1>0, <1>4, <2>1, <3>1 DEF Forget
        <4> QED BY <1>0, <4>1, NothingInOrder
      <3>2. CASE ~(Stored(p) = <<>> /\ q = p)
        <4>1. acked'[q] = acked[q] /\ Stored(q)' = Stored(q)
          BY <1>0, <1>3, <1>4, <2>1, <3>2 DEF Forget
        <4> QED BY <1>1, <1>4, <4>1
      <3> QED BY <3>1, <3>2
    <2> QED BY <2>2 DEF StoredInv
  <1>5. CASE p \in Paths /\ media' = Drop(media, p) /\ Forget(p) /\ chunks' = chunks
    <2>1. Stored(p)' = <<>> /\ SameBut(media, media', p)
      BY <1>5 DEF Stored, Exists, Drop, SameBut
    <2>2. ASSUME NEW q \in Paths
          PROVE  InOrder(acked[q], Stored(q), chunks)'
      <3>1. CASE q = p
        <4>1. acked'[q] = <<>> /\ Stored(q)' = <<>>
          BY <1>0, <1>5, <2>1, <3>1 DEF Forget
        <4> QED BY <1>0, <4>1, NothingInOrder
      <3>2. CASE q # p
        <4>1. acked'[q] = acked[q] /\ Stored(q)' = Stored(q)
          BY <1>0, <1>3, <1>5, <2>1, <3>2 DEF Forget
        <4> QED BY <1>1, <1>5, <4>1
      <3> QED BY <3>1, <3>2
    <2> QED BY <2>2 DEF StoredInv
  <1>6. ASSUME p \in DOMAIN media, NEW f, NEW at, NEW e, Store(f, p, at, TRUE, e)
        PROVE  StoredInv'
    <2>1. /\ chunks' = chunks + 1 /\ media' = Put(media, p, Append(media[p], chunks + 1))
          /\ acked' = acked \/ acked' = [acked EXCEPT ![p] = Append(@, chunks + 1)]
      BY <1>6 DEF Store, Written, Exists
    <2>2. Stored(p)' = Append(media[p], chunks + 1) /\ Stored(p) = media[p] /\ SameBut(media, media', p)
      BY <1>6, <2>1 DEF Stored, Exists, Put, SameBut
    <2>3. ASSUME NEW q \in Paths
          PROVE  InOrder(acked[q], Stored(q), chunks)'
      <3>1. CASE q = p
        <4>0. p \in Paths
          BY <3>1
        <4>1. media[p] \in Seq(1 .. MaxChunks) /\ acked[p] \in Seq(1 .. MaxChunks)
          BY <1>0, <1>6, <4>0
        <4>2. InOrder(acked[p], media[p], chunks)
          BY <2>2, <4>0 DEF StoredInv
        <4>3. /\ InOrder(acked[p], Append(media[p], chunks + 1), chunks + 1)
              /\ InOrder(Append(acked[p], chunks + 1), Append(media[p], chunks + 1), chunks + 1)
          BY <1>0, <4>1, <4>2, AppendInOrder
        <4>4. acked'[p] = acked[p] \/ acked'[p] = Append(acked[p], chunks + 1)
          BY <1>0, <2>1, <4>0
        <4> QED BY <2>1, <2>2, <3>1, <4>3, <4>4
      <3>2. CASE q # p
        <4>1. acked'[q] = acked[q] /\ Stored(q)' = Stored(q)
          BY <1>0, <1>3, <2>1, <2>2, <3>2
        <4> QED BY <1>1, <2>1, <4>1
      <3> QED BY <3>1, <3>2
    <2> QED BY <2>3 DEF StoredInv
  <1> QED BY <1>2, <1>4, <1>5, <1>6

LEMMA AppendKeeps ==
  ASSUME FilesInv, AppendInv,
         \/ streams' = streams
         \/ \E k : streams' = Drop(streams, k)
         \/ \E k \in DOMAIN streams, g \in BOOLEAN : streams' = [streams EXCEPT ![k].good = g]
         \/ \E k, p, g : streams' = Put(streams, k, [path |-> p, append |-> TRUE, good |-> g])
  PROVE  AppendInv'
  <1>1. CASE streams' = streams
    BY <1>1 DEF AppendInv
  <1>2. CASE \E k : streams' = Drop(streams, k)
    BY <1>2 DEF AppendInv, Drop
  <1>3. CASE \E k \in DOMAIN streams, g \in BOOLEAN : streams' = [streams EXCEPT ![k].good = g]
    <2>1. PICK k \in DOMAIN streams, g \in BOOLEAN : streams' = [streams EXCEPT ![k].good = g]
      BY <1>3
    <2>2. StreamsTyped(streams)
      BY DEF FilesInv
    <2>3. DOMAIN streams' = DOMAIN streams /\ \A x \in DOMAIN streams : streams'[x].append = streams[x].append
      BY <2>1, <2>2, MarkIs
    <2> QED BY <2>3 DEF AppendInv
  <1>4. CASE \E k, p, g : streams' = Put(streams, k, [path |-> p, append |-> TRUE, good |-> g])
    <2>1. PICK k, p, g : streams' = Put(streams, k, [path |-> p, append |-> TRUE, good |-> g])
      BY <1>4
    <2> QED BY <2>1 DEF AppendInv, Put
  <1> QED BY <1>1, <1>2, <1>3, <1>4

\* What a call of Darwin does to what is stored, and to the streams.
StepStores(f) ==
  /\ \/ streams' = streams
     \/ \E k : streams' = Drop(streams, k)
     \/ \E k \in DOMAIN streams, g \in BOOLEAN : streams' = [streams EXCEPT ![k].good = g]
     \/ \E k, p, g : streams' = Put(streams, k, [path |-> p, append |-> TRUE, good |-> g])
  /\ \E p : \/ UNCHANGED <<media, acked>> /\ chunks' \in {chunks, chunks + 1}
            \/ /\ p \in Paths /\ media' = Put(media, p, Stored(p)) /\ chunks' = chunks
               /\ IF Stored(p) = <<>> THEN Forget(p) ELSE UNCHANGED acked
            \/ p \in Paths /\ media' = Drop(media, p) /\ Forget(p) /\ chunks' = chunks
            \/ /\ p \in DOMAIN media
               /\ \E g, at, e : Store(g, p, at, TRUE, e)

LEMMA OpenStores ==
  ASSUME Modes \cap {"ReadWriteTruncate", "WriteOnlyTruncate"} = {},
         NEW f \in Files, NEW p \in Paths, NEW mode \in Modes, PosixOpen(f, p, mode)
  PROVE  StepStores(f)
  <1> DEFINE m == toStdOpenMode(mode)
             s == IF Exists(p) /\ ~m.trunc THEN media[p] ELSE <<>>
  <1>1. m.append = TRUE /\ m.trunc = FALSE
    <2>1. mode \notin {"WriteOnlyTruncate", "ReadWriteTruncate"}
      OBVIOUS
    <2>2. m = [append |-> TRUE, trunc |-> FALSE]
      <3>1. /\ (mode \notin {"WriteOnlyTruncate", "ReadWriteTruncate"}) = TRUE
            /\ (mode \in {"WriteOnlyTruncate", "ReadWriteTruncate"}) = FALSE
        BY <2>1
      <3> QED BY <3>1, Zenon DEF toStdOpenMode
    <2> QED BY <2>2
  <1>2. s = Stored(p)
    BY <1>1 DEF Stored
  <1>3. \/ UNCHANGED <<media, acked, chunks>> /\ (streams' = streams \/ streams' = Drop(streams, PathKey[p]))
        \/ /\ streams' = Put(streams, PathKey[p], [path |-> p, append |-> m.append, good |-> TRUE])
           /\ media' = Put(media, p, s)
           /\ IF s = <<>> THEN Forget(p) ELSE UNCHANGED acked
           /\ UNCHANGED chunks
    BY DEF PosixOpen, StoreNothing
  <1> HIDE DEF s, m
  <1> QED BY <1>1, <1>2, <1>3 DEF StepStores

LEMMA QuietStores ==
  ASSUME NEW f \in Files, UNCHANGED <<media, acked>>, chunks' \in {chunks, chunks + 1},
         \/ streams' = streams
         \/ \E k : streams' = Drop(streams, k)
         \/ HasKey(f) /\ \E g \in BOOLEAN : streams' = [streams EXCEPT ![KeyOf(f)].good = g]
  PROVE  StepStores(f)
  BY DEF StepStores, HasKey

LEMMA CallStores ==
  ASSUME NEW f \in Files, PosixClose(f) \/ PosixSynchronize(f) \/ PosixSize(f) \/ Seek(f)
                            \/ \E n \in Buffers : PosixRead(f, n)
  PROVE  StepStores(f)
  <1>1. CASE PosixClose(f)
    <2>1. UNCHANGED <<media, acked, chunks>>
          /\ \/ streams' = streams
             \/ streams' = Drop(streams, KeyOf(f))
             \/ HasKey(f) /\ streams' = [streams EXCEPT ![KeyOf(f)].good = TRUE]
      BY <1>1 DEF PosixClose, StoreNothing, Clear, isOpen
    <2> QED BY <2>1, QuietStores
  <1>2. CASE PosixSynchronize(f)
    <2>1. UNCHANGED <<media, acked, chunks>> /\ HasKey(f) /\ streams' = [streams EXCEPT ![KeyOf(f)].good = TRUE]
      BY <1>2 DEF PosixSynchronize, StoreNothing, Clear, isOpen
    <2> QED BY <2>1, QuietStores
  <1>3. CASE PosixSize(f)
    <2>1. UNCHANGED <<media, acked, chunks>> /\ HasKey(f) /\ streams' = [streams EXCEPT ![KeyOf(f)].good = TRUE]
      BY <1>3 DEF PosixSize, StoreNothing, Clear, isOpen
    <2> QED BY <2>1, QuietStores
  <1>4. CASE Seek(f)
    BY <1>4, QuietStores DEF Seek
  <1>5. CASE \E n \in Buffers : PosixRead(f, n)
    <2>1. PICK n \in Buffers : PosixRead(f, n)
      BY <1>5
    <2>2. UNCHANGED <<media, acked, chunks>>
      BY <2>1 DEF PosixRead, StoreNothing
    <2>3. CASE canReadFromFile(files[f].openMode) /\ isOpen(f) /\ StreamOf(f).good
      <3>1. HasKey(f) /\ \E g \in BOOLEAN : streams' = [streams EXCEPT ![KeyOf(f)].good = g]
        <4>1. PICK b \in Nat : streams' = [streams EXCEPT ![KeyOf(f)].good = ~(b < n)]
          BY <2>1, <2>3 DEF PosixRead
        <4> QED BY <2>3, <4>1 DEF isOpen
      <3> QED BY <2>2, <3>1, QuietStores
    <2>4. CASE ~(canReadFromFile(files[f].openMode) /\ isOpen(f) /\ StreamOf(f).good)
      <3>1. streams' = streams \/ (HasKey(f) /\ streams' = [streams EXCEPT ![KeyOf(f)].good = TRUE])
        BY <2>1, <2>4 DEF PosixRead, Clear, isOpen
      <3> QED BY <2>2, <3>1, QuietStores
    <2> QED BY <2>3, <2>4
  <1> QED BY <1>1, <1>2, <1>3, <1>4, <1>5

LEMMA RemoveStores ==
  ASSUME FilesInv, NEW f \in Files, PosixRemove(f)
  PROVE  StepStores(f)
  <1> DEFINE p == files[f].path
  <1>1. PICK ok \in IF isOpen(f) THEN Flushes(f) ELSE {TRUE}, bad \in Fails("delete") :
       IF ok THEN
              /\ IF isOpen(f) THEN streams' = Drop(streams, KeyOf(f)) ELSE UNCHANGED streams
              /\ IF bad \/ ~Exists(p) THEN UNCHANGED <<media, acked>> ELSE media' = Drop(media, p) /\ Forget(p)
              /\ UNCHANGED chunks
       ELSE streams' = Clear(f) /\ StoreNothing("remove", f, "Failure")
    BY DEF PosixRemove
  <1>2. CASE ok
    <2>1. streams' = streams \/ \E k : streams' = Drop(streams, k)
      BY <1>1, <1>2
    <2>2. CASE bad \/ ~Exists(p)
      BY <1>1, <1>2, <2>1, <2>2 DEF StepStores
    <2>3. CASE ~(bad \/ ~Exists(p))
      <3>1. p \in Paths /\ media' = Drop(media, p) /\ Forget(p) /\ chunks' = chunks
        BY <1>1, <1>2, <2>3 DEF Exists, FilesInv, MediaTyped
      <3> QED BY <2>1, <3>1 DEF StepStores
    <2> QED BY <2>2, <2>3
  <1>3. CASE ~ok
    <2>1. UNCHANGED <<media, acked, chunks>> /\ HasKey(f) /\ streams' = [streams EXCEPT ![KeyOf(f)].good = TRUE]
      BY <1>1, <1>3 DEF StoreNothing, Clear, isOpen
    <2> QED BY <2>1, QuietStores
  <1> QED BY <1>2, <1>3

LEMMA WriteStores ==
  ASSUME FilesInv, KeysDiffer, port = "Darwin", AppendInv, NEW f \in Files, PosixWrite(f)
  PROVE  StepStores(f)
  <1>1. CASE isOpen(f) /\ canWriteToFile(files[f].openMode) /\ StreamOf(f).good
    <2>1. HasKey(f) /\ StreamOf(f).path \in DOMAIN media /\ KeyOf(f) \in DOMAIN streams
      BY <1>1, KeepsFile DEF isOpen, HasKey
    <2>2. StreamOf(f).append = TRUE
      BY <2>1, KeepsFile DEF AppendInv, StreamOf
    <2>3. /\ streams' = [streams EXCEPT ![KeyOf(f)].good = TRUE]
          /\ \/ \E e : Store(f, StreamOf(f).path, files[f].filePointer, StreamOf(f).append, e)
             \/ chunks' = chunks + 1 /\ UNCHANGED <<media, acked>>
      BY <1>1 DEF PosixWrite, Clear
    <2>4. CASE chunks' = chunks + 1 /\ UNCHANGED <<media, acked>>
      BY <2>1, <2>3, <2>4, QuietStores
    <2>5. CASE \E e : Store(f, StreamOf(f).path, files[f].filePointer, StreamOf(f).append, e)
      <3>1. \E g, at, e : Store(g, StreamOf(f).path, at, TRUE, e)
        BY <2>2, <2>5
      <3>2. \E k \in DOMAIN streams, g \in BOOLEAN : streams' = [streams EXCEPT ![k].good = g]
        BY <2>1, <2>3
      <3> QED BY <2>1, <3>1, <3>2 DEF StepStores
    <2> QED BY <2>3, <2>4, <2>5
  <1>2. CASE ~(isOpen(f) /\ canWriteToFile(files[f].openMode) /\ StreamOf(f).good)
    <2>1. /\ UNCHANGED <<media, acked, chunks>>
          /\ streams' = streams \/ (HasKey(f) /\ streams' = [streams EXCEPT ![KeyOf(f)].good = TRUE])
      BY <1>2 DEF PosixWrite, isOpen, Clear, StoreNothing
    <2> QED BY <2>1, QuietStores
  <1> QED BY <1>1, <1>2

LEMMA PortStays ==
  ASSUME [Next]_vars
  PROVE  port' = port
  <1>1. CASE UNCHANGED vars
    BY <1>1 DEF vars
  <1>2. CASE PosixFiles
    BY <1>2 DEF PosixFiles, PosixOpen, PosixClose, PosixRemove, PosixWrite, PosixSynchronize, PosixSize, PosixRead, Seek
  <1>3. CASE SpiffsFiles
    BY <1>3 DEF SpiffsFiles, SpiffsOpen, SpiffsClose, SpiffsRemove, SpiffsWrite, SpiffsRead, Seek
  <1>4. CASE KeyValueFiles
    <2>1. ASSUME NEW f \in Files, NEW p \in Paths, NEW mode \in Modes, KeyValueOpen(f, p, mode)
          PROVE  port' = port
      BY <2>1 DEF KeyValueOpen
    <2>2. ASSUME NEW f \in Files,
                 \/ KeyValueClose(f) \/ KeyValueRemove(f) \/ KeyValueWrite(f) \/ KeyValueSize(f) \/ Seek(f)
                 \/ \E n \in Buffers : KeyValueRead(f, n)
          PROVE  port' = port
      BY <2>2 DEF KeyValueClose, KeyValueRemove, KeyValueWrite, KeyValueSize, KeyValueRead, Seek
    <2> QED BY <1>4, <2>1, <2>2 DEF KeyValueFiles
  <1>5. CASE SlFiles
    BY <1>5 DEF SlFiles, SlOpen, SlClose, SlRemove, SlWrite, SlRead, Seek
  <1> QED BY <1>1, <1>2, <1>3, <1>4, <1>5 DEF Next, LinuxFiles, DarwinFiles

LEMMA AckedKeeps ==
  ASSUME FileSystemAssumption, KeysDiffer, FilesInv, FilesInv', AckedInv, [Next]_vars
  PROVE  AckedInv'
  <1> SUFFICES ASSUME port' = "Darwin", Modes \cap {"ReadWriteTruncate", "WriteOnlyTruncate"} = {}
               PROVE  (AppendInv /\ StoredInv)'
    BY DEF AckedInv
  <1>1. port = "Darwin"
    BY PortStays
  <1>2. AppendInv /\ StoredInv
    BY <1>1 DEF AckedInv
  <1>3. ASSUME NEW f \in Files, StepStores(f)
        PROVE  (AppendInv /\ StoredInv)'
    BY <1>2, <1>3, AppendKeeps, StoredKeeps DEF StepStores
  <1>4. CASE UNCHANGED vars
    BY <1>2, <1>4 DEF vars, AppendInv, StoredInv, Stored, Exists
  <1>5. CASE PosixFiles
    <2>1. PICK f \in Files :
            \/ \E p \in Paths, mode \in Modes : PosixOpen(f, p, mode)
            \/ PosixClose(f) \/ PosixRemove(f) \/ PosixWrite(f) \/ PosixSynchronize(f) \/ PosixSize(f) \/ Seek(f)
            \/ \E n \in Buffers : PosixRead(f, n)
      BY <1>5 DEF PosixFiles
    <2>2. StepStores(f)
      BY <1>1, <1>2, <2>1, OpenStores, CallStores, RemoveStores, WriteStores
    <2> QED BY <1>3, <2>2
  <1> QED BY <1>1, <1>4, <1>5 DEF Next, LinuxFiles, DarwinFiles, SpiffsFiles, KeyValueFiles, SlFiles

LEMMA AckedStart ==
  ASSUME Init
  PROVE  AckedInv
  <1>1. streams = <<>> /\ media = <<>> /\ chunks = 0 /\ \A p \in Paths : acked[p] = <<>>
    BY DEF Init
  <1>2. AppendInv
    BY <1>1 DEF AppendInv
  <1>3. \A p \in Paths : Stored(p) = <<>>
    BY <1>1 DEF Stored, Exists
  <1>4. StoredInv
    BY <1>1, <1>3, NothingInOrder DEF StoredInv
  <1> QED BY <1>2, <1>4 DEF AckedInv

LEMMA AckedStays ==
  ASSUME AckedInv
  PROVE  AckedIsKept
  <1> SUFFICES ASSUME port = "Darwin", Modes \cap {"ReadWriteTruncate", "WriteOnlyTruncate"} = {}, NEW p \in Paths
               PROVE  LET stored == IF Exists(p) THEN media[p] ELSE <<>> IN
                      /\ Range(acked[p]) \subseteq Range(stored)
                      /\ \A i, j \in DOMAIN stored : i < j => stored[i] < stored[j]
                      /\ \A i, j \in DOMAIN acked[p] : i < j => acked[p][i] < acked[p][j]
    BY DEF AckedIsKept
  <1>1. InOrder(acked[p], Stored(p), chunks)
    BY DEF AckedInv, StoredInv
  <1>2. Stored(p) = IF Exists(p) THEN media[p] ELSE <<>>
    BY DEF Stored
  <1> QED BY <1>1, <1>2 DEF InOrder, Ascends

-----------------------------------------------------------------------------
LEMMA FilesAlways ==
  ASSUME FileSystemAssumption, KeysDiffer
  PROVE  Spec => [](FilesInv /\ MatchInv /\ AckedInv)
  <1>1. Init => FilesInv /\ MatchInv /\ AckedInv
    BY FilesStart, MatchStart, AckedStart
  <1>2. FilesInv /\ MatchInv /\ AckedInv /\ [Next]_vars => (FilesInv /\ MatchInv /\ AckedInv)'
    BY FilesKeep, AckedKeeps
  <1> QED BY <1>1, <1>2, PTL DEF Spec

\* If a path is used by one File at a time and no two paths have the same hash, a File
\* that is open has its own stream, its offset is within the file and the size it knows
\* of a file it appends to is not less than what is stored, after any order of calls
\* and any of their failures (FileSystemModule.cpp of all ports but key/value pairs).
THEOREM FilesAgreeWithMedia ==
  ASSUME FileSystemAssumption, KeysDiffer, Careful
  PROVE  Spec => [](OpenFileHasStream /\ OpenFileMatchesMedia)
  <1>1. FilesInv /\ MatchInv => OpenFileHasStream /\ OpenFileMatchesMedia
    BY OpenFilesMatch
  <1> QED BY <1>1, FilesAlways, PTL

\* If no two paths have the same hash and no caller truncates a file, all that Darwin
\* acknowledged is stored in the order of the writes, even when Files share a path
\* (Darwin/FileSystemModule.cpp, writeBlocking and toStdOpenMode).
THEOREM AcknowledgedStays ==
  ASSUME FileSystemAssumption, KeysDiffer
  PROVE  Spec => []AckedIsKept
  <1>1. AckedInv => AckedIsKept
    BY AckedStays
  <1> QED BY <1>1, FilesAlways, PTL
=============================================================================
