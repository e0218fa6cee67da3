----------------------------- MODULE BufMgrProofs -----------------------------
(***************************************************************************)
(* Theorems about BufMgr, for any number of frames, clients and pages.     *)
(* The first hold for any File objects, several of them open on one file   *)
(* included.  The others are what a client may rely on when no file is     *)
(* open through two File objects: while it holds a page the frame it       *)
(* points to keeps it, the pin count is the number of holders, and an      *)
(* eviction cannot fail; and no update is lost, so that the manager is the *)
(* store of PageStore.                                                     *)
(***************************************************************************)
EXTENDS BufMgr, FiniteSetTheorems, TLAPS

-----------------------------------------------------------------------------
(***************************************************************************)
(* Types of the operators the actions are built from.                      *)
(***************************************************************************)
LEMMA ClearType == Clear \in BufDesc /\ ~Clear.valid /\ Clear.pinCnt = 0
BY DEF Clear, BufDesc, NoPage

LEMMA SetType ==
  ASSUME NEW f \in Files, NEW p \in Pages
  PROVE  /\ Set(f, p) \in BufDesc
         /\ Set(f, p).valid /\ Set(f, p).file = f /\ Set(f, p).page = p
BY BufMgrAssumption DEF Set, BufDesc

\* The clock looks at frames of the pool.
LEMMA AtType ==
  ASSUME TypeOK, NEW k \in Rounds
  PROVE  At(k) \in Frames
BY BufMgrAssumption DEF TypeOK, Rounds, At, Frames

\* The clock changes nothing but reference bits.
LEMMA SweptFields ==
  ASSUME TypeOK, NEW k
  PROVE  /\ Swept(k) \in [Frames -> BufDesc]
         /\ \A i \in Frames :
              /\ Swept(k)[i].valid = desc[i].valid
              /\ Swept(k)[i].file = desc[i].file
              /\ Swept(k)[i].page = desc[i].page
              /\ Swept(k)[i].pinCnt = desc[i].pinCnt
              /\ Swept(k)[i].dirty = desc[i].dirty
<1>1. \A i \in Frames : [desc[i] EXCEPT !.refbit = FALSE] \in BufDesc
  BY DEF TypeOK, BufDesc
<1>2. QED
  BY <1>1 DEF TypeOK, Swept, BufDesc

LEMMA PlaceType ==
  ASSUME NEW f \in Files, NEW p \in Pages
  PROVE  Place(f, p) \in DiskKeys /\ <<f, p>> \in Keys
BY BufMgrAssumption DEF Place, DiskKeys, Keys

LEMMA UnhashedType ==
  ASSUME TypeOK, NEW i \in Frames
  PROVE  Unhashed(i) \in [Keys -> Frames \cup {NoFrame}]
BY DEF TypeOK, Unhashed

LEMMA WrittenType ==
  ASSUME TypeOK, NEW i \in Frames
  PROVE  Written(i) \in [DiskKeys -> Data \cup {Free}]
BY DEF TypeOK, Written

LEMMA WrittenByType ==
  ASSUME TypeOK, NEW S \in SUBSET Frames
  PROVE  WrittenBy(S) \in [DiskKeys -> Data \cup {Free}]
<1>1. ASSUME NEW place \in DiskKeys, LastWritten(S, place) # {}
      PROVE  bufPool[CHOOSE i \in LastWritten(S, place) : TRUE] \in Data
  <2>1. (CHOOSE i \in LastWritten(S, place) : TRUE) \in LastWritten(S, place)
    BY <1>1
  <2>2. LastWritten(S, place) \subseteq Frames
    BY DEF LastWritten
  <2>3. QED
    BY <2>1, <2>2 DEF TypeOK
<1>2. QED
  BY <1>1 DEF TypeOK, WrittenBy

-----------------------------------------------------------------------------
(***************************************************************************)
(* Type correctness.                                                       *)
(***************************************************************************)
LEMMA InitType == Init => TypeOK
BY BufMgrAssumption, ClearType
   DEF Init, TypeOK, Frames, Keys, DiskKeys, Handle, Result

LEMMA AllocBufThrowsType ==
  ASSUME TypeOK, AllocBufThrows
  PROVE  TypeOK'
<1>1. CASE AllocBufExceeded
  BY <1>1, SweptFields DEF AllocBufThrows, AllocBufExceeded, TypeOK, Result
<1>2. ASSUME NEW k \in Rounds, AllocBufUnhashed(k)
      PROVE  TypeOK'
  BY <1>2, SweptFields, AtType
     DEF AllocBufThrows, AllocBufUnhashed, TypeOK, Result
<1>3. ASSUME NEW k \in Rounds, AllocBufUnwritable(k)
      PROVE  TypeOK'
  BY <1>3, SweptFields, AtType, UnhashedType
     DEF AllocBufThrows, AllocBufUnwritable, TypeOK, Result
<1>4. QED
  BY <1>1, <1>2, <1>3 DEF AllocBufThrows

LEMMA ReadPageType ==
  ASSUME TypeOK, NEW c \in Clients, NEW f \in Files, NEW p \in Pages,
         ReadPage(c, f, p)
  PROVE  TypeOK'
<1>1. CASE ReadHit(c, f, p)
  <2> DEFINE i == hash[<<f, p>>]
  <2>1. i \in Frames
    BY <1>1, PlaceType DEF ReadHit, TypeOK
  <2>2. desc' \in [Frames -> BufDesc]
    BY <1>1, <2>1 DEF ReadHit, TypeOK, BufDesc
  <2>3. held' \subseteq Handle
    BY <1>1, <2>1 DEF ReadHit, TypeOK, NewHandle, Handle
  <2>4. QED
    BY <1>1, <2>2, <2>3 DEF ReadHit, TypeOK, Result
<1>2. ASSUME NEW k \in Rounds, ReadInvalid(f, p, k)
      PROVE  TypeOK'
  <2>1. At(k) \in Frames
    BY AtType
  <2>2. desc' \in [Frames -> BufDesc]
    BY <1>2, SweptFields, ClearType DEF ReadInvalid
  <2>3. QED
    BY <1>2, <2>1, <2>2, UnhashedType, WrittenType
       DEF ReadInvalid, AllocBuf, TypeOK, Result
<1>3. ASSUME NEW k \in Rounds, ReadMiss(c, f, p, k)
      PROVE  TypeOK'
  <2>1. At(k) \in Frames
    BY AtType
  <2>2. desc' \in [Frames -> BufDesc]
    BY <1>3, SweptFields, SetType DEF ReadMiss
  <2>3. hash' \in [Keys -> Frames \cup {NoFrame}]
    BY <1>3, <2>1, UnhashedType DEF ReadMiss
  <2>4. bufPool' \in [Frames -> Data]
    BY <1>3, <2>1, WrittenType, PlaceType DEF ReadMiss, TypeOK
  <2>5. held' \subseteq Handle
    BY <1>3, <2>1 DEF ReadMiss, TypeOK, NewHandle, Handle
  <2>6. QED
    BY <1>3, <2>1, <2>2, <2>3, <2>4, <2>5, WrittenType
       DEF ReadMiss, AllocBuf, TypeOK, Result
<1>4. QED
  BY <1>1, <1>2, <1>3, AllocBufThrowsType DEF ReadPage

LEMMA AllocPageType ==
  ASSUME TypeOK, NEW c \in Clients, NEW f \in Files, AllocPage(c, f)
  PROVE  TypeOK'
<1>1. ASSUME NEW p \in Pages, NEW k \in Rounds, AllocInto(c, f, p, k)
      PROVE  TypeOK'
  <2>1. At(k) \in Frames
    BY AtType
  <2>2. desc' \in [Frames -> BufDesc]
    BY <1>1, SweptFields, SetType DEF AllocInto
  <2>3. hash' \in [Keys -> Frames \cup {NoFrame}]
    BY <1>1, <2>1, UnhashedType DEF AllocInto
  <2>4. disk' \in [DiskKeys -> Data \cup {Free}]
    BY <1>1, <2>1, WrittenType, BufMgrAssumption DEF AllocInto
  <2>5. bufPool' \in [Frames -> Data]
    BY <1>1, BufMgrAssumption DEF AllocInto, TypeOK
  <2>6. held' \subseteq Handle /\ unsaved' \subseteq held'
    BY <1>1, <2>1 DEF AllocInto, TypeOK, NewHandle, Handle
  <2>7. result' \in Result
    BY <1>1 DEF AllocInto, Result
  <2>8. QED
    BY <1>1, <2>1, <2>2, <2>3, <2>4, <2>5, <2>6, <2>7
       DEF AllocInto, AllocBuf, TypeOK
<1>2. QED
  BY <1>1, AllocBufThrowsType DEF AllocPage

LEMMA UnPinnedType ==
  ASSUME TypeOK, NEW f \in Files, NEW p \in Pages, NEW dirty \in BOOLEAN,
         UnPinned(f, p, dirty)
  PROVE  desc' \in [Frames -> BufDesc] /\ result' \in Result
<1> DEFINE i == hash[<<f, p>>]
<1>1. CASE i = NoFrame
  BY <1>1 DEF UnPinned, TypeOK, Result
<1>2. CASE i # NoFrame
  <2>1. i \in Frames /\ desc[i] \in BufDesc
    BY <1>2, PlaceType DEF TypeOK
  <2>2. (desc[i].dirty \/ dirty) \in BOOLEAN
    OBVIOUS
  <2>3. desc[i].pinCnt # 0 => desc[i].pinCnt - 1 \in Nat
    BY <2>1 DEF BufDesc
  <2>4. CASE desc[i].pinCnt = 0
    <3>1. desc' = [desc EXCEPT ![i].dirty = @ \/ dirty]
      BY <1>2, <2>4 DEF UnPinned
    <3>2. result' = "PageNotPinned"
      BY <1>2, <2>4 DEF UnPinned
    <3>3. QED
      BY <2>1, <2>2, <3>1, <3>2 DEF TypeOK, BufDesc, Result
  <2>5. CASE desc[i].pinCnt # 0
    <3>1. desc' = [desc EXCEPT ![i].dirty = @ \/ dirty, ![i].pinCnt = @ - 1]
      BY <1>2, <2>5 DEF UnPinned
    <3>2. result' = "ok"
      BY <1>2, <2>5 DEF UnPinned
    <3>3. QED
      BY <2>1, <2>2, <2>3, <2>5, <3>1, <3>2 DEF TypeOK, BufDesc, Result
  <2>6. QED
    BY <2>4, <2>5
<1>3. QED
  BY <1>1, <1>2

LEMMA FlushedType ==
  ASSUME TypeOK, NEW S \in SUBSET Frames, Flushed(S)
  PROVE  /\ desc' \in [Frames -> BufDesc]
         /\ hash' \in [Keys -> Frames \cup {NoFrame}]
         /\ disk' \in [DiskKeys -> Data \cup {Free}]
BY ClearType, WrittenByType DEF Flushed, TypeOK

LEMMA FlushFileType ==
  ASSUME TypeOK, NEW f \in Files, FlushFile(f)
  PROVE  TypeOK'
<1>1. CASE FlushAll(f)
  <2>1. Mine(f) \in SUBSET Frames
    BY DEF Mine
  <2>2. QED
    BY <1>1, <2>1, FlushedType DEF FlushFile, FlushAll, TypeOK, Result
<1>2. ASSUME NEW s \in Mine(f), FlushSome(f, s)
      PROVE  TypeOK'
  <2> DEFINE before == {i \in Mine(f) : i < s}
  <2>1. before \in SUBSET Frames /\ before \cup {s} \in SUBSET Frames
    BY DEF Mine
  <2>2. CASE Flushed(before)
    BY <1>2, <2>1, <2>2, FlushedType DEF FlushFile, FlushSome, TypeOK, Result
  <2>3. CASE ~Flushed(before)
    <3>1. desc' \in [Frames -> BufDesc]
      <4>1. \A i \in Frames : [desc[i] EXCEPT !.dirty = FALSE] \in BufDesc
        BY DEF TypeOK, BufDesc
      <4>2. QED
        BY <1>2, <2>3, <4>1, ClearType DEF FlushSome, TypeOK
    <3>2. hash' \in [Keys -> Frames \cup {NoFrame}]
      BY <1>2, <2>3 DEF FlushSome, TypeOK
    <3>3. disk' \in [DiskKeys -> Data \cup {Free}]
      BY <1>2, <2>1, <2>3, WrittenByType DEF FlushSome
    <3>4. QED
      BY <1>2, <3>1, <3>2, <3>3 DEF FlushFile, FlushSome, TypeOK, Result
  <2>4. QED
    BY <2>2, <2>3
<1>3. QED
  BY <1>1, <1>2 DEF FlushFile

LEMMA DisposePageType ==
  ASSUME TypeOK, NEW c \in Clients, NEW f \in Files, NEW p \in Pages,
         DisposePage(c, f, p)
  PROVE  TypeOK'
BY ClearType DEF DisposePage, TypeOK, Result

LEMMA RestartType ==
  ASSUME TypeOK, Restart
  PROVE  TypeOK'
<1>1. {i \in Frames : desc[i].valid} \in SUBSET Frames
  OBVIOUS
<1>2. NumBufs - 1 \in Frames
  BY BufMgrAssumption DEF Frames
<1>3. QED
  BY <1>1, <1>2, ClearType, WrittenByType, BufMgrAssumption
     DEF Restart, TypeOK, Result

LEMMA NextType == TypeOK /\ [Next]_vars => TypeOK'
<1> SUFFICES ASSUME TypeOK, [Next]_vars PROVE TypeOK'
  OBVIOUS
<1>1. ASSUME NEW c \in Clients, NEW f \in Files, NEW p \in Pages,
             ReadPage(c, f, p) \/ DisposePage(c, f, p)
      PROVE  TypeOK'
  BY <1>1, ReadPageType, DisposePageType
<1>2. ASSUME NEW c \in Clients, NEW f \in Files, AllocPage(c, f)
      PROVE  TypeOK'
  BY <1>2, AllocPageType
<1>3. ASSUME NEW h \in held, NEW d \in Data, WriteThrough(h, d)
      PROVE  TypeOK'
  BY <1>3 DEF WriteThrough, TypeOK, Result
<1>4. ASSUME NEW h \in held, NEW dirty \in BOOLEAN, UnPinPage(h, dirty)
      PROVE  TypeOK'
  <2>1. h.file \in Files /\ h.page \in Pages
    BY DEF TypeOK, Handle
  <2>2. QED
    BY <1>4, <2>1, UnPinnedType DEF UnPinPage, TypeOK
<1>5. ASSUME NEW f \in Files, NEW p \in Pages, NEW dirty \in BOOLEAN,
             UnPinUnpinned(f, p, dirty)
      PROVE  TypeOK'
  BY <1>5, UnPinnedType DEF UnPinUnpinned, TypeOK
<1>6. ASSUME NEW f \in Files, FlushFile(f)
      PROVE  TypeOK'
  BY <1>6, FlushFileType
<1>7. CASE Restart
  BY <1>7, RestartType
<1>8. CASE UNCHANGED vars
  BY <1>8 DEF vars, TypeOK
<1>9. QED
  BY <1>1, <1>2, <1>3, <1>4, <1>5, <1>6, <1>7, <1>8 DEF Next

\* Every variable of the buffer manager keeps its type; a pin count is never
\* negative, the clock hand and the hash table name frames of the pool.
THEOREM TypeCorrect == Spec => []TypeOK
<1>1. Init => TypeOK
  BY InitType
<1>2. TypeOK /\ [Next]_vars => TypeOK'
  BY NextType
<1>3. QED
  BY <1>1, <1>2, PTL DEF Spec

-----------------------------------------------------------------------------
(***************************************************************************)
(* The hash table never leads astray.  What every call does to the hash    *)
(* table and the descriptors falls under one of two lemmas: it keeps some  *)
(* entries and the frames they lead to, or it also adds one entry.         *)
(***************************************************************************)
SameOwner(d, e) == d.valid = e.valid /\ d.file = e.file /\ d.page = e.page

\* An entry that survives leads where it led, to a frame with the same owner.
KeepsEntries ==
  \A f \in Files, p \in Pages :
    hash'[<<f, p>>] # NoFrame =>
      /\ hash'[<<f, p>>] = hash[<<f, p>>]
      /\ SameOwner(desc'[hash[<<f, p>>]], desc[hash[<<f, p>>]])

LEMMA KeepsEntriesSound ==
  ASSUME HashSound, KeepsEntries
  PROVE  HashSound'
BY DEF HashSound, KeepsEntries, SameOwner

\* No entry leads to a victim once its own entry has been removed.
LEMMA UnhashedForgets ==
  ASSUME TypeOK, HashSound, NEW i \in Frames,
         NEW f \in Files, NEW p \in Pages
  PROVE  /\ Unhashed(i)[<<f, p>>] # i
         /\ Unhashed(i)[<<f, p>>] # NoFrame
              => Unhashed(i)[<<f, p>>] = hash[<<f, p>>]
<1>1. <<f, p>> \in Keys
  BY PlaceType
<1>2. i # NoFrame
  BY DEF Frames, NoFrame
<1>3. CASE hash[<<f, p>>] = i
  <2>1. desc[i].valid /\ KeyOf(i) = <<f, p>>
    BY <1>2, <1>3 DEF HashSound, KeyOf
  <2>2. Unhashed(i)[<<f, p>>] = NoFrame
    BY <1>1, <2>1 DEF Unhashed, TypeOK
  <2>3. QED
    BY <1>2, <2>2
<1>4. CASE hash[<<f, p>>] # i
  BY <1>1, <1>2, <1>4 DEF Unhashed, TypeOK
<1>5. QED
  BY <1>3, <1>4

\* A frame from allocBuf that is given a new owner, and an entry for it.
LEMMA FilledFrameSound ==
  ASSUME TypeOK, HashSound, NEW k \in Rounds,
         NEW f \in Files, NEW p \in Pages,
         desc' = [Swept(k) EXCEPT ![At(k)] = Set(f, p)],
         \/ hash' = [Unhashed(At(k)) EXCEPT ![<<f, p>>] = At(k)]
         \/ hash' = Unhashed(At(k))
  PROVE  HashSound'
<1> DEFINE v == At(k)
<1>1. v \in Frames
  BY AtType
<1> SUFFICES ASSUME NEW g \in Files, NEW q \in Pages,
                    hash'[<<g, q>>] # NoFrame
             PROVE  LET i == hash'[<<g, q>>]
                    IN  desc'[i].valid /\ desc'[i].file = g /\ desc'[i].page = q
  BY DEF HashSound
<1>2. <<g, q>> \in Keys /\ <<f, p>> \in Keys
  BY PlaceType
<1>3. Unhashed(v) \in [Keys -> Frames \cup {NoFrame}]
  BY <1>1, UnhashedType
<1>4. CASE <<g, q>> = <<f, p>> /\ hash'[<<g, q>>] = v
  BY <1>1, <1>4, SweptFields, SetType
<1>5. CASE hash'[<<g, q>>] = Unhashed(v)[<<g, q>>]
  <2>1. hash'[<<g, q>>] = hash[<<g, q>>] /\ hash[<<g, q>>] # v
    BY <1>1, <1>5, UnhashedForgets
  <2>2. hash[<<g, q>>] \in Frames
    BY <1>2, <2>1 DEF TypeOK
  <2>3. SameOwner(desc'[hash[<<g, q>>]], desc[hash[<<g, q>>]])
    BY <1>1, <2>1, <2>2, SweptFields DEF SameOwner
  <2>4. QED
    BY <2>1, <2>3 DEF HashSound, SameOwner
<1>6. QED
  BY <1>2, <1>3, <1>4, <1>5

LEMMA AllocBufThrowsSound ==
  ASSUME TypeOK, HashSound, AllocBufThrows
  PROVE  HashSound'
<1>1. \A f \in Files, p \in Pages :
        hash[<<f, p>>] # NoFrame => hash[<<f, p>>] \in Frames
  BY PlaceType DEF TypeOK
<1>2. CASE AllocBufExceeded
  BY <1>1, <1>2, SweptFields, KeepsEntriesSound
     DEF AllocBufExceeded, KeepsEntries, SameOwner
<1>3. ASSUME NEW k \in Rounds, AllocBufUnhashed(k)
      PROVE  HashSound'
  BY <1>1, <1>3, SweptFields, KeepsEntriesSound
     DEF AllocBufUnhashed, KeepsEntries, SameOwner
<1>4. ASSUME NEW k \in Rounds, AllocBufUnwritable(k)
      PROVE  HashSound'
  <2>1. At(k) \in Frames
    BY AtType
  <2>2. KeepsEntries
    BY <1>1, <1>4, <2>1, SweptFields, UnhashedForgets
       DEF AllocBufUnwritable, KeepsEntries, SameOwner
  <2>3. QED
    BY <2>2, KeepsEntriesSound
<1>5. QED
  BY <1>2, <1>3, <1>4 DEF AllocBufThrows

LEMMA ReadPageSound ==
  ASSUME TypeOK, HashSound,
         NEW c \in Clients, NEW f \in Files, NEW p \in Pages,
         ReadPage(c, f, p)
  PROVE  HashSound'
<1>1. \A g \in Files, q \in Pages :
        hash[<<g, q>>] # NoFrame => hash[<<g, q>>] \in Frames
  BY PlaceType DEF TypeOK
<1>2. CASE ReadHit(c, f, p)
  <2>1. \A i \in Frames : SameOwner(desc'[i], desc[i])
    <3>1. desc \in [Frames -> BufDesc]
      BY DEF TypeOK
    <3>2. QED
      BY <1>2, <3>1 DEF ReadHit, SameOwner, BufDesc
  <2>2. QED
    BY <1>1, <1>2, <2>1, KeepsEntriesSound DEF ReadHit, KeepsEntries
<1>3. ASSUME NEW k \in Rounds, ReadInvalid(f, p, k)
      PROVE  HashSound'
  <2>1. At(k) \in Frames
    BY AtType
  <2>2. KeepsEntries
    BY <1>1, <1>3, <2>1, SweptFields, UnhashedForgets
       DEF ReadInvalid, KeepsEntries, SameOwner
  <2>3. QED
    BY <2>2, KeepsEntriesSound
<1>4. ASSUME NEW k \in Rounds, ReadMiss(c, f, p, k)
      PROVE  HashSound'
  BY <1>4, FilledFrameSound DEF ReadMiss
<1>5. QED
  BY <1>2, <1>3, <1>4, AllocBufThrowsSound DEF ReadPage

LEMMA AllocPageSound ==
  ASSUME TypeOK, HashSound, NEW c \in Clients, NEW f \in Files,
         AllocPage(c, f)
  PROVE  HashSound'
<1>1. ASSUME NEW p \in Pages, NEW k \in Rounds, AllocInto(c, f, p, k)
      PROVE  HashSound'
  BY <1>1, FilledFrameSound DEF AllocInto
<1>2. QED
  BY <1>1, AllocBufThrowsSound DEF AllocPage

LEMMA UnPinnedSound ==
  ASSUME TypeOK, HashSound, UNCHANGED hash,
         NEW f \in Files, NEW p \in Pages, NEW dirty \in BOOLEAN,
         UnPinned(f, p, dirty)
  PROVE  HashSound'
<1> DEFINE u == hash[<<f, p>>]
<1>1. \A i \in Frames : SameOwner(desc'[i], desc[i])
  <2>1. CASE UNCHANGED desc
    BY <2>1 DEF SameOwner
  <2>2. CASE desc' = [desc EXCEPT ![u].dirty = @ \/ dirty]
    BY <2>2 DEF SameOwner, TypeOK, BufDesc
  <2>3. CASE desc' = [desc EXCEPT ![u].dirty = @ \/ dirty, ![u].pinCnt = @ - 1]
    BY <2>3 DEF SameOwner, TypeOK, BufDesc
  <2>4. QED
    BY <2>1, <2>2, <2>3 DEF UnPinned
<1>2. \A g \in Files, q \in Pages :
        hash[<<g, q>>] # NoFrame => hash[<<g, q>>] \in Frames
  BY PlaceType DEF TypeOK
<1>3. QED
  BY <1>1, <1>2, KeepsEntriesSound DEF KeepsEntries

\* flushFile removes the entry of every frame it clears.
LEMMA FlushFileSound ==
  ASSUME TypeOK, HashSound, NEW f \in Files, FlushFile(f)
  PROVE  HashSound'
<1>1. ASSUME NEW S \in SUBSET Frames,
             \A i \in Frames \ S : SameOwner(desc'[i], desc[i]),
             hash' = [key \in Keys |->
                        IF \E i \in S : KeyOf(i) = key THEN NoFrame
                                                       ELSE hash[key]]
      PROVE  HashSound'
  <2>1. ASSUME NEW g \in Files, NEW q \in Pages, hash'[<<g, q>>] # NoFrame
        PROVE  /\ hash'[<<g, q>>] = hash[<<g, q>>]
               /\ hash[<<g, q>>] \in Frames \ S
    <3>1. <<g, q>> \in Keys
      BY PlaceType
    <3>2. hash'[<<g, q>>] = hash[<<g, q>>] /\ ~\E i \in S : KeyOf(i) = <<g, q>>
      BY <1>1, <2>1, <3>1
    <3>3. hash[<<g, q>>] \in Frames
      BY <2>1, <3>1, <3>2 DEF TypeOK
    <3>4. KeyOf(hash[<<g, q>>]) = <<g, q>>
      BY <2>1, <3>2 DEF HashSound, KeyOf
    <3>5. QED
      BY <3>2, <3>3, <3>4
  <2>2. KeepsEntries
    BY <1>1, <2>1 DEF KeepsEntries
  <2>3. QED
    BY <2>2, KeepsEntriesSound
<1>2. ASSUME NEW S \in SUBSET Frames, Flushed(S)
      PROVE  HashSound'
  <2>1. \A i \in Frames \ S : SameOwner(desc'[i], desc[i])
    BY <1>2 DEF Flushed, SameOwner
  <2>2. QED
    BY <1>1, <1>2, <2>1 DEF Flushed
<1>3. CASE FlushAll(f)
  <2>1. Mine(f) \in SUBSET Frames
    BY DEF Mine
  <2>2. QED
    BY <1>2, <1>3, <2>1 DEF FlushAll
<1>4. ASSUME NEW s \in Mine(f), FlushSome(f, s)
      PROVE  HashSound'
  <2> DEFINE before == {i \in Mine(f) : i < s}
  <2>1. before \in SUBSET Frames
    BY DEF Mine
  <2>2. CASE Flushed(before)
    BY <1>2, <2>1, <2>2
  <2>3. CASE ~Flushed(before)
    <3>1. desc' = [i \in Frames |->
                     CASE i \in before -> Clear
                       [] i = s -> [desc[i] EXCEPT !.dirty = FALSE]
                       [] OTHER -> desc[i]]
      BY <1>4, <2>3 DEF FlushSome
    <3>2. \A i \in Frames \ before : SameOwner(desc'[i], desc[i])
      BY <3>1 DEF SameOwner, TypeOK, BufDesc
    <3>3. hash' = [key \in Keys |->
                     IF \E i \in before : KeyOf(i) = key THEN NoFrame
                                                         ELSE hash[key]]
      BY <1>4, <2>3 DEF FlushSome
    <3>4. QED
      BY <1>1, <2>1, <3>2, <3>3
  <2>4. QED
    BY <2>2, <2>3
<1>5. QED
  BY <1>3, <1>4 DEF FlushFile

LEMMA DisposePageSound ==
  ASSUME TypeOK, HashSound,
         NEW c \in Clients, NEW f \in Files, NEW p \in Pages,
         DisposePage(c, f, p)
  PROVE  HashSound'
<1> DEFINE i == hash[<<f, p>>]
<1>1. CASE i = NoFrame
  BY <1>1 DEF DisposePage, HashSound
<1>2. CASE i # NoFrame
  <2>1. <<f, p>> \in Keys /\ i \in Frames
    BY <1>2, PlaceType DEF TypeOK
  <2>2. desc[i].file = f /\ desc[i].page = p
    BY <1>2 DEF HashSound
  <2>3. desc' = [desc EXCEPT ![i] = Clear]
        /\ hash' = [hash EXCEPT ![<<f, p>>] = NoFrame]
    BY <1>2 DEF DisposePage
  <2>4. ASSUME NEW g \in Files, NEW q \in Pages, hash'[<<g, q>>] # NoFrame
        PROVE  /\ hash'[<<g, q>>] = hash[<<g, q>>]
               /\ SameOwner(desc'[hash[<<g, q>>]], desc[hash[<<g, q>>]])
    <3>1. <<g, q>> \in Keys
      BY PlaceType
    <3>2. <<g, q>> # <<f, p>> /\ hash'[<<g, q>>] = hash[<<g, q>>]
      BY <2>1, <2>3, <2>4, <3>1 DEF TypeOK
    <3>3. hash[<<g, q>>] \in Frames
      BY <2>4, <3>1, <3>2 DEF TypeOK
    <3>4. desc[hash[<<g, q>>]].file = g /\ desc[hash[<<g, q>>]].page = q
      BY <2>4, <3>2 DEF HashSound
    <3>5. hash[<<g, q>>] # i
      BY <2>2, <3>2, <3>4
    <3>6. QED
      BY <2>3, <3>2, <3>3, <3>5 DEF SameOwner, TypeOK
  <2>5. QED
    BY <2>4, KeepsEntriesSound DEF KeepsEntries
<1>3. QED
  BY <1>1, <1>2

LEMMA NextSound == TypeOK /\ HashSound /\ [Next]_vars => HashSound'
<1> SUFFICES ASSUME TypeOK, HashSound, [Next]_vars PROVE HashSound'
  OBVIOUS
<1>1. ASSUME NEW c \in Clients, NEW f \in Files, NEW p \in Pages,
             ReadPage(c, f, p) \/ DisposePage(c, f, p)
      PROVE  HashSound'
  BY <1>1, ReadPageSound, DisposePageSound
<1>2. ASSUME NEW c \in Clients, NEW f \in Files, AllocPage(c, f)
      PROVE  HashSound'
  BY <1>2, AllocPageSound
<1>3. ASSUME NEW h \in held, NEW d \in Data, WriteThrough(h, d)
      PROVE  HashSound'
  BY <1>3 DEF WriteThrough, HashSound
<1>4. ASSUME NEW h \in held, NEW dirty \in BOOLEAN, UnPinPage(h, dirty)
      PROVE  HashSound'
  <2>1. h.file \in Files /\ h.page \in Pages
    BY DEF TypeOK, Handle
  <2>2. QED
    BY <1>4, <2>1, UnPinnedSound DEF UnPinPage
<1>5. ASSUME NEW f \in Files, NEW p \in Pages, NEW dirty \in BOOLEAN,
             UnPinUnpinned(f, p, dirty)
      PROVE  HashSound'
  BY <1>5, UnPinnedSound DEF UnPinUnpinned
<1>6. ASSUME NEW f \in Files, FlushFile(f)
      PROVE  HashSound'
  BY <1>6, FlushFileSound
<1>7. CASE Restart
  BY <1>7, PlaceType DEF Restart, HashSound
<1>8. CASE UNCHANGED vars
  BY <1>8 DEF vars, HashSound
<1>9. QED
  BY <1>1, <1>2, <1>3, <1>4, <1>5, <1>6, <1>7, <1>8 DEF Next

\* An entry of the hash table leads to a valid frame that holds its page, also
\* when two File objects are open on one file and whichever way a call ends.
THEOREM HashSoundAlways == Spec => []HashSound
<1>1. Init => HashSound
  BY PlaceType DEF Init, HashSound
<1>2. TypeOK /\ HashSound /\ [Next]_vars => HashSound'
  BY NextSound
<1>3. QED
  BY <1>1, <1>2, TypeCorrect, PTL DEF Spec

-----------------------------------------------------------------------------
(***************************************************************************)
(* The clock misses no frame.                                              *)
(***************************************************************************)
LEMMA ModTurns ==
  ASSUME NEW n \in Nat \ {0}, NEW i \in 0 .. n - 1
  PROVE  (i + n) % n = i /\ (i + 2 * n) % n = i
OBVIOUS

\* The second turn looks at every frame.
LEMMA SecondTurnSeesAll ==
  ASSUME TypeOK, NEW i \in Frames
  PROVE  \E k \in Rounds : k > NumBufs /\ At(k) = i
<1> DEFINE k == IF i > clockHand THEN i - clockHand + NumBufs
                                 ELSE i - clockHand + 2 * NumBufs
<1>1. /\ NumBufs \in Nat \ {0}
      /\ i \in 0 .. NumBufs - 1 /\ clockHand \in 0 .. NumBufs - 1
  BY BufMgrAssumption DEF TypeOK, Frames
<1>2. k \in Rounds /\ k > NumBufs
  BY <1>1 DEF Rounds
<1>3. clockHand + k = i + NumBufs \/ clockHand + k = i + 2 * NumBufs
  BY <1>1
<1>4. At(k) = i
  BY <1>1, <1>3, ModTurns DEF At
<1>5. QED
  BY <1>2, <1>4

LEMMA NextExceeded ==
  ASSUME TypeOK, ExceededMeansAllPinned, [Next]_vars
  PROVE  ExceededMeansAllPinned'
<1>1. CASE AllocBufExceeded
  <2>1. ASSUME NEW i \in Frames
        PROVE  desc[i].valid /\ desc[i].pinCnt # 0
    <3>1. PICK k \in Rounds : k > NumBufs /\ At(k) = i
      BY SecondTurnSeesAll
    <3>2. ~Takes(k)
      BY <1>1 DEF AllocBufExceeded
    <3>3. QED
      BY <3>1, <3>2 DEF Takes
  <2>2. ASSUME NEW i \in Frames
        PROVE  desc'[i].valid /\ desc'[i].pinCnt > 0
    <3>1. desc'[i].valid = desc[i].valid /\ desc'[i].pinCnt = desc[i].pinCnt
      BY <1>1, SweptFields DEF AllocBufExceeded
    <3>2. desc[i].pinCnt \in Nat
      BY DEF TypeOK, BufDesc
    <3>3. QED
      BY <2>1, <3>1, <3>2
  <2>3. QED
    BY <2>2 DEF ExceededMeansAllPinned
<1>2. CASE result' # "BufferExceeded"
  BY <1>2 DEF ExceededMeansAllPinned
<1>3. CASE UNCHANGED vars
  BY <1>3 DEF vars, ExceededMeansAllPinned
<1>4. ASSUME AllocBufThrows
      PROVE  AllocBufExceeded \/ result' # "BufferExceeded"
  BY <1>4 DEF AllocBufThrows, AllocBufUnhashed, AllocBufUnwritable
<1>5. ASSUME NEW c \in Clients, NEW f \in Files, NEW p \in Pages,
             ReadPage(c, f, p) \/ DisposePage(c, f, p)
      PROVE  AllocBufExceeded \/ result' # "BufferExceeded"
  BY <1>4, <1>5 DEF ReadPage, ReadHit, ReadInvalid, ReadMiss, DisposePage
<1>6. ASSUME NEW c \in Clients, NEW f \in Files, AllocPage(c, f)
      PROVE  AllocBufExceeded \/ result' # "BufferExceeded"
  BY <1>4, <1>6 DEF AllocPage, AllocInto
<1>7. ASSUME NEW f, NEW p, NEW dirty, UnPinned(f, p, dirty)
      PROVE  result' # "BufferExceeded"
  BY <1>7 DEF UnPinned
<1>8. ASSUME NEW f \in Files, FlushFile(f)
      PROVE  result' # "BufferExceeded"
  BY <1>8 DEF FlushFile, FlushAll, FlushSome
<1>9. QED
  BY <1>1, <1>2, <1>3, <1>5, <1>6, <1>7, <1>8
     DEF Next, WriteThrough, UnPinPage, UnPinUnpinned, Restart

\* readPage and allocPage throw BufferExceededException only when every frame
\* of the pool is valid and pinned, wherever the clock hand starts.
THEOREM ExceededAlways == Spec => []ExceededMeansAllPinned
<1>1. Init => ExceededMeansAllPinned
  BY DEF Init, ExceededMeansAllPinned
<1>2. TypeOK /\ ExceededMeansAllPinned /\ [Next]_vars
        => ExceededMeansAllPinned'
  BY NextExceeded
<1>3. QED
  BY <1>1, <1>2, TypeCorrect, PTL DEF Spec

\* So does the first.
LEMMA FirstTurnSeesAll ==
  ASSUME TypeOK, NEW i \in Frames
  PROVE  \E k \in 1 .. NumBufs : At(k) = i
<1> DEFINE k == IF i > clockHand THEN i - clockHand ELSE i - clockHand + NumBufs
<1>1. /\ NumBufs \in Nat \ {0}
      /\ i \in 0 .. NumBufs - 1 /\ clockHand \in 0 .. NumBufs - 1
  BY BufMgrAssumption DEF TypeOK, Frames
<1>2. k \in 1 .. NumBufs
  BY <1>1
<1>3. clockHand + k = i \/ clockHand + k = i + NumBufs
  BY <1>1
<1>4. i % NumBufs = i
  BY <1>1
<1>5. At(k) = i
  BY <1>1, <1>3, <1>4, ModTurns DEF At
<1>6. QED
  BY <1>2, <1>5

\* A frame that still has its reference bit is taken only in the second turn,
\* after the first has found no frame to take.
LEMMA VictimHadItsChance ==
  ASSUME TypeOK, NEW k \in Rounds, StopsAt(k), desc[At(k)].valid
  PROVE  /\ desc[At(k)].pinCnt = 0
         /\ desc[At(k)].refbit => \A j \in Frames :
              desc[j].valid /\ (desc[j].pinCnt = 0 => desc[j].refbit)
<1>1. desc[At(k)].pinCnt = 0 /\ (~desc[At(k)].refbit \/ k > NumBufs)
  BY DEF StopsAt, Takes
<1>2. ASSUME desc[At(k)].refbit, NEW j \in Frames
      PROVE  desc[j].valid /\ (desc[j].pinCnt = 0 => desc[j].refbit)
  <2>1. PICK r \in 1 .. NumBufs : At(r) = j
    BY FirstTurnSeesAll
  <2>2. NumBufs \in Nat /\ k \in Nat /\ k > NumBufs
    BY <1>1, <1>2, BufMgrAssumption DEF Rounds
  <2>3. ~Takes(r)
    BY <2>2 DEF StopsAt
  <2>4. QED
    BY <2>1, <2>3 DEF Takes
<1>3. QED
  BY <1>1, <1>2

\* No call but readPage and allocPage gives a frame to another page, and those
\* give one only to the page they are asked for.
LEMMA OwnerChanges ==
  ASSUME TypeOK, HashSound, [Next]_vars, NEW i \in Frames,
         desc[i].valid, desc'[i].valid, KeyOf(i) # KeyOf(i)'
  PROVE  \E k \in Rounds : At(k) = i /\ StopsAt(k)
<1> SUFFICES ASSUME ~\E k \in Rounds : At(k) = i /\ StopsAt(k)
             PROVE  ~desc'[i].valid \/ SameOwner(desc'[i], desc[i])
  BY DEF SameOwner, KeyOf
<1>1. CASE UNCHANGED desc
  BY <1>1 DEF SameOwner
<1>2. CASE AllocBufThrows
  <2>1. \E k : desc' = Swept(k)
    BY <1>2 DEF AllocBufThrows, AllocBufExceeded, AllocBufUnhashed,
                AllocBufUnwritable
  <2>2. QED
    BY <2>1, SweptFields DEF SameOwner
<1>3. ASSUME NEW c \in Clients, NEW f \in Files, NEW p \in Pages,
             ReadHit(c, f, p)
      PROVE  SameOwner(desc'[i], desc[i])
  BY <1>3 DEF ReadHit, SameOwner, TypeOK, BufDesc
<1>4. ASSUME NEW c \in Clients, NEW f \in Files, NEW p \in Pages,
             NEW k \in Rounds,
             ReadInvalid(f, p, k) \/ ReadMiss(c, f, p, k) \/ AllocInto(c, f, p, k)
      PROVE  SameOwner(desc'[i], desc[i])
  <2>1. StopsAt(k)
    BY <1>4 DEF ReadInvalid, ReadMiss, AllocInto, AllocBuf
  <2>2. \E d : desc' = [Swept(k) EXCEPT ![At(k)] = d]
    BY <1>4 DEF ReadInvalid, ReadMiss, AllocInto
  <2>3. QED
    BY <2>1, <2>2, SweptFields DEF SameOwner
<1>5. ASSUME NEW f \in Files, NEW p \in Pages, NEW dirty \in BOOLEAN,
             UnPinned(f, p, dirty)
      PROVE  SameOwner(desc'[i], desc[i])
  <2> DEFINE u == hash[<<f, p>>]
  <2>1. \/ UNCHANGED desc
        \/ desc' = [desc EXCEPT ![u].dirty = @ \/ dirty]
        \/ desc' = [desc EXCEPT ![u].dirty = @ \/ dirty, ![u].pinCnt = @ - 1]
    BY <1>5 DEF UnPinned
  <2>2. CASE desc' = [desc EXCEPT ![u].dirty = @ \/ dirty]
    BY <2>2 DEF SameOwner, TypeOK, BufDesc
  <2>3. CASE desc' = [desc EXCEPT ![u].dirty = @ \/ dirty, ![u].pinCnt = @ - 1]
    BY <2>3 DEF SameOwner, TypeOK, BufDesc
  <2>4. QED
    BY <1>1, <2>1, <2>2, <2>3
<1>6. ASSUME NEW f \in Files, FlushFile(f)
      PROVE  ~desc'[i].valid \/ SameOwner(desc'[i], desc[i])
  <2>1. ASSUME NEW S, Flushed(S)
        PROVE  ~desc'[i].valid \/ SameOwner(desc'[i], desc[i])
    BY <2>1, ClearType DEF Flushed, SameOwner
  <2>2. ASSUME NEW s \in Mine(f), FlushSome(f, s)
        PROVE  ~desc'[i].valid \/ SameOwner(desc'[i], desc[i])
    <3>1. \/ desc'[i] = Clear \/ desc'[i] = desc[i]
          \/ desc'[i] = [desc[i] EXCEPT !.dirty = FALSE]
          \/ \E S : Flushed(S)
      BY <2>2 DEF FlushSome
    <3>2. SameOwner([desc[i] EXCEPT !.dirty = FALSE], desc[i])
      BY DEF SameOwner, TypeOK, BufDesc
    <3>3. QED
      BY <2>1, <3>1, <3>2, ClearType DEF SameOwner
  <2>3. QED
    BY <1>6, <2>1, <2>2 DEF FlushFile, FlushAll
<1>7. ASSUME NEW c \in Clients, NEW f \in Files, NEW p \in Pages,
             DisposePage(c, f, p)
      PROVE  ~desc'[i].valid \/ SameOwner(desc'[i], desc[i])
  BY <1>7, ClearType DEF DisposePage, SameOwner, TypeOK
<1>8. CASE Restart
  BY <1>8, ClearType DEF Restart
<1>9. ASSUME NEW h \in held, NEW dirty \in BOOLEAN, UnPinPage(h, dirty)
      PROVE  SameOwner(desc'[i], desc[i])
  <2>1. h.file \in Files /\ h.page \in Pages
    BY DEF TypeOK, Handle
  <2>2. QED
    BY <1>5, <1>9, <2>1 DEF UnPinPage
<1>10. QED
  BY <1>1, <1>2, <1>3, <1>4, <1>5, <1>6, <1>7, <1>8, <1>9
     DEF Next, vars, ReadPage, AllocPage, WriteThrough, UnPinUnpinned

\* The clock gives a second chance: a frame goes to another page only when
\* nobody pins it, and one referenced since the hand last passed only when no
\* frame was free or unreferenced, wherever the hand starts.
THEOREM SecondChanceAlways == Spec => SecondChance
<1>1. ASSUME TypeOK, HashSound, [Next]_vars, NEW i \in Frames,
             desc[i].valid, desc'[i].valid, KeyOf(i) # KeyOf(i)'
      PROVE  /\ desc[i].pinCnt = 0
             /\ desc[i].refbit => \A j \in Frames :
                  desc[j].valid /\ (desc[j].pinCnt = 0 => desc[j].refbit)
  BY <1>1, OwnerChanges, VictimHadItsChance
<1>2. TypeOK /\ HashSound /\ [Next]_vars =>
        [\A i \in Frames :
           desc[i].valid /\ desc'[i].valid /\ KeyOf(i) # KeyOf(i)' =>
             /\ desc[i].pinCnt = 0
             /\ desc[i].refbit => \A j \in Frames :
                  desc[j].valid /\ (desc[j].pinCnt = 0 => desc[j].refbit)]_vars
  BY <1>1
<1>3. QED
  BY <1>2, TypeCorrect, HashSoundAlways, PTL DEF Spec, SecondChance

-----------------------------------------------------------------------------
(***************************************************************************)
(* Frames that are not valid.                                              *)
(***************************************************************************)
LEMMA SweptCleared ==
  ASSUME TypeOK, ClearedWhenInvalid, NEW k, NEW i \in Frames, ~desc[i].valid
  PROVE  Swept(k)[i] = Clear
<1>1. [Clear EXCEPT !.refbit = FALSE] = Clear
  <2>1. [Clear EXCEPT !.refbit = FALSE]
          = [x \in DOMAIN Clear |-> IF x = "refbit" THEN FALSE ELSE Clear[x]]
    OBVIOUS
  <2>2. Clear.refbit = FALSE
    BY DEF Clear
  <2>3. Clear = [x \in DOMAIN Clear |-> Clear[x]]
    BY DEF Clear
  <2>4. QED
    BY <2>1, <2>2, <2>3
<1>2. QED
  BY <1>1 DEF Swept, ClearedWhenInvalid

LEMMA NextCleared ==
  ASSUME TypeOK, HashSound, ClearedWhenInvalid, [Next]_vars
  PROVE  ClearedWhenInvalid'
<1> USE DEF ClearedWhenInvalid
<1>1. ASSUME desc' \in [Frames -> BufDesc],
             \A i \in Frames :
               \/ desc'[i].valid
               \/ desc'[i] = Clear
               \/ desc'[i] = desc[i]
               \/ \E k : desc'[i] = Swept(k)[i]
      PROVE  ClearedWhenInvalid'
  <2> SUFFICES ASSUME NEW i \in Frames, ~desc'[i].valid
               PROVE  desc'[i] = Clear
    OBVIOUS
  <2>1. ASSUME NEW k, desc'[i] = Swept(k)[i]
        PROVE  desc'[i] = Clear
    BY <2>1, SweptFields, SweptCleared
  <2>2. QED
    BY <1>1, <2>1
<1>2. TypeOK'
  BY NextType
<1>3. desc' \in [Frames -> BufDesc]
  BY <1>2 DEF TypeOK
<1>4. CASE AllocBufThrows
  <2>1. \E k : desc' = Swept(k)
    BY <1>4 DEF AllocBufThrows, AllocBufExceeded, AllocBufUnhashed,
                AllocBufUnwritable
  <2>2. QED
    BY <1>1, <1>3, <2>1
<1>5. ASSUME NEW c \in Clients, NEW f \in Files, NEW p \in Pages,
             ReadHit(c, f, p)
      PROVE  ClearedWhenInvalid'
  <2>1. hash[<<f, p>>] \in Frames /\ desc[hash[<<f, p>>]].valid
    BY <1>5, PlaceType DEF ReadHit, HashSound, TypeOK
  <2>2. \A i \in Frames : desc'[i].valid \/ desc'[i] = desc[i]
    BY <1>5, <2>1 DEF ReadHit, TypeOK, BufDesc
  <2>3. QED
    BY <1>1, <1>3, <2>2
<1>6. ASSUME NEW c \in Clients, NEW f \in Files, NEW p \in Pages,
             NEW k \in Rounds,
             ReadInvalid(f, p, k) \/ ReadMiss(c, f, p, k) \/ AllocInto(c, f, p, k)
      PROVE  ClearedWhenInvalid'
  <2>1. At(k) \in Frames
    BY AtType
  <2>2. \/ desc' = [Swept(k) EXCEPT ![At(k)] = Clear]
        \/ desc' = [Swept(k) EXCEPT ![At(k)] = Set(f, p)]
    BY <1>6 DEF ReadInvalid, ReadMiss, AllocInto
  <2>3. \A i \in Frames : \/ desc'[i].valid \/ desc'[i] = Clear
                          \/ desc'[i] = Swept(k)[i]
    BY <2>1, <2>2, SetType, SweptFields
  <2>4. QED
    BY <1>1, <1>3, <2>3
<1>7. ASSUME NEW f \in Files, NEW p \in Pages, NEW dirty \in BOOLEAN,
             UnPinned(f, p, dirty)
      PROVE  ClearedWhenInvalid'
  <2> DEFINE u == hash[<<f, p>>]
  <2>1. u # NoFrame => u \in Frames /\ desc[u].valid
    BY PlaceType DEF HashSound, TypeOK
  <2>2. CASE UNCHANGED desc
    BY <1>1, <1>3, <2>2
  <2>3. CASE desc' = [desc EXCEPT ![u].dirty = @ \/ dirty] /\ u # NoFrame
    <3>1. \A i \in Frames : desc'[i].valid \/ desc'[i] = desc[i]
      BY <2>1, <2>3 DEF TypeOK, BufDesc
    <3>2. QED
      BY <1>1, <1>3, <3>1
  <2>4. CASE desc' = [desc EXCEPT ![u].dirty = @ \/ dirty, ![u].pinCnt = @ - 1]
             /\ u # NoFrame
    <3>1. \A i \in Frames : desc'[i].valid \/ desc'[i] = desc[i]
      <4>1. desc \in [Frames -> BufDesc] /\ u \in Frames
        BY <2>1, <2>4 DEF TypeOK
      <4>2. QED
        BY <2>1, <2>4, <4>1 DEF BufDesc
    <3>2. QED
      BY <1>1, <1>3, <3>1
  <2>5. QED
    BY <1>7, <2>2, <2>3, <2>4 DEF UnPinned
<1>8. ASSUME NEW f \in Files, FlushFile(f)
      PROVE  ClearedWhenInvalid'
  <2>1. ASSUME NEW i \in Frames
        PROVE  \/ desc'[i] = Clear
               \/ SameOwner(desc'[i], desc[i]) /\ desc[i].valid
               \/ desc'[i] = desc[i]
    <3>1. ASSUME NEW S, Flushed(S)
          PROVE  desc'[i] = Clear \/ desc'[i] = desc[i]
      BY <3>1 DEF Flushed
    <3>2. CASE FlushAll(f)
      BY <3>1, <3>2 DEF FlushAll
    <3>3. ASSUME NEW s \in Mine(f), FlushSome(f, s)
          PROVE  \/ desc'[i] = Clear \/ desc'[i] = desc[i]
                 \/ i = s /\ desc'[i] = [desc[i] EXCEPT !.dirty = FALSE]
      BY <3>1, <3>3 DEF FlushSome
    <3>4. ASSUME NEW s \in Mine(f), i = s,
                 desc'[i] = [desc[i] EXCEPT !.dirty = FALSE]
          PROVE  SameOwner(desc'[i], desc[i]) /\ desc[i].valid
      BY <3>4 DEF SameOwner, Mine, TypeOK, BufDesc
    <3>5. QED
      BY <1>8, <3>2, <3>3, <3>4 DEF FlushFile
  <2>2. QED
    BY <1>1, <1>3, <2>1 DEF SameOwner
<1>9. ASSUME NEW c \in Clients, NEW f \in Files, NEW p \in Pages,
             DisposePage(c, f, p)
      PROVE  ClearedWhenInvalid'
  BY <1>9 DEF DisposePage, TypeOK
<1>10. CASE Restart
  BY <1>10 DEF Restart
<1>11. ASSUME NEW h \in held, NEW dirty \in BOOLEAN, UnPinPage(h, dirty)
       PROVE  ClearedWhenInvalid'
  <2>1. h.file \in Files /\ h.page \in Pages
    BY DEF TypeOK, Handle
  <2>2. QED
    BY <1>7, <1>11, <2>1 DEF UnPinPage
<1>12. CASE UNCHANGED desc
  BY <1>12
<1>13. QED
  BY <1>4, <1>5, <1>6, <1>7, <1>8, <1>9, <1>10, <1>11, <1>12
     DEF Next, vars, ReadPage, AllocPage, WriteThrough, UnPinUnpinned

\* A frame that is not valid is as Clear leaves it, so flushFile cannot throw
\* BadBufferException and allocBuf never writes back an invalid frame.
THEOREM ClearedAlways == Spec => []ClearedWhenInvalid
<1>1. Init => ClearedWhenInvalid
  BY DEF Init, ClearedWhenInvalid
<1>2. TypeOK /\ HashSound /\ ClearedWhenInvalid /\ [Next]_vars
        => ClearedWhenInvalid'
  BY NextCleared
<1>3. QED
  BY <1>1, <1>2, TypeCorrect, HashSoundAlways, PTL DEF Spec

-----------------------------------------------------------------------------
(***************************************************************************)
(* The inductive invariant.  HandleValid alone is not inductive: that a    *)
(* pinned frame is not evicted needs the count to be that of the holders,  *)
(* that an unpin finds the frame of its handle needs the hash table to     *)
(* know every frame, and that needs write-backs never to fail.             *)
(***************************************************************************)
OnFrame(H, i) == {h \in H : h.frame = i}

HandlesHashed == \A h \in held : hash[<<h.file, h.page>>] = h.frame

Owned ==
  \A i \in Frames :
    desc[i].valid => desc[i].file \in Files /\ desc[i].page \in Pages

PinRest ==
  /\ Owned
  /\ FrameHashed
  /\ CachedIsOnDisk
  /\ HandlesHashed
  /\ IsFiniteSet(held)
  /\ PinsMatch

PinInv == TypeOK /\ HashSound /\ ClearedWhenInvalid /\ PinRest

LEMMA HandleOwner ==
  ASSUME PinInv, NEW h \in held
  PROVE  /\ h.frame \in Frames /\ h.file \in Files /\ h.page \in Pages
         /\ desc[h.frame].valid
         /\ desc[h.frame].file = h.file /\ desc[h.frame].page = h.page
<1>1. h \in Handle
  BY DEF PinInv, TypeOK
<1>2. h.frame # NoFrame
  BY <1>1 DEF Handle, Frames, NoFrame
<1>3. hash[<<h.file, h.page>>] = h.frame
  BY DEF PinInv, PinRest, HandlesHashed
<1>4. h.frame \in Frames /\ h.file \in Files /\ h.page \in Pages
  BY <1>1 DEF Handle
<1>5. QED
  BY <1>2, <1>3, <1>4 DEF PinInv, HashSound

\* A held frame is pinned, and a frame with no pin is held by nobody.
LEMMA PinnedIffHeld ==
  ASSUME PinInv, NEW i \in Frames
  PROVE  desc[i].pinCnt = 0 <=> \A h \in held : h.frame # i
<1>1. IsFiniteSet(OnFrame(held, i))
  BY FS_Subset DEF PinInv, PinRest, OnFrame
<1>2. desc[i].pinCnt = Cardinality(OnFrame(held, i))
  BY DEF PinInv, PinRest, PinsMatch, OnFrame
<1>3. Cardinality(OnFrame(held, i)) = 0 <=> OnFrame(held, i) = {}
  BY <1>1, FS_EmptySet
<1>4. QED
  BY <1>2, <1>3 DEF OnFrame

\* The invariant implies what the clients see.
LEMMA PinInvImplies == PinInv => HandleValid
<1> SUFFICES ASSUME PinInv, NEW h \in held
             PROVE  /\ desc[h.frame].valid
                    /\ KeyOf(h.frame) = <<h.file, h.page>>
                    /\ desc[h.frame].pinCnt > 0
  BY DEF HandleValid
<1>1. desc[h.frame].pinCnt # 0
  BY HandleOwner, PinnedIffHeld
<1>2. desc[h.frame].pinCnt \in Nat
  BY HandleOwner DEF PinInv, TypeOK, BufDesc
<1>3. QED
  BY <1>1, <1>2, HandleOwner DEF KeyOf

\* Counting the handles of one frame after one is added or taken away.
LEMMA CountAdded ==
  ASSUME NEW H, IsFiniteSet(H), NEW h, h \notin H, NEW i
  PROVE  /\ IsFiniteSet(H \cup {h})
         /\ Cardinality(OnFrame(H, i)) \in Nat
         /\ Cardinality(OnFrame(H \cup {h}, i))
              = Cardinality(OnFrame(H, i)) + (IF h.frame = i THEN 1 ELSE 0)
<1>1. IsFiniteSet(OnFrame(H, i))
  BY FS_Subset DEF OnFrame
<1>2. CASE h.frame = i
  <2>1. OnFrame(H \cup {h}, i) = OnFrame(H, i) \cup {h}
    BY <1>2 DEF OnFrame
  <2>2. h \notin OnFrame(H, i)
    BY DEF OnFrame
  <2>3. QED
    BY <1>1, <1>2, <2>1, <2>2, FS_AddElement, FS_CardinalityType
<1>3. CASE h.frame # i
  <2>1. OnFrame(H \cup {h}, i) = OnFrame(H, i)
    BY <1>3 DEF OnFrame
  <2>2. QED
    BY <1>1, <1>3, <2>1, FS_AddElement, FS_CardinalityType
<1>4. QED
  BY <1>2, <1>3

LEMMA CountRemoved ==
  ASSUME NEW H, IsFiniteSet(H), NEW h \in H, NEW i
  PROVE  /\ IsFiniteSet(H \ {h})
         /\ Cardinality(OnFrame(H, i)) \in Nat
         /\ Cardinality(OnFrame(H \ {h}, i))
              = Cardinality(OnFrame(H, i)) - (IF h.frame = i THEN 1 ELSE 0)
<1>1. IsFiniteSet(OnFrame(H, i)) /\ IsFiniteSet(H \ {h})
  BY FS_Subset DEF OnFrame
<1>2. CASE h.frame = i
  <2>1. OnFrame(H \ {h}, i) = OnFrame(H, i) \ {h}
    BY <1>2 DEF OnFrame
  <2>2. h \in OnFrame(H, i)
    BY <1>2 DEF OnFrame
  <2>3. QED
    BY <1>1, <1>2, <2>1, <2>2, FS_RemoveElement, FS_CardinalityType
<1>3. CASE h.frame # i
  <2>1. OnFrame(H \ {h}, i) = OnFrame(H, i)
    BY <1>3 DEF OnFrame
  <2>2. QED
    BY <1>1, <1>3, <2>1, FS_CardinalityType
<1>4. QED
  BY <1>2, <1>3

-----------------------------------------------------------------------------
(***************************************************************************)
(* What a call does to the frames is one of three things: nothing that     *)
(* matters here, clearing some, or giving one to a page.                   *)
(***************************************************************************)
SameHolders(d, e) == SameOwner(d, e) /\ d.pinCnt = e.pinCnt

LEMMA KeyOfValid ==
  ASSUME PinInv, NEW i \in Frames, desc[i].valid
  PROVE  /\ KeyOf(i) \in Keys /\ hash[KeyOf(i)] = i
         /\ PlaceOf(i) \in DiskKeys /\ disk[PlaceOf(i)] # Free
BY PlaceType
   DEF PinInv, PinRest, Owned, FrameHashed, CachedIsOnDisk, KeyOf, PlaceOf

LEMMA QuietStep ==
  ASSUME PinInv, UNCHANGED <<hash, held, disk>>,
         \A i \in Frames : SameHolders(desc'[i], desc[i])
  PROVE  PinRest'
<1>1. Owned'
  BY DEF PinInv, PinRest, Owned, SameHolders, SameOwner
<1>2. FrameHashed' /\ CachedIsOnDisk'
  BY DEF PinInv, PinRest, FrameHashed, CachedIsOnDisk, KeyOf, PlaceOf,
         SameHolders, SameOwner
<1>3. HandlesHashed' /\ IsFiniteSet(held)' /\ PinsMatch'
  BY DEF PinInv, PinRest, HandlesHashed, PinsMatch, SameHolders
<1>4. QED
  BY <1>1, <1>2, <1>3 DEF PinRest

LEMMA FramesDropped ==
  ASSUME PinInv, NEW S \in SUBSET Frames,
         \A i \in S : desc'[i] = Clear,
         \A i \in Frames \ S : SameHolders(desc'[i], desc[i]),
         \A key \in Keys :
           hash'[key] = IF \E i \in S : KeyOf(i) = key THEN NoFrame ELSE hash[key],
         held' = {h \in held : h.frame \notin S},
         \A i \in Frames \ S : desc[i].valid => disk'[PlaceOf(i)] # Free
  PROVE  PinRest'
<1>1. \A i \in Frames :
        desc'[i].valid => i \notin S /\ desc[i].valid
                          /\ SameHolders(desc'[i], desc[i])
  BY ClearType DEF SameHolders, SameOwner
<1>2. ASSUME NEW i \in Frames \ S, desc[i].valid
      PROVE  KeyOf(i) \in Keys /\ hash'[KeyOf(i)] = i
  <2>1. KeyOf(i) \in Keys /\ hash[KeyOf(i)] = i
    BY <1>2, KeyOfValid
  <2>2. ASSUME NEW j \in S, KeyOf(j) = KeyOf(i)
        PROVE  FALSE
    <3>1. CASE desc[j].valid
      BY <2>1, <2>2, <3>1, KeyOfValid
    <3>2. CASE ~desc[j].valid
      <4>1. KeyOf(j) = <<NoFile, NoPage>>
        BY <3>2 DEF PinInv, ClearedWhenInvalid, Clear, KeyOf
      <4>2. QED
        BY <2>1, <2>2, <4>1, BufMgrAssumption DEF Keys
    <3>3. QED
      BY <3>1, <3>2
  <2>3. QED
    BY <2>1, <2>2
<1>3. Owned'
  BY <1>1 DEF PinInv, PinRest, Owned, SameHolders, SameOwner
<1>4. FrameHashed'
  BY <1>1, <1>2 DEF FrameHashed, KeyOf, SameHolders, SameOwner
<1>5. CachedIsOnDisk'
  BY <1>1 DEF CachedIsOnDisk, PlaceOf, SameHolders, SameOwner
<1>6. HandlesHashed'
  <2> SUFFICES ASSUME NEW h \in held' PROVE hash'[<<h.file, h.page>>] = h.frame
    BY DEF HandlesHashed
  <2>1. h \in held /\ h.frame \notin S
    OBVIOUS
  <2>2. QED
    BY <1>2, <2>1, HandleOwner DEF KeyOf
<1>7. IsFiniteSet(held')
  BY FS_Subset DEF PinInv, PinRest
<1>8. PinsMatch'
  <2> SUFFICES ASSUME NEW i \in Frames
               PROVE  desc'[i].pinCnt = Cardinality(OnFrame(held', i))
    BY DEF PinsMatch, OnFrame
  <2>1. CASE i \in S
    <3>1. OnFrame(held', i) = {}
      BY <2>1 DEF OnFrame
    <3>2. QED
      BY <2>1, <3>1, ClearType, FS_EmptySet
  <2>2. CASE i \notin S
    <3>1. OnFrame(held', i) = OnFrame(held, i)
      BY <2>2 DEF OnFrame
    <3>2. QED
      BY <2>2, <3>1 DEF PinInv, PinRest, PinsMatch, OnFrame, SameHolders
  <2>3. QED
    BY <2>1, <2>2
<1>9. QED
  BY <1>3, <1>4, <1>5, <1>6, <1>7, <1>8 DEF PinRest

\* When frames nobody holds are dropped, the handles stay as they are.
LEMMA UnheldStay ==
  ASSUME PinInv, NEW S \in SUBSET Frames, \A i \in S : desc[i].pinCnt = 0
  PROVE  held = {h \in held : h.frame \notin S}
BY PinnedIffHeld

\* allocBuf cannot fail once it has found a frame, and nobody holds that one.
LEMMA VictimFree ==
  ASSUME PinInv, NEW k \in Rounds, StopsAt(k)
  PROVE  /\ At(k) \in Frames
         /\ Hashed(At(k)) /\ Writable(At(k))
         /\ desc[At(k)].pinCnt = 0
<1>1. At(k) \in Frames
  BY AtType DEF PinInv
<1>2. desc[At(k)].pinCnt = 0
  BY <1>1, ClearType DEF StopsAt, Takes, PinInv, ClearedWhenInvalid
<1>3. Hashed(At(k))
  <2>1. SUFFICES ASSUME desc[At(k)].valid PROVE hash[KeyOf(At(k))] # NoFrame
    BY DEF Hashed
  <2>2. QED
    BY <1>1, <2>1, KeyOfValid DEF Frames, NoFrame
<1>4. Writable(At(k))
  <2>1. desc[At(k)].valid \/ ~desc[At(k)].dirty
    BY <1>1 DEF PinInv, ClearedWhenInvalid, Clear
  <2>2. QED
    BY <1>1, <2>1, KeyOfValid DEF Writable
<1>5. QED
  BY <1>1, <1>2, <1>3, <1>4

\* Writing pages back leaves no page out of use.
LEMMA WrittenInUse ==
  ASSUME TypeOK, NEW i \in Frames, NEW place \in DiskKeys, disk[place] # Free
  PROVE  Written(i)[place] # Free
BY BufMgrAssumption DEF TypeOK, Written

LEMMA WrittenByInUse ==
  ASSUME TypeOK, NEW S \in SUBSET Frames, NEW place \in DiskKeys,
         disk[place] # Free
  PROVE  WrittenBy(S)[place] # Free
<1>1. CASE LastWritten(S, place) = {}
  BY <1>1 DEF WrittenBy
<1>2. CASE LastWritten(S, place) # {}
  <2>1. (CHOOSE i \in LastWritten(S, place) : TRUE) \in LastWritten(S, place)
    BY <1>2
  <2>2. LastWritten(S, place) \subseteq Frames
    BY DEF LastWritten
  <2>3. QED
    BY <1>2, <2>1, <2>2, BufMgrAssumption DEF TypeOK, WrittenBy
<1>3. QED
  BY <1>1, <1>2

\* A new handle on frame v, whose count goes up by one, or from none to one.
LEMMA PinAdded ==
  ASSUME PinInv, NEW c \in Clients, NEW f \in Files, NEW p \in Pages,
         ~Holds(c, f, p), NEW v \in Frames,
         held' = held \cup {NewHandle(c, f, p, v)},
         desc'[v].pinCnt = desc[v].pinCnt + 1,
         \A i \in Frames \ {v} : desc'[i].pinCnt = desc[i].pinCnt
  PROVE  IsFiniteSet(held') /\ PinsMatch'
<1> DEFINE n == NewHandle(c, f, p, v)
<1>1. n \notin held /\ n.frame = v
  BY DEF Holds, NewHandle
<1>2. IsFiniteSet(held')
  BY <1>1, CountAdded DEF PinInv, PinRest
<1>3. ASSUME NEW i \in Frames
      PROVE  desc'[i].pinCnt = Cardinality(OnFrame(held', i))
  <2>1. desc[i].pinCnt = Cardinality(OnFrame(held, i))
    BY DEF PinInv, PinRest, PinsMatch, OnFrame
  <2>2. /\ Cardinality(OnFrame(held, i)) \in Nat
        /\ Cardinality(OnFrame(held \cup {n}, i))
             = Cardinality(OnFrame(held, i)) + (IF n.frame = i THEN 1 ELSE 0)
    <3>1. IsFiniteSet(held) /\ n \notin held
      BY <1>1 DEF PinInv, PinRest
    <3> HIDE DEF n
    <3>2. QED
      BY <3>1, CountAdded
  <2>3. held' = held \cup {n} /\ n.frame = v
    BY <1>1
  <2>4. QED
    BY <2>1, <2>2, <2>3
<1>4. QED
  BY <1>2, <1>3 DEF PinsMatch, OnFrame

\* A frame from allocBuf that is given to a page not cached.
LEMMA FrameFilled ==
  ASSUME PinInv, NEW k \in Rounds, StopsAt(k),
         NEW c \in Clients, NEW f \in Files, NEW p \in Pages,
         ~Holds(c, f, p), hash[<<f, p>>] = NoFrame,
         desc' = [Swept(k) EXCEPT ![At(k)] = Set(f, p)],
         hash' = [Unhashed(At(k)) EXCEPT ![<<f, p>>] = At(k)],
         held' = held \cup {NewHandle(c, f, p, At(k))},
         disk'[Place(f, p)] # Free,
         \A i \in Frames : desc[i].valid => disk'[PlaceOf(i)] # Free
  PROVE  PinRest'
<1> DEFINE v == At(k)
<1>1. v \in Frames /\ desc[v].pinCnt = 0
  BY VictimFree
<1>2. TypeOK /\ HashSound /\ <<f, p>> \in Keys
  BY PlaceType DEF PinInv
<1>3. \A i \in Frames \ {v} : SameHolders(desc'[i], desc[i])
  BY <1>1, <1>2, SweptFields DEF SameHolders, SameOwner
<1>4. desc'[v] = Set(f, p)
  BY <1>1, <1>2, SweptFields
<1>5. hash'[<<f, p>>] = v
  BY <1>1, <1>2, UnhashedType
<1>6. ASSUME NEW i \in Frames \ {v}, desc[i].valid
      PROVE  KeyOf(i) # <<f, p>> /\ hash'[KeyOf(i)] = i
  <2>1. KeyOf(i) \in Keys /\ hash[KeyOf(i)] = i
    BY <1>6, KeyOfValid
  <2>2. i # NoFrame
    BY DEF Frames, NoFrame
  <2>3. KeyOf(i) # <<f, p>>
    BY <2>1, <2>2
  <2>4. Unhashed(v)[KeyOf(i)] = i
    <3>1. CASE desc[v].valid
      <4>1. hash[KeyOf(v)] = v
        BY <1>1, <3>1, KeyOfValid
      <4>2. KeyOf(v) # KeyOf(i)
        BY <2>1, <4>1
      <4>3. QED
        BY <1>2, <2>1, <3>1, <4>2 DEF Unhashed, TypeOK
    <3>2. CASE ~desc[v].valid
      BY <2>1, <3>2 DEF Unhashed
    <3>3. QED
      BY <3>1, <3>2
  <2>5. QED
    BY <1>1, <1>2, <2>1, <2>3, <2>4, UnhashedType
<1>7. Owned'
  <2>1. Set(f, p).file \in Files /\ Set(f, p).page \in Pages
    BY SetType
  <2>2. QED
    BY <1>3, <1>4, <2>1 DEF PinInv, PinRest, Owned, SameHolders, SameOwner
<1>8. FrameHashed'
  <2> SUFFICES ASSUME NEW i \in Frames, desc'[i].valid
               PROVE  hash'[<<desc'[i].file, desc'[i].page>>] = i
    BY DEF FrameHashed, KeyOf
  <2>1. CASE i = v
    BY <1>4, <1>5, <2>1, SetType
  <2>2. CASE i # v
    BY <1>3, <1>6, <2>2 DEF KeyOf, SameHolders, SameOwner
  <2>3. QED
    BY <2>1, <2>2
<1>9. CachedIsOnDisk'
  <2> SUFFICES ASSUME NEW i \in Frames, desc'[i].valid
               PROVE  disk'[Place(desc'[i].file, desc'[i].page)] # Free
    BY DEF CachedIsOnDisk, PlaceOf, Place
  <2>1. CASE i = v
    BY <1>4, <2>1, SetType
  <2>2. CASE i # v
    BY <1>3, <2>2 DEF PlaceOf, SameHolders, SameOwner
  <2>3. QED
    BY <2>1, <2>2
<1>10. HandlesHashed'
  <2> SUFFICES ASSUME NEW h \in held' PROVE hash'[<<h.file, h.page>>] = h.frame
    BY DEF HandlesHashed
  <2>1. CASE h \in held
    <3>1. h.frame # v
      BY <1>1, <2>1, PinnedIffHeld
    <3>2. QED
      BY <1>6, <2>1, <3>1, HandleOwner DEF KeyOf
  <2>2. CASE h = NewHandle(c, f, p, v)
    BY <1>5, <2>2 DEF NewHandle
  <2>3. QED
    BY <2>1, <2>2
<1>11. IsFiniteSet(held') /\ PinsMatch'
  <2>1. desc'[v].pinCnt = desc[v].pinCnt + 1
    BY <1>1, <1>4 DEF Set
  <2>2. \A i \in Frames \ {v} : desc'[i].pinCnt = desc[i].pinCnt
    BY <1>3 DEF SameHolders
  <2>3. QED
    BY <1>1, <2>1, <2>2, PinAdded
<1>12. QED
  BY <1>7, <1>8, <1>9, <1>10, <1>11 DEF PinRest

-----------------------------------------------------------------------------
(***************************************************************************)
(* The calls.                                                              *)
(***************************************************************************)
LEMMA AllocBufThrowsPins ==
  ASSUME PinInv, AllocBufThrows
  PROVE  PinRest'
<1>1. CASE AllocBufExceeded
  <2>1. \A i \in Frames : SameHolders(desc'[i], desc[i])
    BY <1>1, SweptFields DEF AllocBufExceeded, PinInv, SameHolders, SameOwner
  <2>2. QED
    BY <1>1, <2>1, QuietStep DEF AllocBufThrows, AllocBufExceeded
<1>2. ASSUME NEW k \in Rounds, AllocBufUnhashed(k) \/ AllocBufUnwritable(k)
      PROVE  FALSE
  BY <1>2, VictimFree DEF AllocBufUnhashed, AllocBufUnwritable
<1>3. QED
  BY <1>1, <1>2 DEF AllocBufThrows

LEMMA ReadPagePins ==
  ASSUME PinInv, NEW c \in Clients, NEW f \in Files, NEW p \in Pages,
         ReadPage(c, f, p)
  PROVE  PinRest'
<1>1. CASE ReadHit(c, f, p)
  <2> DEFINE v == hash[<<f, p>>]
  <2>1. v \in Frames /\ desc \in [Frames -> BufDesc]
    BY <1>1, PlaceType DEF ReadHit, PinInv, TypeOK
  <2>2. \A i \in Frames : SameOwner(desc'[i], desc[i])
    BY <1>1, <2>1 DEF ReadHit, SameOwner, BufDesc
  <2>3. /\ desc'[v].pinCnt = desc[v].pinCnt + 1
        /\ \A i \in Frames \ {v} : desc'[i].pinCnt = desc[i].pinCnt
    BY <1>1, <2>1 DEF ReadHit, BufDesc
  <2>4. IsFiniteSet(held') /\ PinsMatch'
    BY <1>1, <2>1, <2>3, PinAdded DEF ReadPage, ReadHit
  <2>5. Owned'
    BY <2>2 DEF PinInv, PinRest, Owned, SameOwner
  <2>6. FrameHashed' /\ CachedIsOnDisk'
    BY <1>1, <2>2
       DEF ReadHit, PinInv, PinRest, FrameHashed, CachedIsOnDisk, KeyOf,
           PlaceOf, SameOwner
  <2>7. HandlesHashed'
    <3> SUFFICES ASSUME NEW h \in held' PROVE hash'[<<h.file, h.page>>] = h.frame
      BY DEF HandlesHashed
    <3>1. hash' = hash /\ held' = held \cup {NewHandle(c, f, p, v)}
      BY <1>1 DEF ReadHit
    <3>2. CASE h \in held
      BY <3>1, <3>2 DEF PinInv, PinRest, HandlesHashed
    <3>3. CASE h = NewHandle(c, f, p, v)
      BY <3>1, <3>3 DEF NewHandle
    <3>4. QED
      BY <3>1, <3>2, <3>3
  <2>8. QED
    BY <2>4, <2>5, <2>6, <2>7 DEF PinRest
<1>2. ASSUME NEW k \in Rounds, ReadInvalid(f, p, k)
      PROVE  PinRest'
  <2> DEFINE v == At(k)
  <2>1. v \in Frames /\ desc[v].pinCnt = 0 /\ TypeOK
    BY <1>2, VictimFree DEF ReadInvalid, AllocBuf, PinInv
  <2>2. desc'[v] = Clear /\ \A i \in Frames \ {v} : SameHolders(desc'[i], desc[i])
    BY <1>2, <2>1, SweptFields DEF ReadInvalid, SameHolders, SameOwner
  <2>3. \A key \in Keys :
          hash'[key] = IF \E i \in {v} : KeyOf(i) = key THEN NoFrame
                                                        ELSE hash[key]
    <3>1. CASE desc[v].valid
      BY <1>2, <2>1, <3>1 DEF ReadInvalid, Unhashed, TypeOK
    <3>2. CASE ~desc[v].valid
      <4>1. KeyOf(v) \notin Keys
        BY <2>1, <3>2, BufMgrAssumption
           DEF PinInv, ClearedWhenInvalid, Clear, KeyOf, Keys
      <4>2. QED
        BY <1>2, <3>2, <4>1 DEF ReadInvalid, Unhashed
    <3>3. QED
      BY <3>1, <3>2
  <2>4. held' = {h \in held : h.frame \notin {v}}
    BY <1>2, <2>1, UnheldStay DEF ReadInvalid
  <2>5. \A i \in Frames : desc[i].valid => disk'[PlaceOf(i)] # Free
    BY <1>2, <2>1, KeyOfValid, WrittenInUse DEF ReadInvalid
  <2>6. QED
    BY <2>1, <2>2, <2>3, <2>4, <2>5, FramesDropped
<1>3. ASSUME NEW k \in Rounds, ReadMiss(c, f, p, k), hash[<<f, p>>] = NoFrame
      PROVE  PinRest'
  <2>1. At(k) \in Frames
    BY <1>3, VictimFree DEF ReadMiss, AllocBuf
  <2>2. \A i \in Frames : desc[i].valid => disk'[PlaceOf(i)] # Free
    BY <1>3, <2>1, KeyOfValid, WrittenInUse DEF ReadMiss, PinInv
  <2>3. QED
    BY <1>3, <2>2, FrameFilled DEF ReadPage, ReadMiss, AllocBuf
<1>4. QED
  BY <1>1, <1>2, <1>3, AllocBufThrowsPins DEF ReadPage

\* The page the file gives out is not cached: a cached page is in use.
LEMMA AllocPagePins ==
  ASSUME PinInv, NEW c \in Clients, NEW f \in Files, AllocPage(c, f)
  PROVE  PinRest'
<1>1. ASSUME NEW p \in Pages, NEW k \in Rounds, ~Holds(c, f, p),
             AllocInto(c, f, p, k)
      PROVE  PinRest'
  <2> DEFINE v == At(k)
  <2>1. v \in Frames /\ StopsAt(k)
    BY <1>1, VictimFree DEF AllocInto, AllocBuf
  <2>2. hash[<<f, p>>] = NoFrame
    <3>1. SUFFICES ASSUME hash[<<f, p>>] # NoFrame PROVE FALSE
      OBVIOUS
    <3>2. hash[<<f, p>>] \in Frames
      BY <3>1, PlaceType DEF PinInv, TypeOK
    <3>3. /\ desc[hash[<<f, p>>]].valid
          /\ PlaceOf(hash[<<f, p>>]) = Place(f, p)
      BY <3>1 DEF PinInv, HashSound, PlaceOf
    <3>4. QED
      BY <1>1, <3>2, <3>3, KeyOfValid DEF AllocInto
  <2>3. Unhashed(v)[<<f, p>>] = NoFrame
    BY <2>1, <2>2, UnhashedForgets DEF PinInv
  <2>4. Written(v) \in [DiskKeys -> Data \cup {Free}] /\ Place(f, p) \in DiskKeys
    BY <2>1, WrittenType, PlaceType DEF PinInv
  <2>5. disk' = [Written(v) EXCEPT ![Place(f, p)] = Empty]
    BY <1>1 DEF AllocInto
  <2>6. disk'[Place(f, p)] # Free
    BY <2>4, <2>5, BufMgrAssumption
  <2>7. ASSUME NEW i \in Frames, desc[i].valid
        PROVE  disk'[PlaceOf(i)] # Free
    <3>1. PlaceOf(i) \in DiskKeys /\ Written(v)[PlaceOf(i)] # Free
      BY <2>1, <2>7, KeyOfValid, WrittenInUse DEF PinInv
    <3>2. QED
      BY <2>4, <2>5, <2>6, <3>1
  <2>8. /\ desc' = [Swept(k) EXCEPT ![v] = Set(f, p)]
        /\ hash' = [Unhashed(v) EXCEPT ![<<f, p>>] = v]
        /\ held' = held \cup {NewHandle(c, f, p, v)}
    BY <1>1, <2>3 DEF AllocInto
  <2>9. QED
    BY <1>1, <2>1, <2>2, <2>6, <2>7, <2>8, FrameFilled
<1>2. QED
  BY <1>1, AllocBufThrowsPins DEF AllocPage

\* unPinPage finds the frame of the handle, and takes one off its count.
LEMMA UnPinPagePins ==
  ASSUME PinInv, NEW h \in held, NEW dirty \in BOOLEAN, UnPinPage(h, dirty)
  PROVE  PinRest'
<1> DEFINE v == h.frame
<1>1. v \in Frames /\ v # NoFrame /\ hash[<<h.file, h.page>>] = v
  BY HandleOwner DEF PinInv, PinRest, HandlesHashed, Frames, NoFrame
<1>2. desc[v].pinCnt # 0
  BY <1>1, PinnedIffHeld
<1>3. desc' = [desc EXCEPT ![v].dirty = @ \/ dirty, ![v].pinCnt = @ - 1]
  BY <1>1, <1>2 DEF UnPinPage, UnPinned
<1>4. desc \in [Frames -> BufDesc]
  BY DEF PinInv, TypeOK
<1>5. \A i \in Frames : SameOwner(desc'[i], desc[i])
  BY <1>1, <1>3, <1>4 DEF SameOwner, BufDesc
<1>6. /\ desc'[v].pinCnt = desc[v].pinCnt - 1
      /\ \A i \in Frames \ {v} : desc'[i].pinCnt = desc[i].pinCnt
  BY <1>1, <1>3, <1>4 DEF BufDesc
<1>7. held' = held \ {h} /\ hash' = hash /\ disk' = disk
  BY DEF UnPinPage
<1>8. IsFiniteSet(held') /\ PinsMatch'
  <2>1. IsFiniteSet(held)
    BY DEF PinInv, PinRest
  <2>2. ASSUME NEW i \in Frames
        PROVE  desc'[i].pinCnt = Cardinality(OnFrame(held', i))
    <3>1. desc[i].pinCnt = Cardinality(OnFrame(held, i))
      BY DEF PinInv, PinRest, PinsMatch, OnFrame
    <3>2. /\ Cardinality(OnFrame(held, i)) \in Nat
          /\ Cardinality(OnFrame(held \ {h}, i))
               = Cardinality(OnFrame(held, i)) - (IF h.frame = i THEN 1 ELSE 0)
      BY <2>1, CountRemoved
    <3>3. QED
      BY <1>6, <1>7, <3>1, <3>2
  <2>3. QED
    BY <1>7, <2>1, <2>2, FS_RemoveElement DEF PinsMatch, OnFrame
<1>9. Owned' /\ FrameHashed' /\ CachedIsOnDisk'
  BY <1>5, <1>7
     DEF PinInv, PinRest, Owned, FrameHashed, CachedIsOnDisk, KeyOf, PlaceOf,
         SameOwner
<1>10. HandlesHashed'
  BY <1>7 DEF PinInv, PinRest, HandlesHashed
<1>11. QED
  BY <1>8, <1>9, <1>10 DEF PinRest

LEMMA UnPinUnpinnedPins ==
  ASSUME PinInv, NEW f \in Files, NEW p \in Pages, NEW dirty \in BOOLEAN,
         UnPinUnpinned(f, p, dirty)
  PROVE  PinRest'
<1> DEFINE u == hash[<<f, p>>]
<1>1. \/ UNCHANGED desc
      \/ desc' = [desc EXCEPT ![u].dirty = @ \/ dirty]
  BY DEF UnPinUnpinned, UnPinned
<1>2. desc \in [Frames -> BufDesc]
  BY DEF PinInv, TypeOK
<1>3. \A i \in Frames : SameHolders(desc'[i], desc[i])
  <2>1. CASE UNCHANGED desc
    BY <2>1 DEF SameHolders, SameOwner
  <2>2. CASE desc' = [desc EXCEPT ![u].dirty = @ \/ dirty]
    BY <1>2, <2>2 DEF SameHolders, SameOwner, BufDesc
  <2>3. QED
    BY <1>1, <2>1, <2>2
<1>4. QED
  BY <1>3, QuietStep DEF UnPinUnpinned

\* flushFile ends at a pinned frame or not at all: it drops frames of the file
\* that nobody pins.
LEMMA FlushFileDrops ==
  ASSUME PinInv, NEW f \in Files, FlushFile(f)
  PROVE  \E S \in SUBSET Frames :
           /\ \A i \in S : desc[i].valid /\ desc[i].pinCnt = 0
           /\ Flushed(S)
<1>1. ASSUME NEW i \in Mine(f), desc[i].pinCnt = 0
      PROVE  Writable(i) /\ Removable(i)
  <2>1. i \in Frames /\ desc[i].valid
    BY DEF Mine
  <2>2. hash[KeyOf(i)] = i /\ disk[PlaceOf(i)] # Free /\ i # NoFrame
    BY <2>1, KeyOfValid DEF Frames, NoFrame
  <2>3. ASSUME NEW j \in Mine(desc[i].file), j < i, desc[j].page = desc[i].page
        PROVE  FALSE
    <3>1. j \in Frames /\ desc[j].valid /\ KeyOf(j) = KeyOf(i)
      BY <2>3 DEF Mine, KeyOf
    <3>2. hash[KeyOf(j)] = j
      BY <3>1, KeyOfValid
    <3>3. QED
      BY <2>1, <2>2, <2>3, <3>1, <3>2 DEF Frames
  <2>4. QED
    BY <2>2, <2>3 DEF Writable, Removable, Hashed
<1>2. ASSUME NEW i \in Mine(f)
      PROVE  i \in Frames /\ desc[i].valid /\ desc[i].pinCnt \in Nat
  BY DEF Mine, PinInv, TypeOK, BufDesc
<1>3. CASE FlushAll(f)
  <2>1. \A i \in Mine(f) : desc[i].valid /\ desc[i].pinCnt = 0
    BY <1>2, <1>3 DEF FlushAll, Unflushable
  <2>2. QED
    BY <1>2, <1>3, <2>1 DEF FlushAll
<1>4. ASSUME NEW s \in Mine(f), FlushSome(f, s)
      PROVE  \E S \in SUBSET Frames :
               /\ \A i \in S : desc[i].valid /\ desc[i].pinCnt = 0
               /\ Flushed(S)
  <2> DEFINE before == {i \in Mine(f) : i < s}
  <2>1. \A i \in before : desc[i].valid /\ desc[i].pinCnt = 0
    BY <1>2, <1>4 DEF FlushSome, Unflushable
  <2>2. desc[s].pinCnt # 0
    BY <1>1, <1>4 DEF FlushSome, Unflushable
  <2>3. Flushed(before)
    BY <1>4, <2>2 DEF FlushSome
  <2>4. before \in SUBSET Frames
    BY <1>2
  <2>5. QED
    BY <2>1, <2>3, <2>4
<1>5. QED
  BY <1>3, <1>4 DEF FlushFile

LEMMA FlushFilePins ==
  ASSUME PinInv, NEW f \in Files, FlushFile(f)
  PROVE  PinRest'
<1>1. PICK S \in SUBSET Frames :
        (\A i \in S : desc[i].valid /\ desc[i].pinCnt = 0) /\ Flushed(S)
  BY FlushFileDrops
<1>2. TypeOK
  BY DEF PinInv
<1>3. \A i \in S : desc'[i] = Clear
  BY <1>1 DEF Flushed
<1>4. \A i \in Frames \ S : SameHolders(desc'[i], desc[i])
  BY <1>1 DEF Flushed, SameHolders, SameOwner
<1>5. \A key \in Keys :
        hash'[key] = IF \E i \in S : KeyOf(i) = key THEN NoFrame ELSE hash[key]
  BY <1>1 DEF Flushed
<1>6. held' = {h \in held : h.frame \notin S}
  BY <1>1, UnheldStay DEF FlushFile
<1>7. \A i \in Frames \ S : desc[i].valid => disk'[PlaceOf(i)] # Free
  BY <1>1, <1>2, KeyOfValid, WrittenByInUse DEF Flushed
<1>8. QED
  BY <1>3, <1>4, <1>5, <1>6, <1>7, FramesDropped

\* disposePage frees one page on disk: no other frame caches it.
LEMMA DisposePagePins ==
  ASSUME NoAlias, PinInv,
         NEW c \in Clients, NEW f \in Files, NEW p \in Pages,
         DisposePage(c, f, p)
  PROVE  PinRest'
<1> DEFINE v == hash[<<f, p>>]
           own == {h \in held : h.client = c /\ h.file = f /\ h.page = p}
<1>1. CASE v = NoFrame
  <2>1. \A i \in Frames : SameHolders(desc'[i], desc[i])
    BY <1>1 DEF DisposePage, SameHolders, SameOwner
  <2>2. QED
    BY <1>1, <2>1, QuietStep DEF DisposePage
<1>2. CASE v # NoFrame
  <2>1. <<f, p>> \in Keys /\ Place(f, p) \in DiskKeys /\ v \in Frames
    BY <1>2, PlaceType DEF PinInv, TypeOK
  <2>2. desc[v].valid /\ KeyOf(v) = <<f, p>>
    BY <1>2 DEF PinInv, HashSound, KeyOf
  <2>3. /\ desc' = [desc EXCEPT ![v] = Clear]
        /\ hash' = [hash EXCEPT ![<<f, p>>] = NoFrame]
        /\ disk' = [disk EXCEPT ![Place(f, p)] = Free]
        /\ held' = held \ own
    BY <1>2 DEF DisposePage
  <2>4. TypeOK
    BY DEF PinInv
  <2>5. desc'[v] = Clear /\ \A i \in Frames \ {v} : SameHolders(desc'[i], desc[i])
    BY <2>1, <2>3, <2>4 DEF TypeOK, SameHolders, SameOwner
  <2>6. \A key \in Keys :
          hash'[key] = IF \E i \in {v} : KeyOf(i) = key THEN NoFrame
                                                        ELSE hash[key]
    BY <2>1, <2>2, <2>3, <2>4 DEF TypeOK
  <2>7. held' = {h \in held : h.frame \notin {v}}
    <3>1. ASSUME NEW h \in held
          PROVE  h \in own <=> h.frame = v
      <4>1. CASE h.file = f /\ h.page = p
        <5>1. h.client = c
          BY <4>1 DEF DisposePage
        <5>2. h.frame = v
          BY <4>1 DEF PinInv, PinRest, HandlesHashed
        <5>3. QED
          BY <4>1, <5>1, <5>2
      <4>2. CASE ~(h.file = f /\ h.page = p)
        BY <2>2, <4>2, HandleOwner DEF KeyOf
      <4>3. QED
        BY <4>1, <4>2
    <3>2. QED
      BY <2>3, <3>1
  <2>8. ASSUME NEW i \in Frames \ {v}, desc[i].valid
        PROVE  disk'[PlaceOf(i)] # Free
    <3>1. KeyOf(i) \in Keys /\ hash[KeyOf(i)] = i
          /\ PlaceOf(i) \in DiskKeys /\ disk[PlaceOf(i)] # Free
      BY <2>8, KeyOfValid
    <3>2. KeyOf(i) # <<f, p>>
      BY <3>1
    <3>3. PlaceOf(i) # Place(f, p)
      BY <3>1, <3>2 DEF NoAlias, PlaceOf, Place, KeyOf, Keys
    <3>4. QED
      BY <2>3, <2>4, <3>1, <3>3 DEF TypeOK
  <2>9. QED
    BY <2>1, <2>5, <2>6, <2>7, <2>8, FramesDropped
<1>3. QED
  BY <1>1, <1>2

LEMMA RestartPins ==
  ASSUME PinInv, Restart
  PROVE  PinRest'
<1>1. \A i \in Frames : desc'[i] = Clear
  BY DEF Restart
<1>2. held' = {}
  BY DEF Restart
<1>3. IsFiniteSet(held') /\ PinsMatch'
  <2>1. \A i \in Frames : {h \in held' : h.frame = i} = {}
    BY <1>2
  <2>2. QED
    BY <1>1, <1>2, <2>1, ClearType, FS_EmptySet DEF PinsMatch
<1>4. QED
  BY <1>1, <1>2, <1>3, ClearType
     DEF PinRest, Owned, FrameHashed, CachedIsOnDisk, HandlesHashed

LEMMA NextPins ==
  ASSUME NoAlias, PinInv, [Next]_vars
  PROVE  PinInv'
<1>1. TypeOK' /\ HashSound' /\ ClearedWhenInvalid'
  BY NextType, NextSound, NextCleared DEF PinInv
<1>2. PinRest'
  <2>1. ASSUME NEW c \in Clients, NEW f \in Files, NEW p \in Pages,
               ReadPage(c, f, p) \/ DisposePage(c, f, p)
        PROVE  PinRest'
    BY <2>1, ReadPagePins, DisposePagePins
  <2>2. ASSUME NEW c \in Clients, NEW f \in Files, AllocPage(c, f)
        PROVE  PinRest'
    BY <2>2, AllocPagePins
  <2>3. CASE UNCHANGED <<desc, hash, disk, held>>
    <3>1. \A i \in Frames : SameHolders(desc'[i], desc[i])
      BY <2>3 DEF SameHolders, SameOwner
    <3>2. QED
      BY <2>3, <3>1, QuietStep
  <2>4. ASSUME NEW h \in held, NEW dirty \in BOOLEAN, UnPinPage(h, dirty)
        PROVE  PinRest'
    BY <2>4, UnPinPagePins
  <2>5. ASSUME NEW f \in Files, NEW p \in Pages, NEW dirty \in BOOLEAN,
               UnPinUnpinned(f, p, dirty)
        PROVE  PinRest'
    BY <2>5, UnPinUnpinnedPins
  <2>6. ASSUME NEW f \in Files, FlushFile(f)
        PROVE  PinRest'
    BY <2>6, FlushFilePins
  <2>7. CASE Restart
    BY <2>7, RestartPins
  <2>8. QED
    BY <2>1, <2>2, <2>3, <2>4, <2>5, <2>6, <2>7 DEF Next, vars, WriteThrough
<1>3. QED
  BY <1>1, <1>2 DEF PinInv

LEMMA InitPins == Init => PinInv
<1> SUFFICES ASSUME Init PROVE PinInv
  OBVIOUS
<1>1. TypeOK
  BY InitType
<1>2. \A i \in Frames : desc[i] = Clear
  BY DEF Init
<1>3. HashSound /\ ClearedWhenInvalid
  BY <1>2, PlaceType DEF Init, HashSound, ClearedWhenInvalid
<1>4. held = {} /\ \A i \in Frames : {h \in held : h.frame = i} = {}
  BY DEF Init
<1>5. PinRest
  BY <1>2, <1>4, ClearType, FS_EmptySet
     DEF PinRest, Owned, FrameHashed, CachedIsOnDisk, HandlesHashed, PinsMatch
<1>6. QED
  BY <1>1, <1>3, <1>5 DEF PinInv

\* readPage, allocPage and unPinPage (buffer.cpp) keep every count right.
THEOREM PinInvAlways ==
  ASSUME NoAlias
  PROVE  Spec => []PinInv
<1>1. Init => PinInv
  BY InitPins
<1>2. PinInv /\ [Next]_vars => PinInv'
  BY NextPins
<1>3. QED
  BY <1>1, <1>2, PTL DEF Spec

\* No frame is taken from a client that holds it: a Page* stays good until
\* its holder unpins or disposes of the page.
THEOREM HandleValidAlways ==
  ASSUME NoAlias
  PROVE  Spec => []HandleValid
BY PinInvAlways, PinInvImplies, PTL

\* The pin count of a frame is the number of clients that hold it.
THEOREM PinsMatchAlways ==
  ASSUME NoAlias
  PROVE  Spec => []PinsMatch
<1>1. PinInv => PinsMatch
  BY DEF PinInv, PinRest
<1>2. QED
  BY <1>1, PinInvAlways, PTL

\* Every valid frame is found by its key, so no page is cached twice.
THEOREM FrameHashedAlways ==
  ASSUME NoAlias
  PROVE  Spec => []FrameHashed
<1>1. PinInv => FrameHashed
  BY DEF PinInv, PinRest
<1>2. QED
  BY <1>1, PinInvAlways, PTL

\* A cached page is in use on disk: no write-back fails.
THEOREM CachedIsOnDiskAlways ==
  ASSUME NoAlias
  PROVE  Spec => []CachedIsOnDisk
<1>1. PinInv => CachedIsOnDisk
  BY DEF PinInv, PinRest
<1>2. QED
  BY <1>1, PinInvAlways, PTL

-----------------------------------------------------------------------------
(***************************************************************************)
(* Which frame caches a place, and what write-backs leave there.           *)
(***************************************************************************)

\* One place, one key, one frame.
LEMMA PlaceOfKey ==
  ASSUME NoAlias, NEW f \in Files, NEW g \in Files, NEW p, NEW q,
         Place(f, p) = Place(g, q)
  PROVE  f = g /\ p = q
BY DEF NoAlias, Place

LEMMA PlacesDiffer ==
  ASSUME NoAlias, PinInv, NEW i \in Frames, NEW j \in Frames, i # j,
         desc[i].valid, desc[j].valid
  PROVE  PlaceOf(i) # PlaceOf(j)
<1> SUFFICES ASSUME PlaceOf(i) = PlaceOf(j) PROVE FALSE
  OBVIOUS
<1>1. desc[i].file \in Files /\ desc[j].file \in Files
  BY DEF PinInv, PinRest, Owned
<1>2. KeyOf(i) = KeyOf(j)
  BY <1>1, PlaceOfKey DEF PlaceOf, KeyOf
<1>3. QED
  BY <1>2, KeyOfValid

\* A key that is not cached has its place to itself.
LEMMA UncachedPlace ==
  ASSUME NoAlias, PinInv, NEW f \in Files, NEW p \in Pages,
         NEW i \in Frames, desc[i].valid, hash[<<f, p>>] # i
  PROVE  PlaceOf(i) # Place(f, p)
<1> SUFFICES ASSUME PlaceOf(i) = Place(f, p) PROVE FALSE
  OBVIOUS
<1>1. desc[i].file \in Files
  BY DEF PinInv, PinRest, Owned
<1>2. KeyOf(i) = <<f, p>>
  BY <1>1, PlaceOfKey DEF PlaceOf, KeyOf
<1>3. QED
  BY <1>2, KeyOfValid

\* Only a valid frame can be dirty.
LEMMA DirtyValid ==
  ASSUME PinInv, NEW i \in Frames, desc[i].dirty
  PROVE  desc[i].valid
BY DEF PinInv, ClearedWhenInvalid, Clear

\* Writing one frame back touches the place of that frame alone.
LEMMA WrittenPlaces ==
  ASSUME PinInv, NEW i \in Frames, NEW place \in DiskKeys
  PROVE  /\ place # PlaceOf(i) \/ ~desc[i].valid
              => Written(i)[place] = disk[place]
         /\ place = PlaceOf(i) /\ desc[i].valid
              => Written(i)[place] = IF desc[i].dirty THEN bufPool[i]
                                                     ELSE disk[place]
BY DirtyValid DEF Written, PinInv, TypeOK

\* Writing a set of frames back leaves each dirty one of them at its place,
\* and every other place as it was.
LEMMA WrittenByPlaces ==
  ASSUME NoAlias, PinInv, NEW S \in SUBSET Frames, \A i \in S : desc[i].valid,
         NEW place \in DiskKeys
  PROVE  /\ (\A i \in S : PlaceOf(i) # place) => WrittenBy(S)[place] = disk[place]
         /\ \A i \in S : PlaceOf(i) = place =>
              WrittenBy(S)[place] = IF desc[i].dirty THEN bufPool[i]
                                                    ELSE disk[place]
<1>1. ASSUME \A i \in S : PlaceOf(i) # place
      PROVE  WrittenBy(S)[place] = disk[place]
  <2>1. LastWritten(S, place) = {}
    BY <1>1 DEF LastWritten
  <2>2. QED
    BY <2>1 DEF WrittenBy
<1>2. ASSUME NEW i \in S, PlaceOf(i) = place
      PROVE  WrittenBy(S)[place] = IF desc[i].dirty THEN bufPool[i]
                                                   ELSE disk[place]
  <2>1. \A j \in S : PlaceOf(j) = place => j = i
    BY <1>2, PlacesDiffer
  <2>2. CASE desc[i].dirty
    <3>1. i <= i
      BY DEF Frames
    <3>2. LastWritten(S, place) = {i}
      BY <1>2, <2>1, <2>2, <3>1 DEF LastWritten
    <3>3. (CHOOSE j \in LastWritten(S, place) : TRUE) = i
      BY <3>2
    <3>4. QED
      BY <2>2, <3>2, <3>3 DEF WrittenBy
  <2>3. CASE ~desc[i].dirty
    <3>1. LastWritten(S, place) = {}
      BY <2>1, <2>3 DEF LastWritten
    <3>2. QED
      BY <2>3, <3>1 DEF WrittenBy
  <2>4. QED
    BY <2>2, <2>3
<1>3. QED
  BY <1>1, <1>2

-----------------------------------------------------------------------------
(***************************************************************************)
(* No update is lost.  CleanMatchesDisk is preserved frame by frame: an    *)
(* action either leaves a frame, its place and the writes still to be told *)
(* of as they were, or clears the frame, or fills it from the disk.        *)
(***************************************************************************)
CleanFrame(i) ==
  /\ desc[i].valid
  /\ ~desc[i].dirty
  /\ \A h \in unsaved : h.frame # i
  => bufPool[i] = disk[PlaceOf(i)]

CleanInv == PinInv /\ CleanMatchesDisk

LEMMA FrameUndisturbed ==
  ASSUME CleanMatchesDisk, NEW i \in Frames,
         SameOwner(desc'[i], desc[i]),
         desc[i].dirty => desc'[i].dirty,
         \A h \in unsaved : h.frame = i => h \in unsaved' \/ desc'[i].dirty,
         bufPool'[i] = bufPool[i],
         desc[i].valid => disk'[PlaceOf(i)] = disk[PlaceOf(i)]
  PROVE  CleanFrame(i)'
<1>1. PlaceOf(i)' = PlaceOf(i)
  BY DEF PlaceOf, Place, SameOwner
<1>2. QED
  BY <1>1 DEF CleanMatchesDisk, CleanFrame, SameOwner

LEMMA FrameCleared ==
  ASSUME NEW i, desc'[i] = Clear
  PROVE  CleanFrame(i)'
BY ClearType DEF CleanFrame

\* The frames a call of allocBuf passes over.
LEMMA SweptClean ==
  ASSUME NoAlias, CleanInv, NEW k \in Rounds, StopsAt(k),
         NEW i \in Frames \ {At(k)},
         desc'[i] = Swept(k)[i], bufPool'[i] = bufPool[i], UNCHANGED unsaved,
         desc[i].valid => disk'[PlaceOf(i)] = Written(At(k))[PlaceOf(i)]
  PROVE  CleanFrame(i)'
<1>1. At(k) \in Frames /\ TypeOK
  BY VictimFree DEF CleanInv, PinInv
<1>2. SameOwner(desc'[i], desc[i]) /\ desc'[i].dirty = desc[i].dirty
  BY <1>1, SweptFields DEF SameOwner
<1>3. ASSUME desc[i].valid
      PROVE  disk'[PlaceOf(i)] = disk[PlaceOf(i)]
  <2>1. PlaceOf(i) \in DiskKeys
    BY <1>3, KeyOfValid DEF CleanInv
  <2>2. PlaceOf(i) # PlaceOf(At(k)) \/ ~desc[At(k)].valid
    BY <1>1, <1>3, PlacesDiffer DEF CleanInv
  <2>3. QED
    BY <1>1, <1>3, <2>1, <2>2, WrittenPlaces DEF CleanInv
<1>4. QED
  BY <1>2, <1>3, FrameUndisturbed DEF CleanInv

LEMMA AllocBufThrowsClean ==
  ASSUME CleanInv, AllocBufThrows, NEW i \in Frames
  PROVE  CleanFrame(i)'
<1>1. PICK k : desc' = Swept(k)
  BY DEF AllocBufThrows, AllocBufExceeded, AllocBufUnhashed, AllocBufUnwritable
<1>2. SameOwner(desc'[i], desc[i]) /\ desc'[i].dirty = desc[i].dirty
  BY <1>1, SweptFields DEF SameOwner, CleanInv, PinInv
<1>3. QED
  BY <1>2, FrameUndisturbed DEF AllocBufThrows, CleanInv

LEMMA ReadPageClean ==
  ASSUME NoAlias, CleanInv, NEW c \in Clients, NEW f \in Files, NEW p \in Pages,
         ReadPage(c, f, p), NEW i \in Frames
  PROVE  CleanFrame(i)'
<1>1. CASE ReadHit(c, f, p)
  <2>1. SameOwner(desc'[i], desc[i]) /\ desc'[i].dirty = desc[i].dirty
    <3>1. desc \in [Frames -> BufDesc]
      BY DEF CleanInv, PinInv, TypeOK
    <3>2. QED
      BY <1>1, <3>1 DEF ReadHit, SameOwner, BufDesc
  <2>2. QED
    BY <1>1, <2>1, FrameUndisturbed DEF ReadHit, CleanInv
<1>2. CASE AllocBufThrows
  BY <1>2, AllocBufThrowsClean
<1>3. ASSUME NEW k \in Rounds, ReadInvalid(f, p, k)
      PROVE  CleanFrame(i)'
  <2>1. At(k) \in Frames /\ TypeOK /\ StopsAt(k)
    BY <1>3, VictimFree DEF CleanInv, PinInv, ReadInvalid, AllocBuf
  <2>2. CASE i = At(k)
    BY <1>3, <2>1, <2>2, SweptFields, FrameCleared DEF ReadInvalid
  <2>3. CASE i # At(k)
    BY <1>3, <2>1, <2>3, SweptFields, SweptClean DEF ReadInvalid
  <2>4. QED
    BY <2>2, <2>3
<1>4. ASSUME NEW k \in Rounds, ReadMiss(c, f, p, k)
      PROVE  CleanFrame(i)'
  <2>1. At(k) \in Frames /\ TypeOK /\ StopsAt(k)
    BY <1>4, VictimFree DEF CleanInv, PinInv, ReadMiss, AllocBuf
  <2>2. CASE i = At(k)
    <3>1. desc'[i] = Set(f, p)
      BY <1>4, <2>1, <2>2, SweptFields DEF ReadMiss
    <3>2. bufPool'[i] = disk'[Place(f, p)]
      BY <1>4, <2>1, <2>2 DEF ReadMiss, TypeOK
    <3>3. QED
      BY <3>1, <3>2, SetType DEF CleanFrame, PlaceOf, Place
  <2>3. CASE i # At(k)
    <3>1. desc'[i] = Swept(k)[i] /\ bufPool'[i] = bufPool[i]
      BY <1>4, <2>1, <2>3, SweptFields DEF ReadMiss, TypeOK
    <3>2. QED
      BY <1>4, <2>1, <2>3, <3>1, SweptClean DEF ReadMiss
  <2>4. QED
    BY <2>2, <2>3
<1>5. QED
  BY <1>1, <1>2, <1>3, <1>4 DEF ReadPage

LEMMA AllocPageClean ==
  ASSUME NoAlias, CleanInv, NEW c \in Clients, NEW f \in Files,
         AllocPage(c, f), NEW i \in Frames
  PROVE  CleanFrame(i)'
<1>1. ASSUME NEW p \in Pages, NEW k \in Rounds, AllocInto(c, f, p, k)
      PROVE  CleanFrame(i)'
  <2>1. At(k) \in Frames /\ TypeOK /\ StopsAt(k)
    BY <1>1, VictimFree DEF CleanInv, PinInv, AllocInto, AllocBuf
  <2>2. /\ Place(f, p) \in DiskKeys
        /\ Written(At(k)) \in [DiskKeys -> Data \cup {Free}]
        /\ disk' = [Written(At(k)) EXCEPT ![Place(f, p)] = Empty]
    BY <1>1, <2>1, PlaceType, WrittenType DEF AllocInto
  <2>3. CASE i = At(k)
    <3>1. desc'[i] = Set(f, p)
      BY <1>1, <2>1, <2>3, SweptFields DEF AllocInto
    <3>2. bufPool'[i] = Empty /\ disk'[Place(f, p)] = Empty
      BY <1>1, <2>1, <2>2, <2>3 DEF AllocInto, TypeOK
    <3>3. QED
      BY <3>1, <3>2, SetType DEF CleanFrame, PlaceOf, Place
  <2>4. CASE i # At(k)
    <3>1. desc'[i] = Swept(k)[i] /\ bufPool'[i] = bufPool[i]
      BY <1>1, <2>1, <2>4, SweptFields DEF AllocInto, TypeOK
    <3>2. ASSUME desc[i].valid
          PROVE  disk'[PlaceOf(i)] = Written(At(k))[PlaceOf(i)]
      <4>1. PlaceOf(i) \in DiskKeys /\ PlaceOf(i) # Place(f, p)
        BY <1>1, <3>2, KeyOfValid DEF CleanInv, AllocInto
      <4>2. QED
        BY <2>2, <4>1
    <3>3. QED
      BY <1>1, <2>1, <2>4, <3>1, <3>2, SweptClean DEF AllocInto
  <2>5. QED
    BY <2>3, <2>4
<1>2. QED
  BY <1>1, AllocBufThrowsClean DEF AllocPage

\* The client that wrote the page says so when it unpins it, so the frame is
\* dirty once the last such handle is gone.
LEMMA UnPinPageClean ==
  ASSUME CleanInv, NEW h \in held, NEW dirty \in BOOLEAN,
         UnPinPage(h, dirty), NEW i \in Frames
  PROVE  CleanFrame(i)'
<1> DEFINE v == h.frame
<1>1. v \in Frames /\ v # NoFrame /\ hash[<<h.file, h.page>>] = v
  BY HandleOwner DEF CleanInv, PinInv, PinRest, HandlesHashed, Frames, NoFrame
<1>2. desc[v].pinCnt # 0
  BY <1>1, PinnedIffHeld DEF CleanInv
<1>3. desc' = [desc EXCEPT ![v].dirty = @ \/ dirty, ![v].pinCnt = @ - 1]
  BY <1>1, <1>2 DEF UnPinPage, UnPinned
<1>4. desc \in [Frames -> BufDesc]
  BY DEF CleanInv, PinInv, TypeOK
<1>5. SameOwner(desc'[i], desc[i])
  BY <1>1, <1>3, <1>4 DEF SameOwner, BufDesc
<1>6. desc'[v].dirty = (desc[v].dirty \/ dirty)
  BY <1>1, <1>3, <1>4 DEF BufDesc
<1>7. i # v => desc'[i].dirty = desc[i].dirty
  BY <1>1, <1>3, <1>4 DEF BufDesc
<1>8. desc[i].dirty => desc'[i].dirty
  BY <1>6, <1>7
<1>9. ASSUME NEW g \in unsaved, g.frame = i
      PROVE  g \in unsaved' \/ desc'[i].dirty
  BY <1>6, <1>9 DEF UnPinPage
<1>10. QED
  BY <1>5, <1>8, <1>9, FrameUndisturbed DEF UnPinPage, CleanInv

LEMMA UnPinUnpinnedClean ==
  ASSUME CleanInv, NEW f \in Files, NEW p \in Pages, NEW dirty \in BOOLEAN,
         UnPinUnpinned(f, p, dirty), NEW i \in Frames
  PROVE  CleanFrame(i)'
<1> DEFINE u == hash[<<f, p>>]
<1>1. desc \in [Frames -> BufDesc]
  BY DEF CleanInv, PinInv, TypeOK
<1>2. \/ UNCHANGED desc
      \/ desc' = [desc EXCEPT ![u].dirty = @ \/ dirty]
  BY DEF UnPinUnpinned, UnPinned
<1>3. SameOwner(desc'[i], desc[i])
  <2>1. CASE UNCHANGED desc
    BY <2>1 DEF SameOwner
  <2>2. CASE desc' = [desc EXCEPT ![u].dirty = @ \/ dirty]
    BY <1>1, <2>2 DEF SameOwner, BufDesc
  <2>3. QED
    BY <1>2, <2>1, <2>2
<1>4. desc[i].dirty => desc'[i].dirty
  BY <1>1, <1>2 DEF BufDesc
<1>5. QED
  BY <1>3, <1>4, FrameUndisturbed DEF UnPinUnpinned, CleanInv

LEMMA FlushFileClean ==
  ASSUME NoAlias, CleanInv, NEW f \in Files, FlushFile(f), NEW i \in Frames
  PROVE  CleanFrame(i)'
<1>1. PICK S \in SUBSET Frames :
        (\A j \in S : desc[j].valid /\ desc[j].pinCnt = 0) /\ Flushed(S)
  BY FlushFileDrops DEF CleanInv
<1>2. CASE i \in S
  BY <1>1, <1>2, FrameCleared DEF Flushed
<1>3. CASE i \notin S
  <2>1. desc'[i] = desc[i]
    BY <1>1, <1>3 DEF Flushed
  <2>2. ASSUME desc[i].valid
        PROVE  disk'[PlaceOf(i)] = disk[PlaceOf(i)]
    <3>1. PlaceOf(i) \in DiskKeys
      BY <2>2, KeyOfValid DEF CleanInv
    <3>2. \A j \in S : PlaceOf(j) # PlaceOf(i)
      BY <1>1, <1>3, <2>2, PlacesDiffer DEF CleanInv
    <3>3. QED
      BY <1>1, <3>1, <3>2, WrittenByPlaces DEF Flushed, CleanInv
  <2>3. QED
    BY <2>1, <2>2, FrameUndisturbed DEF FlushFile, SameOwner, CleanInv
<1>4. QED
  BY <1>2, <1>3

LEMMA DisposePageClean ==
  ASSUME NoAlias, CleanInv,
         NEW c \in Clients, NEW f \in Files, NEW p \in Pages,
         DisposePage(c, f, p), NEW i \in Frames
  PROVE  CleanFrame(i)'
<1> DEFINE v == hash[<<f, p>>]
           own == {h \in held : h.client = c /\ h.file = f /\ h.page = p}
<1>1. TypeOK
  BY DEF CleanInv, PinInv
<1>2. CASE v = NoFrame
  BY <1>2, FrameUndisturbed DEF DisposePage, SameOwner, CleanInv
<1>3. CASE v # NoFrame
  <2>1. /\ desc' = [desc EXCEPT ![v] = Clear]
        /\ disk' = [disk EXCEPT ![Place(f, p)] = Free]
        /\ unsaved' = unsaved \ own
        /\ UNCHANGED bufPool
    BY <1>3 DEF DisposePage
  <2>2. CASE i = v
    BY <1>1, <2>1, <2>2, FrameCleared DEF TypeOK
  <2>3. CASE i # v
    <3>1. \A h \in own : h.frame # i
      BY <2>3 DEF CleanInv, PinInv, PinRest, HandlesHashed
    <3>2. desc[i].valid => disk'[PlaceOf(i)] = disk[PlaceOf(i)]
      BY <1>1, <2>1, <2>3, UncachedPlace DEF CleanInv, TypeOK
    <3>3. desc'[i] = desc[i]
      BY <1>1, <2>1, <2>3 DEF TypeOK
    <3>4. QED
      BY <2>1, <3>1, <3>2, <3>3, FrameUndisturbed DEF SameOwner, CleanInv
  <2>4. QED
    BY <2>2, <2>3
<1>4. QED
  BY <1>2, <1>3

LEMMA NextClean ==
  ASSUME NoAlias, CleanInv, [Next]_vars
  PROVE  CleanInv'
<1>1. PinInv'
  BY NextPins DEF CleanInv
<1> SUFFICES ASSUME NEW i \in Frames PROVE CleanFrame(i)'
  BY <1>1 DEF CleanInv, CleanMatchesDisk, CleanFrame
<1>2. ASSUME NEW c \in Clients, NEW f \in Files, NEW p \in Pages,
             ReadPage(c, f, p) \/ DisposePage(c, f, p)
      PROVE  CleanFrame(i)'
  BY <1>2, ReadPageClean, DisposePageClean
<1>3. ASSUME NEW c \in Clients, NEW f \in Files, AllocPage(c, f)
      PROVE  CleanFrame(i)'
  BY <1>3, AllocPageClean
<1>4. ASSUME NEW h \in held, NEW d \in Data, WriteThrough(h, d)
      PROVE  CleanFrame(i)'
  <2>1. CASE i = h.frame
    BY <1>4, <2>1 DEF WriteThrough, CleanFrame
  <2>2. CASE i # h.frame
    BY <1>4, <2>2, FrameUndisturbed
       DEF WriteThrough, SameOwner, CleanInv, PinInv, TypeOK
  <2>3. QED
    BY <2>1, <2>2
<1>5. ASSUME NEW h \in held, NEW dirty \in BOOLEAN, UnPinPage(h, dirty)
      PROVE  CleanFrame(i)'
  BY <1>5, UnPinPageClean
<1>6. ASSUME NEW f \in Files, NEW p \in Pages, NEW dirty \in BOOLEAN,
             UnPinUnpinned(f, p, dirty)
      PROVE  CleanFrame(i)'
  BY <1>6, UnPinUnpinnedClean
<1>7. ASSUME NEW f \in Files, FlushFile(f)
      PROVE  CleanFrame(i)'
  BY <1>7, FlushFileClean
<1>8. CASE Restart
  BY <1>8, FrameCleared DEF Restart
<1>9. CASE UNCHANGED vars
  BY <1>9, FrameUndisturbed DEF vars, SameOwner, CleanInv
<1>10. QED
  BY <1>2, <1>3, <1>4, <1>5, <1>6, <1>7, <1>8, <1>9 DEF Next

\* Every call of the buffer manager keeps the clean frames equal to the disk.
THEOREM CleanInvAlways ==
  ASSUME NoAlias
  PROVE  Spec => []CleanInv
<1>1. Init => CleanMatchesDisk
  BY ClearType DEF Init, CleanMatchesDisk
<1>2. Init => CleanInv
  BY <1>1, InitPins DEF CleanInv
<1>3. CleanInv /\ [Next]_vars => CleanInv'
  BY NextClean
<1>4. QED
  BY <1>2, <1>3, PTL DEF Spec

\* No update is lost: what a client wrote is in a frame marked dirty, or still
\* to be unpinned by it, or on disk.
THEOREM CleanAlways ==
  ASSUME NoAlias
  PROVE  Spec => []CleanMatchesDisk
<1>1. CleanInv => CleanMatchesDisk
  BY DEF CleanInv
<1>2. QED
  BY <1>1, CleanInvAlways, PTL

-----------------------------------------------------------------------------
(***************************************************************************)
(* The refinement.  What the clients see of a key depends on the hash      *)
(* table, the frames and the disk together; evictions and flushes change   *)
(* all three and not what is seen.                                         *)
(***************************************************************************)
LEMMA SeenCached ==
  ASSUME NEW f \in Files, NEW p \in Pages
  PROVE  /\ hash[<<f, p>>] # NoFrame
              => seen[<<f, p>>] = bufPool[hash[<<f, p>>]]
         /\ hash[<<f, p>>] = NoFrame => seen[<<f, p>>] = disk[Place(f, p)]
BY PlaceType DEF seen

LEMMA SeenCachedNext ==
  ASSUME NEW f \in Files, NEW p \in Pages
  PROVE  /\ hash'[<<f, p>>] # NoFrame
              => seen'[<<f, p>>] = bufPool'[hash'[<<f, p>>]]
         /\ hash'[<<f, p>>] = NoFrame => seen'[<<f, p>>] = disk'[Place(f, p)]
BY PlaceType DEF seen, Place

\* Two states in which every key is seen alike.
LEMMA SeenUnchanged ==
  ASSUME \A f \in Files, p \in Pages : seen'[<<f, p>>] = seen[<<f, p>>]
  PROVE  UNCHANGED seen
<1>1. \A key \in Keys : seen'[key] = seen[key]
  BY DEF Keys
<1>2. seen = [key \in Keys |-> seen[key]] /\ seen' = [key \in Keys |-> seen'[key]]
  BY DEF seen
<1>3. QED
  BY <1>1, <1>2

\* Two states in which one key is seen otherwise.
LEMMA SeenChanged ==
  ASSUME NEW f \in Files, NEW p \in Pages, NEW d, seen'[<<f, p>>] = d,
         \A g \in Files, q \in Pages :
           <<g, q>> # <<f, p>> => seen'[<<g, q>>] = seen[<<g, q>>]
  PROVE  seen' = [seen EXCEPT ![<<f, p>>] = d]
<1>1. ASSUME NEW key \in Keys
      PROVE  seen'[key] = [seen EXCEPT ![<<f, p>>] = d][key]
  <2>1. PICK g \in Files, q \in Pages : key = <<g, q>>
    BY DEF Keys
  <2>2. DOMAIN seen = Keys
    BY DEF seen
  <2>3. QED
    BY <2>1, <2>2
<1>2. seen' = [key \in Keys |-> seen'[key]]
  BY DEF seen
<1>3. [seen EXCEPT ![<<f, p>>] = d]
        = [key \in Keys |-> [seen EXCEPT ![<<f, p>>] = d][key]]
  BY DEF seen
<1>4. QED
  BY <1>1, <1>2, <1>3

\* A frame that nobody pins is marked dirty or holds what the disk holds.
LEMMA UnpinnedClean ==
  ASSUME CleanInv, NEW i \in Frames, desc[i].valid, ~desc[i].dirty,
         desc[i].pinCnt = 0
  PROVE  bufPool[i] = disk[PlaceOf(i)]
<1>1. \A h \in unsaved : h.frame # i
  BY PinnedIffHeld DEF CleanInv, PinInv, TypeOK
<1>2. QED
  BY <1>1 DEF CleanInv, CleanMatchesDisk

\* The victim of allocBuf leaves the hash table and the disk such that every
\* key is seen as before.
LEMMA EvictedSeen ==
  ASSUME NoAlias, CleanInv, NEW k \in Rounds, StopsAt(k),
         NEW f \in Files, NEW p \in Pages
  PROVE  LET i == Unhashed(At(k))[<<f, p>>] IN
           /\ i # At(k)
           /\ hash[<<f, p>>] = NoFrame => i = NoFrame
           /\ seen[<<f, p>>] = IF i # NoFrame THEN bufPool[i]
                               ELSE Written(At(k))[Place(f, p)]
<1> DEFINE v == At(k)
           i == Unhashed(v)[<<f, p>>]
<1>1. v \in Frames /\ desc[v].pinCnt = 0 /\ TypeOK /\ HashSound /\ PinInv
  BY VictimFree DEF CleanInv, PinInv
<1>2. Place(f, p) \in DiskKeys /\ <<f, p>> \in Keys
  BY PlaceType
<1>3. i # v /\ (i # NoFrame => i = hash[<<f, p>>])
  BY <1>1, UnhashedForgets
<1>4. CASE hash[<<f, p>>] = v
  <2>1. desc[v].valid /\ PlaceOf(v) = Place(f, p)
    BY <1>1, <1>4 DEF HashSound, PlaceOf, Frames, NoFrame
  <2>2. i = NoFrame
    BY <1>3, <1>4
  <2>3. Written(v)[Place(f, p)] = bufPool[v]
    BY <1>1, <1>2, <2>1, WrittenPlaces, UnpinnedClean
  <2>4. v # NoFrame
    BY <1>1 DEF Frames, NoFrame
  <2>5. QED
    BY <1>3, <1>4, <2>2, <2>3, <2>4, SeenCached
<1>5. CASE hash[<<f, p>>] # v
  <2>1. i = hash[<<f, p>>]
    <3>1. desc[v].valid => KeyOf(v) # <<f, p>>
      BY <1>1, <1>5, KeyOfValid
    <3>2. QED
      BY <1>1, <1>2, <3>1 DEF Unhashed, TypeOK
  <2>2. Written(v)[Place(f, p)] = disk[Place(f, p)]
    BY <1>1, <1>2, <1>5, UncachedPlace, WrittenPlaces
  <2>3. QED
    BY <1>3, <2>1, <2>2, SeenCached
<1>6. QED
  BY <1>4, <1>5

\* Frames dropped together, each written back if it is dirty.
LEMMA DroppedSeen ==
  ASSUME NoAlias, CleanInv, NEW S \in SUBSET Frames,
         \A i \in S : desc[i].valid,
         \A i \in S : desc[i].dirty \/ bufPool[i] = disk[PlaceOf(i)],
         NEW f \in Files, NEW p \in Pages,
         hash[<<f, p>>] = NoFrame \/ hash[<<f, p>>] \in S
  PROVE  seen[<<f, p>>] = WrittenBy(S)[Place(f, p)]
<1>1. Place(f, p) \in DiskKeys /\ HashSound /\ PinInv
  BY PlaceType DEF CleanInv, PinInv
<1>2. CASE hash[<<f, p>>] = NoFrame
  <2>1. \A i \in S : i # NoFrame
    BY DEF Frames, NoFrame
  <2>2. \A i \in S : PlaceOf(i) # Place(f, p)
    BY <1>1, <1>2, <2>1, UncachedPlace
  <2>3. QED
    BY <1>1, <1>2, <2>2, WrittenByPlaces, SeenCached
<1>3. CASE hash[<<f, p>>] # NoFrame
  <2> DEFINE i == hash[<<f, p>>]
  <2>1. i \in S /\ PlaceOf(i) = Place(f, p)
    BY <1>1, <1>3 DEF HashSound, PlaceOf
  <2>2. WrittenBy(S)[Place(f, p)] = bufPool[i]
    BY <1>1, <2>1, WrittenByPlaces
  <2>3. QED
    BY <1>3, <2>2, SeenCached
<1>4. QED
  BY <1>2, <1>3

-----------------------------------------------------------------------------
(***************************************************************************)
(* Every call is a step of PageStore, or shows nothing.                    *)
(***************************************************************************)
StoreStep == Store!Next \/ UNCHANGED <<seen, holders>>

LEMMA HoldersAdded ==
  ASSUME NEW c, NEW f, NEW p, NEW i, held' = held \cup {NewHandle(c, f, p, i)}
  PROVE  holders' = holders \cup {<<c, f, p>>}
<1> DEFINE n == NewHandle(c, f, p, i)
<1>1. n.client = c /\ n.file = f /\ n.page = p
  BY DEF NewHandle
<1> HIDE DEF n
<1>2. held' = held \cup {n}
  BY DEF n
<1>3. QED
  BY <1>1, <1>2 DEF holders

\* A client that gives up its handle of a page holds that page no more: it had
\* only one.
LEMMA HoldersRemoved ==
  ASSUME PinInv, NEW c \in Clients, NEW f \in Files, NEW p \in Pages,
         held' = {h \in held : ~(h.client = c /\ h.file = f /\ h.page = p)}
  PROVE  holders' = holders \ {<<c, f, p>>}
BY DEF holders

LEMMA OneHandle ==
  ASSUME PinInv, NEW h \in held, NEW g \in held,
         h.client = g.client, h.file = g.file, h.page = g.page
  PROVE  h = g
<1>1. h.frame = g.frame
  BY DEF PinInv, PinRest, HandlesHashed
<1>2. h \in Handle /\ g \in Handle
  BY DEF PinInv, TypeOK
<1>3. QED
  BY <1>1, <1>2 DEF Handle

LEMMA AllocBufThrowsStore ==
  ASSUME NoAlias, CleanInv, AllocBufThrows
  PROVE  UNCHANGED <<seen, holders>>
<1>1. ASSUME NEW k \in Rounds, AllocBufUnhashed(k) \/ AllocBufUnwritable(k)
      PROVE  FALSE
  BY <1>1, VictimFree DEF CleanInv, AllocBufUnhashed, AllocBufUnwritable
<1>2. UNCHANGED <<hash, bufPool, disk, held>>
  BY <1>1 DEF AllocBufThrows, AllocBufExceeded
<1>3. QED
  BY <1>2 DEF seen, holders, Place

LEMMA ReadPageStore ==
  ASSUME NoAlias, CleanInv, NEW c \in Clients, NEW f \in Files, NEW p \in Pages,
         ReadPage(c, f, p)
  PROVE  StoreStep
<1>1. CASE ReadHit(c, f, p)
  <2>1. UNCHANGED seen
    BY <1>1 DEF ReadHit, seen, Place
  <2>2. holders' = holders \cup {<<c, f, p>>}
    BY <1>1, HoldersAdded DEF ReadHit
  <2>3. hash[<<f, p>>] \in Frames /\ hash[<<f, p>>] # NoFrame
    BY <1>1, PlaceType DEF ReadHit, CleanInv, PinInv, TypeOK
  <2>4. seen[<<f, p>>] # Free
    BY <2>3, SeenCached, BufMgrAssumption DEF CleanInv, PinInv, TypeOK
  <2>5. QED
    BY <2>1, <2>2, <2>4 DEF StoreStep, Store!Next, Store!Read
<1>2. ASSUME NEW k \in Rounds, ReadInvalid(f, p, k)
      PROVE  StoreStep
  <2>1. StopsAt(k) /\ UNCHANGED <<bufPool, held>>
    BY <1>2 DEF ReadInvalid, AllocBuf
  <2>2. hash' = Unhashed(At(k)) /\ disk' = Written(At(k))
    BY <1>2 DEF ReadInvalid
  <2>3. ASSUME NEW g \in Files, NEW q \in Pages
        PROVE  seen'[<<g, q>>] = seen[<<g, q>>]
    BY <2>1, <2>2, EvictedSeen, SeenCachedNext
  <2>4. QED
    BY <2>1, <2>3, SeenUnchanged DEF StoreStep, holders
<1>3. ASSUME NEW k \in Rounds, ReadMiss(c, f, p, k), hash[<<f, p>>] = NoFrame
      PROVE  StoreStep
  <2> DEFINE v == At(k)
  <2>1. v \in Frames /\ v # NoFrame /\ StopsAt(k) /\ TypeOK
    BY <1>3, VictimFree DEF ReadMiss, AllocBuf, CleanInv, PinInv, Frames, NoFrame
  <2>2. /\ hash' = [Unhashed(v) EXCEPT ![<<f, p>>] = v]
        /\ disk' = Written(v)
        /\ bufPool' = [bufPool EXCEPT ![v] = Written(v)[Place(f, p)]]
    BY <1>3 DEF ReadMiss
  <2>3. Unhashed(v) \in [Keys -> Frames \cup {NoFrame}] /\ <<f, p>> \in Keys
    BY <2>1, UnhashedType, PlaceType
  <2>4. seen[<<f, p>>] = Written(v)[Place(f, p)]
    BY <1>3, <2>1, EvictedSeen
  <2>5. ASSUME NEW g \in Files, NEW q \in Pages
        PROVE  seen'[<<g, q>>] = seen[<<g, q>>]
    <3>1. CASE <<g, q>> = <<f, p>>
      <4>1. hash'[<<f, p>>] = v /\ bufPool'[v] = Written(v)[Place(f, p)]
        BY <2>1, <2>2, <2>3 DEF TypeOK
      <4>2. QED
        BY <2>1, <2>4, <3>1, <4>1, SeenCachedNext
    <3>2. CASE <<g, q>> # <<f, p>>
      <4> DEFINE i == Unhashed(v)[<<g, q>>]
      <4>1. <<g, q>> \in Keys
        BY PlaceType
      <4>2. hash'[<<g, q>>] = i
        BY <2>2, <2>3, <3>2, <4>1
      <4>3. i # v /\ seen[<<g, q>>] = IF i # NoFrame THEN bufPool[i]
                                     ELSE Written(v)[Place(g, q)]
        BY <2>1, EvictedSeen
      <4>4. i # NoFrame => bufPool'[i] = bufPool[i]
        BY <2>2, <2>3, <4>1, <4>3 DEF TypeOK
      <4>5. QED
        BY <2>2, <4>2, <4>3, <4>4, SeenCachedNext
    <3>3. QED
      BY <3>1, <3>2
  <2>6. UNCHANGED seen
    BY <2>5, SeenUnchanged
  <2>7. holders' = holders \cup {<<c, f, p>>} /\ seen[<<f, p>>] # Free
    BY <1>3, <2>4, HoldersAdded DEF ReadMiss
  <2>8. QED
    BY <2>6, <2>7 DEF StoreStep, Store!Next, Store!Read
<1>4. QED
  BY <1>1, <1>2, <1>3, AllocBufThrowsStore DEF ReadPage, StoreStep

LEMMA AllocPageStore ==
  ASSUME NoAlias, CleanInv, NEW c \in Clients, NEW f \in Files, AllocPage(c, f)
  PROVE  StoreStep
<1>1. ASSUME NEW p \in Pages, NEW k \in Rounds, AllocInto(c, f, p, k)
      PROVE  StoreStep
  <2> DEFINE v == At(k)
  <2>1. v \in Frames /\ v # NoFrame /\ StopsAt(k) /\ TypeOK
    BY <1>1, VictimFree DEF AllocInto, AllocBuf, CleanInv, PinInv, Frames, NoFrame
  <2>2. <<f, p>> \in Keys /\ Place(f, p) \in DiskKeys /\ disk[Place(f, p)] = Free
    BY <1>1, PlaceType DEF AllocInto
  <2>3. hash[<<f, p>>] = NoFrame
    <3>1. SUFFICES ASSUME hash[<<f, p>>] # NoFrame PROVE FALSE
      OBVIOUS
    <3>2. hash[<<f, p>>] \in Frames
      BY <2>1, <2>2, <3>1 DEF TypeOK
    <3>3. /\ desc[hash[<<f, p>>]].valid
          /\ PlaceOf(hash[<<f, p>>]) = Place(f, p)
      BY <3>1 DEF CleanInv, PinInv, HashSound, PlaceOf
    <3>4. QED
      BY <2>2, <3>2, <3>3, KeyOfValid DEF CleanInv
  <2>4. Unhashed(v)[<<f, p>>] = NoFrame /\ seen[<<f, p>>] = Free
    BY <2>1, <2>2, <2>3, EvictedSeen, SeenCached
  <2>5. /\ hash' = [Unhashed(v) EXCEPT ![<<f, p>>] = v]
        /\ disk' = [Written(v) EXCEPT ![Place(f, p)] = Empty]
        /\ bufPool' = [bufPool EXCEPT ![v] = Empty]
        /\ held' = held \cup {NewHandle(c, f, p, v)}
    BY <1>1, <2>4 DEF AllocInto
  <2>6. /\ Unhashed(v) \in [Keys -> Frames \cup {NoFrame}]
        /\ Written(v) \in [DiskKeys -> Data \cup {Free}]
    BY <2>1, UnhashedType, WrittenType
  <2>7. seen'[<<f, p>>] = Empty
    <3>1. hash'[<<f, p>>] = v /\ bufPool'[v] = Empty
      BY <2>1, <2>2, <2>5, <2>6 DEF TypeOK
    <3>2. QED
      BY <2>1, <3>1, SeenCachedNext
  <2>8. ASSUME NEW g \in Files, NEW q \in Pages, <<g, q>> # <<f, p>>
        PROVE  seen'[<<g, q>>] = seen[<<g, q>>]
    <3> DEFINE i == Unhashed(v)[<<g, q>>]
    <3>1. <<g, q>> \in Keys /\ Place(g, q) \in DiskKeys
      BY PlaceType
    <3>2. hash'[<<g, q>>] = i
      BY <2>5, <2>6, <2>8, <3>1
    <3>3. i # v /\ seen[<<g, q>>] = IF i # NoFrame THEN bufPool[i]
                                   ELSE Written(v)[Place(g, q)]
      BY <2>1, EvictedSeen
    <3>4. i # NoFrame => bufPool'[i] = bufPool[i]
      BY <2>5, <2>6, <3>1, <3>3 DEF TypeOK
    <3>5. Place(g, q) # Place(f, p)
      BY <2>8, PlaceOfKey
    <3>6. disk'[Place(g, q)] = Written(v)[Place(g, q)]
      BY <2>5, <2>6, <3>1, <3>5
    <3>7. QED
      BY <3>2, <3>3, <3>4, <3>6, SeenCachedNext
  <2>9. seen' = [seen EXCEPT ![<<f, p>>] = Empty]
    BY <2>7, <2>8, SeenChanged
  <2>10. holders' = holders \cup {<<c, f, p>>}
    BY <2>5, HoldersAdded
  <2>11. QED
    BY <2>4, <2>9, <2>10 DEF StoreStep, Store!Next, Store!Alloc
<1>2. QED
  BY <1>1, AllocBufThrowsStore DEF AllocPage, StoreStep

LEMMA WriteThroughStore ==
  ASSUME CleanInv, NEW h \in held, NEW d \in Data, WriteThrough(h, d)
  PROVE  StoreStep
<1> DEFINE v == h.frame
<1>1. /\ v \in Frames /\ h.file \in Files /\ h.page \in Pages
      /\ KeyOf(v) = <<h.file, h.page>>
      /\ hash[<<h.file, h.page>>] = v
  BY HandleOwner DEF CleanInv, PinInv, PinRest, HandlesHashed, KeyOf
<1>2. v # NoFrame /\ TypeOK
  BY <1>1 DEF Frames, NoFrame, CleanInv, PinInv
<1>3. bufPool' = [bufPool EXCEPT ![v] = d] /\ UNCHANGED <<hash, disk, held>>
  BY DEF WriteThrough
<1>4. seen'[<<h.file, h.page>>] = d
  BY <1>1, <1>2, <1>3, SeenCachedNext DEF TypeOK
<1>5. ASSUME NEW g \in Files, NEW q \in Pages, <<g, q>> # <<h.file, h.page>>
      PROVE  seen'[<<g, q>>] = seen[<<g, q>>]
  <2>1. hash[<<g, q>>] # v
    BY <1>1, <1>2, <1>5 DEF CleanInv, PinInv, HashSound, KeyOf
  <2>2. hash[<<g, q>>] # NoFrame => bufPool'[hash[<<g, q>>]] = bufPool[hash[<<g, q>>]]
    BY <1>2, <1>3, <2>1, PlaceType DEF TypeOK
  <2>3. QED
    BY <1>3, <2>2, SeenCached, SeenCachedNext
<1>6. seen' = [seen EXCEPT ![<<h.file, h.page>>] = d]
  BY <1>1, <1>4, <1>5, SeenChanged
<1>7. h.client \in Clients
  BY <1>2 DEF TypeOK, Handle
<1>8. <<h.client, h.file, h.page>> \in holders /\ UNCHANGED holders
  BY <1>3 DEF holders
<1>9. QED
  BY <1>1, <1>6, <1>7, <1>8 DEF StoreStep, Store!Next, Store!Write

LEMMA UnPinPageStore ==
  ASSUME CleanInv, NEW h \in held, NEW dirty \in BOOLEAN, UnPinPage(h, dirty)
  PROVE  StoreStep
<1>1. h.client \in Clients /\ h.file \in Files /\ h.page \in Pages
  BY DEF CleanInv, PinInv, TypeOK, Handle
<1>2. \A g \in held :
        g = h <=> g.client = h.client /\ g.file = h.file /\ g.page = h.page
  BY OneHandle DEF CleanInv
<1>3. holders' = holders \ {<<h.client, h.file, h.page>>}
  BY <1>1, <1>2, HoldersRemoved DEF UnPinPage, CleanInv
<1>4. UNCHANGED seen
  BY DEF UnPinPage, seen, Place
<1>5. <<h.client, h.file, h.page>> \in holders
  BY DEF holders
<1>6. QED
  BY <1>1, <1>3, <1>4, <1>5 DEF StoreStep, Store!Next, Store!Release

LEMMA FlushFileStore ==
  ASSUME NoAlias, CleanInv, NEW f \in Files, FlushFile(f)
  PROVE  UNCHANGED <<seen, holders>>
<1>1. PICK S \in SUBSET Frames :
        (\A i \in S : desc[i].valid /\ desc[i].pinCnt = 0) /\ Flushed(S)
  BY FlushFileDrops DEF CleanInv
<1>2. \A i \in S : desc[i].dirty \/ bufPool[i] = disk[PlaceOf(i)]
  BY <1>1, UnpinnedClean
<1>3. UNCHANGED <<bufPool, held>> /\ disk' = WrittenBy(S)
  BY <1>1 DEF FlushFile, Flushed
<1>4. ASSUME NEW g \in Files, NEW q \in Pages
      PROVE  seen'[<<g, q>>] = seen[<<g, q>>]
  <2>1. <<g, q>> \in Keys
    BY PlaceType
  <2>2. (\E i \in S : KeyOf(i) = <<g, q>>) <=> hash[<<g, q>>] \in S
    <3>1. ASSUME NEW i \in S, KeyOf(i) = <<g, q>>
          PROVE  hash[<<g, q>>] = i
      BY <1>1, <3>1, KeyOfValid DEF CleanInv
    <3>2. ASSUME hash[<<g, q>>] \in S
          PROVE  KeyOf(hash[<<g, q>>]) = <<g, q>>
      BY <3>2 DEF CleanInv, PinInv, HashSound, KeyOf, Frames, NoFrame
    <3>3. QED
      BY <3>1, <3>2
  <2>3. hash'[<<g, q>>] = IF hash[<<g, q>>] \in S THEN NoFrame ELSE hash[<<g, q>>]
    BY <1>1, <2>1, <2>2 DEF Flushed
  <2>4. CASE hash[<<g, q>>] = NoFrame \/ hash[<<g, q>>] \in S
    BY <1>1, <1>2, <1>3, <2>3, <2>4, DroppedSeen, SeenCachedNext
  <2>5. CASE hash[<<g, q>>] # NoFrame /\ hash[<<g, q>>] \notin S
    BY <1>3, <2>3, <2>5, SeenCached, SeenCachedNext
  <2>6. QED
    BY <2>4, <2>5
<1>5. QED
  BY <1>3, <1>4, SeenUnchanged DEF holders

LEMMA DisposePageStore ==
  ASSUME NoAlias, CleanInv,
         NEW c \in Clients, NEW f \in Files, NEW p \in Pages,
         DisposePage(c, f, p)
  PROVE  StoreStep
<1> DEFINE v == hash[<<f, p>>]
<1>1. CASE v = NoFrame
  BY <1>1 DEF DisposePage, StoreStep, seen, holders, Place
<1>2. CASE v # NoFrame
  <2>1. <<f, p>> \in Keys /\ Place(f, p) \in DiskKeys /\ TypeOK /\ v \in Frames
    BY <1>2, PlaceType DEF CleanInv, PinInv, TypeOK
  <2>2. /\ hash' = [hash EXCEPT ![<<f, p>>] = NoFrame]
        /\ disk' = [disk EXCEPT ![Place(f, p)] = Free]
        /\ held' = held \ {h \in held : h.client = c /\ h.file = f /\ h.page = p}
        /\ UNCHANGED bufPool
    BY <1>2 DEF DisposePage
  <2>3. seen[<<f, p>>] # Free
    BY <1>2, <2>1, SeenCached, BufMgrAssumption DEF TypeOK
  <2>4. seen'[<<f, p>>] = Free
    BY <2>1, <2>2, SeenCachedNext DEF TypeOK
  <2>5. ASSUME NEW g \in Files, NEW q \in Pages, <<g, q>> # <<f, p>>
        PROVE  seen'[<<g, q>>] = seen[<<g, q>>]
    <3>1. <<g, q>> \in Keys /\ Place(g, q) \in DiskKeys
          /\ Place(g, q) # Place(f, p)
      BY <2>5, PlaceType, PlaceOfKey
    <3>2. hash'[<<g, q>>] = hash[<<g, q>>] /\ disk'[Place(g, q)] = disk[Place(g, q)]
      BY <2>1, <2>2, <2>5, <3>1 DEF TypeOK
    <3>3. QED
      BY <2>2, <3>2, SeenCached, SeenCachedNext
  <2>6. seen' = [seen EXCEPT ![<<f, p>>] = Free]
    BY <2>4, <2>5, SeenChanged
  <2>7. holders' = holders \ {<<c, f, p>>}
    BY <2>2, HoldersRemoved DEF CleanInv
  <2>8. QED
    BY <2>3, <2>6, <2>7 DEF StoreStep, Store!Next, Store!Dispose
<1>3. QED
  BY <1>1, <1>2

\* ~BufMgr writes what is dirty, and what is not is on disk already, for every
\* client has unpinned what it wrote.
LEMMA RestartStore ==
  ASSUME NoAlias, CleanInv, Restart
  PROVE  StoreStep
<1> DEFINE S == {i \in Frames : desc[i].valid}
<1>1. \A i \in S : desc[i].dirty \/ bufPool[i] = disk[PlaceOf(i)]
  BY DEF Restart, CleanInv, CleanMatchesDisk
<1>2. ASSUME NEW f \in Files, NEW p \in Pages
      PROVE  seen'[<<f, p>>] = seen[<<f, p>>]
  <2>1. hash'[<<f, p>>] = NoFrame /\ disk' = WrittenBy(S)
    BY PlaceType DEF Restart
  <2>2. hash[<<f, p>>] = NoFrame \/ hash[<<f, p>>] \in S
    BY PlaceType DEF CleanInv, PinInv, TypeOK, HashSound
  <2>3. seen[<<f, p>>] = WrittenBy(S)[Place(f, p)]
    <3>1. S \in SUBSET Frames /\ \A i \in S : desc[i].valid
      OBVIOUS
    <3> HIDE DEF S
    <3>2. QED
      BY <1>1, <2>2, <3>1, DroppedSeen
  <2>4. QED
    BY <2>1, <2>3, SeenCachedNext
<1>3. UNCHANGED seen
  BY <1>2, SeenUnchanged
<1>4. holders' = {}
  BY DEF Restart, holders
<1>5. QED
  BY <1>3, <1>4 DEF StoreStep, Store!Next, Store!Close

LEMMA NextStore ==
  ASSUME NoAlias, CleanInv, [Next]_vars
  PROVE  [Store!Next]_(Store!storeVars)
<1> SUFFICES StoreStep
  BY DEF StoreStep, Store!storeVars
<1>1. ASSUME NEW c \in Clients, NEW f \in Files, NEW p \in Pages,
             ReadPage(c, f, p) \/ DisposePage(c, f, p)
      PROVE  StoreStep
  BY <1>1, ReadPageStore, DisposePageStore
<1>2. ASSUME NEW c \in Clients, NEW f \in Files, AllocPage(c, f)
      PROVE  StoreStep
  BY <1>2, AllocPageStore
<1>3. ASSUME NEW h \in held, NEW d \in Data, WriteThrough(h, d)
      PROVE  StoreStep
  BY <1>3, WriteThroughStore
<1>4. ASSUME NEW h \in held, NEW dirty \in BOOLEAN, UnPinPage(h, dirty)
      PROVE  StoreStep
  BY <1>4, UnPinPageStore
<1>5. CASE UNCHANGED <<hash, bufPool, disk, held>>
  BY <1>5 DEF StoreStep, seen, holders, Place
<1>6. ASSUME NEW f \in Files, FlushFile(f)
      PROVE  StoreStep
  BY <1>6, FlushFileStore DEF StoreStep
<1>7. CASE Restart
  BY <1>7, RestartStore
<1>8. QED
  BY <1>1, <1>2, <1>3, <1>4, <1>5, <1>6, <1>7 DEF Next, vars, UnPinUnpinned

\* The buffer manager implements PageStore: a client that reads a page gets
\* what was last written to it, and no call changes a page but the one it is
\* asked to allocate, write or dispose of, whatever is evicted or flushed.
THEOREM ImplementsStore ==
  ASSUME NoAlias
  PROVE  Spec => StoreSpec
<1>1. Init => Store!Init
  <2> SUFFICES ASSUME Init PROVE Store!Init
    OBVIOUS
  <2>1. \A key \in Keys : hash[key] = NoFrame /\ disk[Place(key[1], key[2])] = Free
    BY BufMgrAssumption DEF Init, Keys, DiskKeys, Place
  <2>2. seen = [key \in Files \X Pages |-> Free]
    BY <2>1 DEF seen, Keys
  <2>3. holders = {}
    BY DEF Init, holders
  <2>4. QED
    BY <2>2, <2>3 DEF Store!Init
<1>2. CleanInv /\ [Next]_vars => [Store!Next]_(Store!storeVars)
  BY NextStore
<1>3. QED
  BY <1>1, <1>2, CleanInvAlways, PTL DEF Spec, StoreSpec, Store!Spec

=============================================================================
