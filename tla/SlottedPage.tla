---------------------------- MODULE SlottedPage ----------------------------
(***************************************************************************)
(* A page of records (src/p3/src/page.cpp; that of project 2 has the same  *)
(* code over another buffer): a slot array that grows from the bottom of   *)
(* the data area and records packed against its top.  A cell stands for    *)
(* the bytes of one PageSlot, so a slot is one cell and records are some   *)
(* cells long; a slot is read from whatever its cell holds.                *)
(*                                                                         *)
(* Callers use the ids of records that are there.  SlotInUseException and  *)
(* the failed assertion end the program: no caller catches the one.        *)
(***************************************************************************)
EXTENDS Integers, Sequences, FiniteSets, FiniteSetsExt

CONSTANTS
  DATA_SIZE,   \* cells of the data area
  Contents,    \* what the bytes of a cell of a record can be
  LooksUsed,   \* those that make a slot read from them look used
  Lengths      \* lengths of records

ASSUME SizeAssumption == DATA_SIZE \in Nat /\ Lengths \subseteq Nat

VARIABLES
  header_,     \* bounds of the free space, slots and unused slots
  data_,       \* the cells
  cursor,      \* a PageIterator: the slot it is at, or NotBegun
  failed,      \* SlotInUseException was thrown
  ahead,       \* history: slots the iterator has still to come to
  moved        \* history: a deletion moved other records

vars == <<header_, data_, cursor, failed, ahead, moved>>

INVALID_SLOT == 0
NotBegun == -1
Zero == [kind |-> "zero"]
Byte(c) == [kind |-> "data", byte |-> c]
PageSlot(used, offset, length) ==
  [kind |-> "slot", used |-> used, item_offset |-> offset, item_length |-> length]
Records == {[i \in 1 .. n |-> Byte(c)] : n \in Lengths, c \in Contents}

initialize ==
  /\ header_ = [free_space_lower_bound |-> 0, free_space_upper_bound |-> DATA_SIZE,
                num_slots |-> 0, num_free_slots |-> 0]
  /\ data_ = [i \in 0 .. DATA_SIZE - 1 |-> Zero]

Init == initialize /\ cursor = NotBegun /\ failed = FALSE /\ ahead = {} /\ moved = FALSE
-----------------------------------------------------------------------------
\* A page p is a pair of a header h and the data d.
getSlot(d, i) ==
  LET c == d[i - 1]
  IN  IF c.kind = "slot" THEN c
      ELSE PageSlot(c.kind = "data" /\ c.byte \in LooksUsed, 0, 0)

Slots(h) == 1 .. h.num_slots
UsedSlots(h, d) == {i \in Slots(h) : getSlot(d, i).used}
getFreeSpace(h) == h.free_space_upper_bound - h.free_space_lower_bound

hasSpaceForRecord(h, length) ==
  length + (IF h.num_free_slots = 0 THEN 1 ELSE 0) <= getFreeSpace(h)

\* The first unused slot, or a new one behind the last.
getAvailableSlot(h, d) ==
  IF h.num_free_slots > 0 THEN Min(Slots(h) \ UsedSlots(h, d)) ELSE h.num_slots + 1

\* The header with the slot counted, before a record is put in it.
Allocated(h) ==
  IF h.num_free_slots > 0 THEN h
  ELSE [h EXCEPT !.num_slots = @ + 1, !.num_free_slots = @ + 1,
                 !.free_space_lower_bound = h.num_slots + 1]

\* insertRecordInSlot: the header and the data with the record in the slot.
HeaderWith(h, record) ==
  [h EXCEPT !.free_space_upper_bound = @ - Len(record), !.num_free_slots = @ - 1]

DataWith(h, d, i, record) ==
  LET offset == h.free_space_upper_bound - Len(record)
  IN  [c \in DOMAIN d |->
         IF c = i - 1 THEN PageSlot(TRUE, offset, Len(record))
         ELSE IF c \in offset .. offset + Len(record) - 1 THEN record[c - offset + 1]
         ELSE d[c]]
-----------------------------------------------------------------------------
(***************************************************************************)
(* deleteRecord: the record is zeroed, the records below it are moved up   *)
(* over it, and their old cells stay as they were.                         *)
(***************************************************************************)
\* Zeroed as it would be without the loop that clears the record.
ZeroedNot(d, slot) == d

Zeroed(d, slot) ==
  [c \in DOMAIN d |->
     IF c \in slot.item_offset .. slot.item_offset + slot.item_length - 1
     THEN Zero ELSE d[c]]

\* ToMove as it would be without the look at the used flag.
ToMoveUnused(h, d, slot) ==
  {i \in Slots(h) : getSlot(d, i).item_offset < slot.item_offset}

\* The slots of the records to move: those below the record deleted.
ToMove(h, d, slot) ==
  {i \in UsedSlots(h, d) : getSlot(d, i).item_offset < slot.item_offset}

move_offset(h, d, slot) ==
  Min({slot.item_offset} \cup {getSlot(d, i).item_offset : i \in ToMove(h, d, slot)})
move_bytes(h, d, slot) ==
  MapThenSumSet(LAMBDA i : getSlot(d, i).item_length, ToMove(h, d, slot))

Compacted(h, d, number) ==
  LET slot  == getSlot(d, number)
      z     == Zeroed(d, slot)
      first == move_offset(h, d, slot) + slot.item_length
      Moved(i) == PageSlot(TRUE, getSlot(d, i).item_offset + slot.item_length,
                           getSlot(d, i).item_length)
  IN  [c \in DOMAIN d |->
         CASE c + 1 = number -> PageSlot(FALSE, 0, 0)
           [] c + 1 \in ToMove(h, d, slot) -> Moved(c + 1)
           [] c \in first .. first + move_bytes(h, d, slot) - 1 ->
                z[c - slot.item_length]
           [] OTHER -> z[c]]

Freed(h, slot) ==
  [h EXCEPT !.free_space_upper_bound = @ + slot.item_length, !.num_free_slots = @ + 1]

\* SlotsLeft as it would be if only the slot itself were freed.
SlotsLeftBefore(h, d, number) ==
  IF number < h.num_slots THEN h.num_slots ELSE h.num_slots - 1

\* Deleting the record of the last slot frees the unused slots at the end.
SlotsLeft(h, d, number) ==
  IF number < h.num_slots THEN h.num_slots
  ELSE Max({0} \cup (UsedSlots(h, d) \ {number}))

Trimmed(h, n) ==
  [h EXCEPT !.num_slots = n, !.num_free_slots = @ - (h.num_slots - n),
            !.free_space_lower_bound = n]
-----------------------------------------------------------------------------
Running == ~ failed

insertRecord(record) ==
  LET i == getAvailableSlot(header_, data_)
      h == Allocated(header_)
  IN  /\ Running
      /\ hasSpaceForRecord(header_, Len(record))
      /\ ~ getSlot(data_, i).used
      /\ header_' = HeaderWith(h, record)
      /\ data_' = DataWith(h, data_, i, record)
      /\ UNCHANGED <<cursor, failed, ahead, moved>>

\* A new slot on bytes that a moved record left behind looks used.
insertInUse(record) ==
  LET i == getAvailableSlot(header_, data_)
  IN  /\ Running
      /\ hasSpaceForRecord(header_, Len(record))
      /\ getSlot(data_, i).used
      /\ header_' = Allocated(header_)
      /\ failed' = TRUE
      /\ UNCHANGED <<data_, cursor, ahead, moved>>

\* The slot is kept although it may be the last.
updateRecord(number, record) ==
  LET slot == getSlot(data_, number)
      h    == Freed(header_, slot)
  IN  /\ Running
      /\ Len(record) <= getFreeSpace(header_) + slot.item_length
      /\ header_' = HeaderWith(h, record)
      /\ data_' = DataWith(h, Compacted(header_, data_, number), number, record)
      /\ moved' = (moved \/ move_bytes(header_, data_, slot) > 0)
      /\ UNCHANGED <<cursor, failed, ahead>>

deleteRecord(number) ==
  LET slot == getSlot(data_, number)
  IN  /\ Running
      /\ header_' = Trimmed(Freed(header_, slot), SlotsLeft(header_, data_, number))
      /\ data_' = Compacted(header_, data_, number)
      /\ moved' = (moved \/ move_bytes(header_, data_, slot) > 0)
      /\ ahead' = ahead \ {number}
      /\ UNCHANGED <<cursor, failed>>

\* getNextUsedSlot as it would be if the loop began one slot too far.
getNextUsedSlotSkipping(start) ==
  LET after == {i \in UsedSlots(header_, data_) : i > start + 1}
  IN  IF after = {} THEN INVALID_SLOT ELSE Min(after)

getNextUsedSlot(start) ==
  LET after == {i \in UsedSlots(header_, data_) : i > start}
  IN  IF after = {} THEN INVALID_SLOT ELSE Min(after)

begin ==
  /\ Running /\ cursor \in {NotBegun, INVALID_SLOT}
  /\ cursor' = getNextUsedSlot(INVALID_SLOT)
  /\ ahead' = UsedSlots(header_, data_) \ {cursor'}
  /\ UNCHANGED <<header_, data_, failed, moved>>

advance ==
  /\ Running /\ cursor \notin {NotBegun, INVALID_SLOT}
  /\ cursor' = getNextUsedSlot(cursor)
  /\ ahead' = ahead \ {cursor'}
  /\ UNCHANGED <<header_, data_, failed, moved>>

Next ==
  \/ \E record \in Records :
       \/ insertRecord(record) \/ insertInUse(record)
       \/ \E number \in UsedSlots(header_, data_) : updateRecord(number, record)
  \/ \E number \in UsedSlots(header_, data_) : deleteRecord(number)
  \/ begin \/ advance

Spec == Init /\ [][Next]_vars
-----------------------------------------------------------------------------
(***************************************************************************)
(* Correctness.                                                            *)
(***************************************************************************)
\* getRecord of a slot in use.
getRecord(number) ==
  LET slot == getSlot(data_, number)
  IN  [k \in 1 .. slot.item_length |-> data_[slot.item_offset + k - 1]]

\* The slot that insertRecord found in use holds no record.
Stored == UsedSlots(header_, data_) \ (IF failed THEN {header_.num_slots} ELSE {})

Store == INSTANCE RecordStore WITH
  Numbers <- 1 .. DATA_SIZE,
  records <- [n \in Stored |-> getRecord(n)]

\* "Although a record's actual contents may be moved on the page, accessing
\* a record by its slot is consistent." (page.h:103): a call changes the
\* record it names and no other, wherever deleteRecord (page.cpp:75) and
\* updateRecord (page.cpp:54) move the bytes.  Records of no bytes break it:
\* one may lie below the packed records, and the move then starts there.
StoreSpec == Store!Spec

\* The header accounts for every cell between two calls: the records fill
\* the space above the upper bound, the slots that below the lower bound,
\* the unused slots are counted and the last slot is used (page.cpp:75).
SpaceAccounted ==
  Running =>
    LET used == UsedSlots(header_, data_)
    IN  /\ header_.free_space_lower_bound = header_.num_slots
        /\ header_.free_space_lower_bound <= header_.free_space_upper_bound
        /\ DATA_SIZE - header_.free_space_upper_bound =
             MapThenSumSet(LAMBDA i : getSlot(data_, i).item_length, used)
        /\ header_.num_free_slots = header_.num_slots - Cardinality(used)
        /\ header_.num_slots > 0 => header_.num_slots \in used

\* insertRecord finds its new slot in use (page.cpp:185) only after a
\* deletion or an update that moved other records and left their old bytes
\* in the free space: the record deleted itself is zeroed (page.cpp:80).
InUseOnlyAfterMove == failed => moved

\* An iterator (page_iterator.h:61) that is used while records are inserted,
\* updated and deleted comes to every record that was on the page when it
\* began and still is.
IteratorMissesNone == cursor = INVALID_SLOT => ahead = {}
=============================================================================
