--------------------------- MODULE AuctionParser ---------------------------
(***************************************************************************)
(* The parser of project 5 (src/p5): items of JSON files become the rows   *)
(* of five tables, written to .dat files at the end.  debug_parser.py is   *)
(* parser.py with a record of the keys that were null.                     *)
(*                                                                         *)
(* An item is its id, its categories, its bids, its seller and what else   *)
(* it has; a user, who is met as bidder and as seller, has an id and       *)
(* Fields.  Dates, prices and quoting are left out, but for one: the text  *)
(* Null reads, when quoted, like a missing value.                          *)
(***************************************************************************)
EXTENDS Integers, Sequences, FiniteSets, SequencesExt

CONSTANTS
  Inputs,   \* the lists of files the program may be given
  Fields,   \* the fields of a user, in the order they are looked up
  None,     \* a value that is missing
  Null      \* the text NULL

IsSeq(s) == s \in Seq(ToSet(s))

\* A file is a list of items, an item may have lists of categories and bids.
ASSUME InputsAssumption ==
  \A input \in Inputs :
    /\ IsSeq(input)
    /\ \A n \in DOMAIN input : IsSeq(input[n])
    /\ \A n \in DOMAIN input : \A k \in DOMAIN input[n] :
         /\ input[n][k].categories = None \/ IsSeq(input[n][k].categories)
         /\ input[n][k].bids = None \/ IsSeq(input[n][k].bids)

ASSUME FieldsAssumption == IsSeq(Fields)

VARIABLES
  files,      \* the files, each a sequence of items
  fileNo, itemNo, stage,
  categories, \* c: the names; the position is the uid
  users,      \* u
  bids,       \* b
  items,      \* i
  categorizations,  \* ci
  gnullmap, logged, \* debug_parser: the files each key was null in
  dat         \* the tables written, and the global null map

tables == <<categories, users, bids, items, categorizations>>
nulls == <<gnullmap, logged>>
vars == <<files, fileNo, itemNo, stage, tables, nulls, dat>>

\* The files written at the end; the last, the global null map, is
\* debug_parser's.
DatFiles == <<"category", "user", "bid", "item", "categorization", "nullmap">>

Init ==
  /\ files \in Inputs
  /\ fileNo = 1 /\ itemNo = 1 /\ stage = "category"
  /\ categories = <<>> /\ users = <<>> /\ bids = <<>>
  /\ items = <<>> /\ categorizations = <<>>
  /\ gnullmap = <<>> /\ logged = FALSE
  /\ dat = <<>>

Item == files[fileNo][itemNo]

\* The categories and the bids of an item.
Named(item) == IF item.categories = None THEN <<>> ELSE item.categories
Made(item) == IF item.bids = None THEN <<>> ELSE item.bids
-----------------------------------------------------------------------------
(***************************************************************************)
(* data_models.py                                                          *)
(***************************************************************************)
\* add_if_absent as it would be if it added what it has.
ListedAgain(seq, x) == Append(seq, x)

\* add_if_absent.
Listed(seq, x) == IF Contains(seq, x) THEN seq ELSE Append(seq, x)

AllListed(seq, new) == FoldLeft(Listed, seq, new)

\* saferstr, as far as it makes two values one.
safer(value) == IF value = Null THEN None ELSE value

Row(user) == [f \in ToSet(Fields) \cup {"uid"} |-> safer(user[f])]

\* Filled as it would be if the last value won.
FilledLast(row, user) ==
  [f \in DOMAIN row |-> IF user[f] # None THEN safer(user[f]) ELSE row[f]]

\* A field that is null takes the value that comes.
Filled(row, user) ==
  [f \in DOMAIN row |-> IF row[f] = None THEN safer(user[f]) ELSE row[f]]

smart_add(rows, user) ==
  IF \E i \in DOMAIN rows : rows[i].uid = safer(user.uid)
  THEN [i \in DOMAIN rows |->
          IF rows[i].uid = safer(user.uid) THEN Filled(rows[i], user) ELSE rows[i]]
  ELSE Append(rows, Row(user))

AllAdded(rows, made) == FoldLeft(smart_add, rows, made)
-----------------------------------------------------------------------------
(***************************************************************************)
(* _log_if_none of debug_parser.py.  One flag says of all keys whether the *)
(* file has been listed.                                                   *)
(***************************************************************************)
\* map with a list for a key that has none.
Begun(map, key) ==
  [x \in DOMAIN map \cup {key} |-> IF x \in DOMAIN map THEN map[x] ELSE <<fileNo>>]

\* Logged as it would be if a key seen before were never listed again, nor
\* a new one once the file has been listed.
LogOnce(log, key) ==
  IF log.logged THEN log
  ELSE [map |-> IF key \in DOMAIN log.map
                THEN [log.map EXCEPT ![key] = Append(@, fileNo)]
                ELSE Begun(log.map, key),
        logged |-> TRUE]

LogIfNone(log, key) ==
  IF key \notin DOMAIN log.map
  THEN [map |-> Begun(log.map, key), logged |-> TRUE]
  ELSE IF ~ log.logged
  THEN [map |-> [log.map EXCEPT ![key] = Append(@, fileNo)], logged |-> TRUE]
  ELSE log

AllLogged(log, keys) == FoldLeft(LogIfNone, log, keys)

Log(keys) ==
  LET log == AllLogged([map |-> gnullmap, logged |-> logged], keys)
  IN  gnullmap' = log.map /\ logged' = log.logged

NullFields(role, user) ==
  FoldLeft(LAMBDA keys, f : IF user[f] = None THEN Append(keys, <<role, f>>) ELSE keys,
           <<>>, Fields)

\* The keys that are null, in the order they are looked up.
CategoryNulls(item) == IF item.categories = None THEN <<<<"Category">>>> ELSE <<>>
BidNulls(item) ==
  IF item.bids = None THEN <<<<"Bids">>>>
  ELSE FlattenSeq([i \in DOMAIN item.bids |-> NullFields("Bidder", item.bids[i])])
ItemNulls(item) ==
  NullFields("Seller", item.seller)
  \o (IF item.buy_price = None THEN <<<<"Buy_Price">>>> ELSE <<>>)
-----------------------------------------------------------------------------
(***************************************************************************)
(* Parser.parse: the three parts of an item in turn.                       *)
(***************************************************************************)
At(s) == fileNo <= Len(files) /\ itemNo <= Len(files[fileNo]) /\ stage = s

PlaceOf(seq, x) == SelectInSeq(seq, LAMBDA y : y = x)

ParseCategory ==
  LET all == AllListed(categories, Named(Item))
      Pair(name) == [item |-> Item.id, cate |-> PlaceOf(all, name)]
  IN  /\ At("category")
      /\ categories' = all
      /\ categorizations' =
           AllListed(categorizations,
                     [i \in DOMAIN Named(Item) |-> Pair(Named(Item)[i])])
      /\ Log(CategoryNulls(Item))
      /\ stage' = "bid"
      /\ UNCHANGED <<files, fileNo, itemNo, users, bids, items, dat>>

ParseBid ==
  LET Bid(by) == [user |-> safer(by.uid), item |-> Item.id]
  IN  /\ At("bid")
      /\ users' = AllAdded(users, Made(Item))
      /\ bids' = bids \o [i \in DOMAIN Made(Item) |-> Bid(Made(Item)[i])]
      /\ Log(BidNulls(Item))
      /\ stage' = "item"
      /\ UNCHANGED <<files, fileNo, itemNo, categories, items, categorizations, dat>>

\* ItemData.add asserts that the item is new.
ParseItem ==
  /\ At("item")
  /\ \A i \in DOMAIN items : items[i].id # Item.id
  /\ users' = smart_add(users, Item.seller)
  /\ items' = Append(items, [id |-> Item.id, seller |-> safer(Item.seller.uid)])
  /\ Log(ItemNulls(Item))
  /\ stage' = "category" /\ itemNo' = itemNo + 1
  /\ UNCHANGED <<files, fileNo, categories, bids, categorizations, dat>>

\* An item met twice: AssertionError ends the program before it has written
\* anything.
ParseItemAgain ==
  /\ At("item")
  /\ \E i \in DOMAIN items : items[i].id = Item.id
  /\ stage' = "died"
  /\ users' = smart_add(users, Item.seller)
  /\ Log(ItemNulls(Item))
  /\ UNCHANGED <<files, fileNo, itemNo, categories, bids, items, categorizations, dat>>

\* set_file of the next.
NextFile ==
  /\ fileNo <= Len(files) /\ itemNo > Len(files[fileNo]) /\ stage = "category"
  /\ fileNo' = fileNo + 1 /\ itemNo' = 1
  /\ logged' = FALSE
  /\ UNCHANGED <<files, stage, tables, gnullmap, dat>>

\* The tables are written one after the other and emptied.
Table(name) ==
  CASE name = "category" -> categories
    [] name = "user" -> users
    [] name = "bid" -> bids
    [] name = "item" -> items
    [] name = "categorization" -> categorizations
    [] name = "nullmap" -> gnullmap

Flush ==
  /\ fileNo > Len(files) /\ Len(dat) < Len(DatFiles)
  /\ LET name == DatFiles[Len(dat) + 1] IN
       /\ dat' = Append(dat, Table(name))
       /\ categories' = IF name = "category" THEN <<>> ELSE categories
       /\ users' = IF name = "user" THEN <<>> ELSE users
       /\ bids' = IF name = "bid" THEN <<>> ELSE bids
       /\ items' = IF name = "item" THEN <<>> ELSE items
       /\ categorizations' =
            IF name = "categorization" THEN <<>> ELSE categorizations
       /\ gnullmap' = IF name = "nullmap" THEN <<>> ELSE gnullmap
  /\ UNCHANGED <<files, fileNo, itemNo, stage, logged>>

Next ==
  ParseCategory \/ ParseBid \/ ParseItem \/ ParseItemAgain \/ NextFile \/ Flush

Spec == Init /\ [][Next]_vars
-----------------------------------------------------------------------------
(***************************************************************************)
(* Properties.                                                             *)
(***************************************************************************)
\* The users met so far, in the order they were.
UsersOf(item) == Made(item) \o <<item.seller>>

MetIn(n, m) == FlattenSeq([k \in 1 .. m |-> UsersOf(files[n][k])])

Met ==
  FlattenSeq([n \in 1 .. fileNo - 1 |-> MetIn(n, Len(files[n]))])
  \o (IF fileNo <= Len(files) THEN MetIn(fileNo, itemNo - 1) ELSE <<>>)

FirstKnown(met, uid, f) ==
  LET known == {i \in DOMAIN met : safer(met[i].uid) = uid /\ safer(met[i][f]) # None}
  IN  IF known = {} THEN None ELSE met[Min(known)][f]

Merged(rows, met) ==
  /\ {rows[i].uid : i \in DOMAIN rows} = {safer(met[i].uid) : i \in DOMAIN met}
  /\ \A i, j \in DOMAIN rows : rows[i].uid = rows[j].uid => i = j
  /\ \A i \in DOMAIN rows, f \in ToSet(Fields) :
       rows[i][f] = FirstKnown(met, rows[i].uid, f)

\* Between two items each user met has one row, whether met as bidder, as
\* seller or both, and each field of it is the first that was known, in
\* whichever of the files and roles.
UsersMerged == stage = "category" /\ Len(dat) < 2 => Merged(users, Met)

Column(rows, f) == {rows[i][f] : i \in DOMAIN rows}
Unique(rows) == \A i, j \in DOMAIN rows : rows[i] = rows[j] => i = j

\* The files written load into the tables of create.sql: keys are unique,
\* and a row that refers to another finds it (the item_id of a bid is an
\* item's, where create.sql:52 refers to a column User does not have).
KeysHold ==
  Len(dat) = Len(DatFiles) =>
    LET category == dat[1]  user == dat[2]  bid == dat[3]
        item == dat[4]  categorization == dat[5]
    IN  /\ Unique(category) /\ Unique(categorization)
        /\ Cardinality(Column(user, "uid")) = Len(user)
        /\ Cardinality(Column(item, "id")) = Len(item)
        /\ Column(bid, "user") \cup Column(item, "seller") \subseteq Column(user, "uid")
        /\ Column(bid, "item") \cup Column(categorization, "item")
             \subseteq Column(item, "id")
        /\ Column(categorization, "cate") \subseteq DOMAIN category

NullKeys(n, m) ==
  UNION {ToSet(CategoryNulls(files[n][k]) \o BidNulls(files[n][k])
               \o ItemNulls(files[n][k])) : k \in 1 .. m}

\* Every key that was null is in the global null map from the first file it
\* was null in, and each file is listed for one key at least; it need not
\* be listed for every key that was null in it.
NullKeysKnown ==
  stage = "category" =>
    LET map == IF Len(dat) = Len(DatFiles) THEN Last(dat) ELSE gnullmap
        parsed == IF fileNo <= Len(files) THEN itemNo - 1 ELSE 0
        Keys(n) == NullKeys(n, IF n < fileNo THEN Len(files[n]) ELSE parsed)
        begun == {n \in 1 .. Len(files) : n <= fileNo}
    IN  /\ DOMAIN map = UNION {Keys(n) : n \in begun}
        /\ \A key \in DOMAIN map :
             /\ key \in Keys(map[key][1])
             /\ \A n \in begun : n < map[key][1] => key \notin Keys(n)
             /\ \A i \in DOMAIN map[key] : key \in Keys(map[key][i])
        /\ \A n \in begun : Keys(n) # {} =>
             \E key \in Keys(n) : Contains(map[key], n)
=============================================================================
