-------------------------- MODULE MCAuctionParser --------------------------
(* Two items, in one file or two.  The users of an item are few but differ *)
(* in what is missing and in what is known.                                *)
EXTENDS AuctionParser

User(u, r, l) == [uid |-> u, rating |-> r, location |-> l]
SomeUsers ==
  {User("u1", None, None), User("u1", "r", None), User("u1", None, "v"),
   User("u1", "r", "w"), User("u1", "s", Null), User(Null, "r", "v")}

SomeFields == <<"rating", "location">>

SomeItems ==
  [id : {1, 2}, categories : {None, <<"a", "b", "a">>},
   bids : {None} \cup {<<u>> : u \in SomeUsers}, seller : SomeUsers,
   buy_price : {"p"}]
  \cup
  [id : {1}, categories : {<<"b">>}, bids : {<<u, u>> : u \in SomeUsers},
   seller : SomeUsers, buy_price : {None}]

SomeInputs ==
  {<<<<i>>, <<j>>>> : i \in SomeItems, j \in {k \in SomeItems : k.categories # None}}
  \cup {<<<<i, j>>>> : i \in {k \in SomeItems : k.id = 1}, j \in {k \in SomeItems : k.categories = None}}
=============================================================================
