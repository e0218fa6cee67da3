------------------------------ MODULE PageStore ------------------------------
(***************************************************************************)
(* What the buffer manager promises to its clients: a store of pages that  *)
(* changes only when a client allocates, writes or disposes of a page,     *)
(* whatever is evicted, written back or flushed below.  A client that      *)
(* holds a page reads and writes the page it asked for.                    *)
(***************************************************************************)
CONSTANTS Clients, Files, Pages, Data, Empty, Free

VARIABLES
  store,   \* the contents of each page of each file, Free when not in use
  holders  \* the pages the clients hold

storeVars == <<store, holders>>

Init ==
  /\ store = [key \in Files \X Pages |-> Free]
  /\ holders = {}

Read(c, f, p) ==
  /\ store[<<f, p>>] # Free
  /\ holders' = holders \cup {<<c, f, p>>}
  /\ UNCHANGED store

Alloc(c, f, p) ==
  /\ store[<<f, p>>] = Free
  /\ store' = [store EXCEPT ![<<f, p>>] = Empty]
  /\ holders' = holders \cup {<<c, f, p>>}

Write(c, f, p, d) ==
  /\ <<c, f, p>> \in holders
  /\ store' = [store EXCEPT ![<<f, p>>] = d]
  /\ UNCHANGED holders

Release(c, f, p) ==
  /\ <<c, f, p>> \in holders
  /\ holders' = holders \ {<<c, f, p>>}
  /\ UNCHANGED store

Dispose(c, f, p) ==
  /\ store[<<f, p>>] # Free
  /\ store' = [store EXCEPT ![<<f, p>>] = Free]
  /\ holders' = holders \ {<<c, f, p>>}

\* The manager goes away: pages stay, pins do not.
Close ==
  /\ holders' = {}
  /\ UNCHANGED store

Next ==
  \/ \E c \in Clients, f \in Files, p \in Pages :
       \/ Read(c, f, p) \/ Alloc(c, f, p) \/ Release(c, f, p)
       \/ Dispose(c, f, p)
       \/ \E d \in Data : Write(c, f, p, d)
  \/ Close

Spec == Init /\ [][Next]_storeVars
=============================================================================
