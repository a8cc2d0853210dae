----------------------------- MODULE SectorStore -----------------------------
(***************************************************************************)
(* What numcache.c promises its callers (functions.c, graph.c), without a  *)
(* cache: an array of sectors whose content changes only by Write, a Sync  *)
(* after which a crash changes nothing, and a Restart (destroyed cache,    *)
(* power loss) that leaves of each sector one of the contents it had since *)
(* the last Sync.                                                          *)
(*                                                                         *)
(*   store[s]   what a caller reads from sector s (Torn: unreadable)       *)
(*   legal[s]   what a restart may leave of sector s                       *)
(*   damaged    sectors that a failed operation spoiled                    *)
(*                                                                         *)
(* The promise is as weak as the code under I/O errors: an operation that  *)
(* fails may damage sectors written since the last Sync, and only those.   *)
(***************************************************************************)
CONSTANTS Sector, Data, Torn

VARIABLES store, legal, damaged

vars == <<store, legal, damaged>>

\* Sectors not known to be on the medium.
Unsynced == {s \in Sector : Torn \in legal[s]}

\* The set of damaged sectors may shrink (a sector is rewritten) or grow by
\* unsynced ones; damaged sectors may become unreadable.
Disturb(D) == /\ damaged' \subseteq damaged \cup Unsynced
              /\ D \subseteq damaged \cup damaged'

Init == /\ store \in [Sector -> Data]
        /\ legal = [s \in Sector |-> {store[s]}]
        /\ damaged = {}

Write(s, d) ==
    \E D \in SUBSET Sector :
        /\ Disturb(D)
        /\ store' = [t \in Sector |-> IF t = s THEN d
                                      ELSE IF t \in D THEN Torn ELSE store[t]]
        /\ legal' = [legal EXCEPT ![s] = @ \cup {d, Torn}]

\* A read, a flush, an eviction, or any operation that fails.
Internal ==
    \E D \in SUBSET Sector :
        /\ Disturb(D)
        /\ store' = [t \in Sector |-> IF t \in D THEN Torn ELSE store[t]]
        /\ UNCHANGED legal

Sync == /\ damaged' \subseteq damaged
        /\ legal' = [s \in Sector |-> {store[s]}]
        /\ UNCHANGED store

Restart ==
    /\ damaged' \subseteq damaged \cup Unsynced
    /\ \A s \in Sector : \/ store'[s] \in legal[s]
                         \/ s \in damaged /\ store'[s] = Torn
    /\ \/ UNCHANGED legal
       \/ legal' = [s \in Sector |-> {store'[s]}]

Next == \/ \E s \in Sector, d \in Data : Write(s, d)
        \/ Internal
        \/ Sync
        \/ Restart

Spec == Init /\ [][Next]_vars
==============================================================================
