------------------------------ MODULE FileSystem ------------------------------
(***************************************************************************)
(* What a user of the mounted volume is promised by plot.c: a directory of *)
(* named files, each a sequence of bytes.                                  *)
(*                                                                         *)
(*   content   the files: a function from the names in use to contents     *)
(***************************************************************************)
EXTENDS Integers, Sequences

CONSTANTS Name, Data, Zero, MaxSize

VARIABLE content

Names == DOMAIN content

\* The directory F after an operation.
Created(F, n) == [m \in DOMAIN F \cup {n} |-> IF m = n THEN <<>> ELSE F[m]]

\* The file grows with zeros up to the first byte written.
Written(F, n, off, len, d) ==
    LET old == F[n]
        end == IF off + len > Len(old) THEN off + len ELSE Len(old)
    IN [F EXCEPT ![n] = [k \in 1 .. end |-> IF k > off /\ k <= off + len THEN d
                                            ELSE IF k <= Len(old) THEN old[k] ELSE Zero]]

Truncated(F, n, size) ==
    [F EXCEPT ![n] = [k \in 1 .. size |-> IF k <= Len(@) THEN @[k] ELSE Zero]]

Unlinked(F, n) == [m \in DOMAIN F \ {n} |-> F[m]]

\* A file that has the new name is replaced.
Renamed(F, from, to) ==
    [m \in (DOMAIN F \ {from}) \cup {to} |-> IF m = to THEN F[from] ELSE F[m]]

Create(n) == n \notin Names /\ content' = Created(content, n)
Write(n, off, len, d) == n \in Names /\ content' = Written(content, n, off, len, d)
Truncate(n, size) == n \in Names /\ content' = Truncated(content, n, size)
Unlink(n) == n \in Names /\ content' = Unlinked(content, n)
Rename(from, to) == from \in Names /\ content' = Renamed(content, from, to)

Next == \E n \in Name :
           \/ Create(n)
           \/ \E off \in 0 .. MaxSize - 1, len \in 1 .. MaxSize, d \in Data : Write(n, off, len, d)
           \/ \E size \in 0 .. MaxSize : Truncate(n, size)
           \/ Unlink(n)
           \/ \E to \in Name \ {n} : Rename(n, to)

Init == content = [n \in {} |-> <<>>]

Spec == Init /\ [][Next]_content
==============================================================================
