----------------------------- MODULE DurableLog -----------------------------
(***************************************************************************)
(* What a write-ahead log promises to the server that owns it: entries are *)
(* kept in the order they were written, with none invented, repeated or    *)
(* left out in between, and a crash loses nothing but a suffix of them.    *)
(* As long as the storage has not been damaged, that suffix has at most    *)
(* MaxLoss entries.                                                        *)
(***************************************************************************)
EXTENDS Integers, Sequences

CONSTANTS
    Entry,     \* the entries that can be logged
    MaxLoss    \* the most entries a crash loses while the storage is intact

VARIABLES
    log,       \* up: what the owner has logged; down: what a restart will find
    up,        \* the owner is running
    damaged    \* the storage holds a record that cannot be read back

vars == <<log, up, damaged>>

Init ==
    /\ log = <<>>
    /\ up = TRUE
    /\ damaged = FALSE

\* The owner logs an entry.
Write(e) ==
    /\ up
    /\ log' = Append(log, e)
    /\ UNCHANGED <<up, damaged>>

\* Keep only a prefix of the log.
Truncate == \E n \in 0 .. Len(log) : log' = SubSeq(log, 1, n)

\* The owner stops.  A crash can itself leave a torn record behind.
Crash ==
    /\ up
    /\ up' = FALSE
    /\ Truncate
    /\ damaged => damaged'
    /\ damaged' \in BOOLEAN
    /\ damaged' \/ Len(log) - Len(log') <= MaxLoss

\* The storage loses a record: a running owner does not notice.
Damage ==
    /\ damaged' = TRUE
    /\ UNCHANGED up
    /\ IF up THEN UNCHANGED log ELSE Truncate

\* The owner starts again and reads its log back.
Restart ==
    /\ ~up
    /\ up' = TRUE
    /\ UNCHANGED <<log, damaged>>

Next ==
    \/ \E e \in Entry : Write(e)
    \/ Crash
    \/ Damage
    \/ Restart

Spec == Init /\ [][Next]_vars

=============================================================================
