--------------------------- MODULE AtomicSnapshot ---------------------------
(***************************************************************************)
(* What the two-bank snapshot store promises: one durable snapshot that is *)
(* replaced as a whole, a visible snapshot that follows it, and a restart  *)
(* that makes the durable one visible again.                               *)
(*                                                                         *)
(* A snapshot is a pair of a package and a revision.  The durable snapshot *)
(* can run ahead of the visible one in a single way: a replacement became  *)
(* durable and has not been published.  That replacement is either         *)
(* published, or taken back when the next upload discards it, or shown by  *)
(* the next restart.  Nothing else ever changes the durable snapshot.      *)
(***************************************************************************)
EXTENDS Integers

CONSTANTS Offered,      \* the packages that may become a snapshot
          NoPackage,    \* the package of a store that holds no snapshot
          RevLimit      \* revisions are 1 .. RevLimit - 1; 0 is no snapshot

VARIABLES durable,      \* the snapshot a restart would show
          visible,      \* the snapshot readers see while the device is up
          running       \* whether the device is up

vars == <<durable, visible, running>>

Empty == [gen |-> 0, pkg |-> NoPackage]

\* The revision after r, skipping the reserved 0 when the counter wraps.
Successor(r) == IF r + 1 = RevLimit THEN 1 ELSE r + 1

Init ==
    /\ durable = Empty
    /\ visible = Empty
    /\ running = FALSE

\* A package replaces the durable snapshot as a whole; its revision follows
\* the one readers see.
Replace(p) ==
    /\ running
    /\ durable = visible
    /\ durable' = [gen |-> Successor(visible.gen), pkg |-> p]
    /\ UNCHANGED <<visible, running>>

\* Readers move to the durable snapshot.
Publish ==
    /\ running
    /\ visible' = durable
    /\ UNCHANGED <<durable, running>>

\* An unpublished replacement is taken back.
TakeBack ==
    /\ running
    /\ durable' = visible
    /\ UNCHANGED <<visible, running>>

Stop ==
    /\ running' = FALSE
    /\ visible' = Empty
    /\ UNCHANGED durable

Start ==
    /\ ~running
    /\ running' = TRUE
    /\ visible' = durable
    /\ UNCHANGED durable

Next ==
    \/ \E p \in Offered : Replace(p)
    \/ Publish
    \/ TakeBack
    \/ Stop
    \/ Start

Spec == Init /\ [][Next]_vars

=============================================================================
