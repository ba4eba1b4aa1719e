--------------------------- MODULE MCStockContent ---------------------------
(* TLC instances of StockContent. *)
EXTENDS StockContent

Data(op, whole, n) ==
    [type |-> "IMAGE", chunk |-> [op |-> op, whole |-> whole, n |-> n]]
Edit(text, mode, named) ==
    [type |-> "PROFILE", bad |-> FALSE, text |-> text, mode |-> mode, avatar |-> named]

\* An image of one or of two units, and every way to get a transfer wrong: too
\* long, too short, more than announced, more than was erased.
Images ==
    {Data("BEGIN", TRUE, n) : n \in 1 .. 3} \cup {Data("DATA", TRUE, 1), Data("END", TRUE, 0)}
Edits ==
    {Edit("same", "FULLSCREEN", "same"), Edit("same", "same", "a1")}
Oddities ==
    {Data("BEGIN", FALSE, 1), Data("DATA", TRUE, 0), Data("OTHER", TRUE, 0),
     [Edit("same", "same", "same") EXCEPT !.bad = TRUE],
     Edit("same", "same", "unknown"), [type |-> "OTHER"]}

AllFrames == Images \cup Edits \cup Oddities
=============================================================================
