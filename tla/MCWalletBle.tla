----------------------------- MODULE MCWalletBle -----------------------------
(* TLC instances of WalletBle. *)
EXTENDS WalletBle, TLC

CONSTANTS ph1, ph2     \* phones

Msg(type, whole, at, n) == [type |-> type, whole |-> whole, at |-> at, n |-> n]

\* An upload of two records in two messages, one that overruns the announced
\* length, and one that gives the upload up.
UploadMessages ==
    {Msg("BEGIN", TRUE, 2, 0), Msg("DATA", TRUE, 0, 1), Msg("DATA", TRUE, 1, 1),
     Msg("DATA", TRUE, 1, 2), Msg("COMMIT", TRUE, 0, 0), Msg("ABORT", TRUE, 0, 0)}
NoMessages == {}
\* The least that leaves an upload unfinished.
Begins == {Msg("BEGIN", TRUE, 2, 0)}

\* Nothing in the code tells phones apart.
PhoneSymmetry == Permutations({ph1, ph2})
=============================================================================
