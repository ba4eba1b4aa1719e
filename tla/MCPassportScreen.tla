-------------------------- MODULE MCPassportScreen --------------------------
(* TLC instances of PassportScreen. *)
EXTENDS PassportScreen

\* A snapshot with a public and a private page, and one with a private page.
TwoSnapshots == <<<<FALSE, TRUE>>, <<TRUE>>>>
=============================================================================
