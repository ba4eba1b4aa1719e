--------------------------- MODULE MCWalletStore ---------------------------
(* TLC instances of WalletStore. *)
EXTENDS WalletStore, TLC

CONSTANTS p1, p2,   \* two good packages, of two records and of one
          big       \* a package that is too large for a bank

GoodPackages == {p1, p2}
GoodSize == p1 :> 2 @@ p2 :> 1
BigPackages == {p1, big}
BigSize == p1 :> 2 @@ big :> 3
=============================================================================
