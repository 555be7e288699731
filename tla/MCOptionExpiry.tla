-------------------------- MODULE MCOptionExpiry ----------------------------
(* A call that the budget can exercise once, a put of the same stock and an *)
(* index call; days 2 and 4 trade, the put expires between them.            *)
EXTENDS OptionExpiry
CONSTANTS call, put, index, S, X
Contracts ==
  LET Of(u, c, k, d) == [underlying |-> u, call |-> c, strike |-> k, expiration |-> d]
  IN  call :> Of(S, TRUE, 2, 2) @@ put :> Of(S, FALSE, 3, 3) @@ index :> Of(X, TRUE, 2, 2)
Prices ==
  LET At(s, e) == [spot |-> S :> s @@ X :> 3, extrinsic |-> e]
  IN  {At(1, 0), At(4, 0), At(4, 2), At(NoPrice, NoPrice)}
=============================================================================
