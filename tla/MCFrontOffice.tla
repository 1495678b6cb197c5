---------------------------- MODULE MCFrontOffice ----------------------------
(***************************************************************************)
(* A small instance of FrontOffice: two requests with one idempotency key, *)
(* a trader's API key and a signer's.                                      *)
(***************************************************************************)
EXTENDS FrontOffice

CONSTANTS r1, r2, trader, signer

MCKeyRole == [k \in {trader, signer} |-> IF k = trader THEN "trader" ELSE "signer"]

MCIdempotencyKey == [r \in {r1, r2} |-> "order"]

Listed(path, input) == [path |-> path, method |-> "listed", input |-> input]
Other(path) == [path |-> path, method |-> "other", input |-> "none"]

\* The first request is an order, the second the same order again or another
\* request.
MCShapes ==
    [r \in {r1, r2} |->
        {Listed("creation", "cash")} \cup
        IF r = r1 THEN {}
        ELSE {Listed("creation", "no_cash"), Listed("creation", "bad_cash"),
              Listed("sign", "no_cash"), Listed("status", "none"),
              Listed("entries", "malformed"), Listed("entries", "negative"),
              Other("docs"), Other("health")}]
=============================================================================
