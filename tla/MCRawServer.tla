---------------------------- MODULE MCRawServer ----------------------------
(* RawServer for TLC: up to three requests that fit a buffer of four bytes, *)
(* just fit it (this one is for /risk), do not fit it, carry a body, are    *)
(* malformed or say close.                                                  *)
EXTENDS RawServer

Req(h, b) == [head |-> h, body |-> b, bad |-> FALSE, close |-> FALSE,
              risk |-> FALSE]

Kinds ==
  {Req(2, 2), Req(3, 3), Req(5, 0), Req(1, 4), [Req(4, 0) EXCEPT !.risk = TRUE],
   [Req(2, 0) EXCEPT !.bad = TRUE], [Req(1, 1) EXCEPT !.close = TRUE]}

SentScripts == {<<a, b, c>> : a, b, c \in Kinds}
=============================================================================
