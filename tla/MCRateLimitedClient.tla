------------------------- MODULE MCRateLimitedClient -------------------------
(* Two interactive calls and a background one that asks for the same key as  *)
(* one of them.  A Retry-After may ask for nothing or for more than          *)
(* MaxPause.                                                                 *)
EXTENDS RateLimitedClient

CONSTANTS i1, i2, b1, shared, other

MCCalls == {i1, i2, b1}
MCInteractive == Calls \ {b1}
MCKeys == {shared, other}
MCKeyOf == [c \in Calls |-> IF c = i2 THEN other ELSE shared]
MCRetryAfters == {0, 3}
MCPauses == <<1, 2>>
=============================================================================
