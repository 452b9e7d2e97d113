----------------------------- MODULE MCSessions -----------------------------
(***************************************************************************)
(* Model checking of Sessions: two tabs, two requests of one and one of    *)
(* the other.                                                              *)
(***************************************************************************)
EXTENDS Sessions

Tabs == {"left", "right"}
Requests == {<<"left", 1>>, <<"left", 2>>, <<"right", 1>>}
=============================================================================
