------------------------------- MODULE MCDemo -------------------------------
(***************************************************************************)
(* Demo with three requests per pool, two prompts run twice, two           *)
(* containers and up to two interrupts.                                    *)
(***************************************************************************)
EXTENDS Demo

MCContainers == <<"gateway", "sglang-tp">>
MCLatencies  == {1, 3}
=============================================================================
