----------------------------- MODULE ExceptionsMC -----------------------------
(***************************************************************************)
(* Exceptions on small instances.                                          *)
(***************************************************************************)
EXTENDS Exceptions

MCTypeOf == [e \in Exceptions |-> IF e = "e1" THEN "Name" ELSE "Type"]

MCCatchLists == {{}, {"Name"}}
===============================================================================
