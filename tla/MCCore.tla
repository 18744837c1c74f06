-------------------------------- MODULE MCCore --------------------------------
(***************************************************************************)
(* An instance of Core with three modules and few messages.                *)
(***************************************************************************)
EXTENDS CoreProps
Pairs == {<<"gps", "client">>, <<"client", "trio">>, <<"trio", "client">>}
=============================================================================
