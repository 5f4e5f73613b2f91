-------------------------------- MODULE MCWifi --------------------------------
(* Two networks: the user's own, and one that cannot be joined (mistyped,   *)
(* out of range, wrong password).                                           *)
EXTENDS Wifi

CONSTANT Other

MCNetworks == {Home, Other}

=============================================================================
