--------------------------- MODULE MCRelaySocket ---------------------------
(* A small instance of RelaySocket: the first socket, one more for every     *)
(* fault and every online event, and one more for the retry a second          *)
(* closing socket may cause.                                                  *)
EXTENDS RelaySocket

Sockets == 1..(2 + MaxFaults + MaxOnline)
=============================================================================
