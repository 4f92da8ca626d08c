------------------------------ MODULE MCPioUart ------------------------------
(* Three UARTs on one block, of which two fit, and one alone on the other.  *)
EXTENDS PioUart

MCPioOf   == <<"pio1", "pio0", "pio0", "pio0">>
MCOtherSms == {{}, {0, 2}, {1, 2, 3}}
=============================================================================
