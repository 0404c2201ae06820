--------------------------------- MODULE MC_Bae ---------------------------------
(* Instantiation of Bae for TLC: device memory up to the clock register    *)
(* at 40..43, 2-byte boluses so that writes of 1, 3 and 4 bytes take one,  *)
(* two and two transactions, one with a short last bolus; a three-page     *)
(* image.                                                                  *)
EXTENDS Bae

\* U = 0x0203: byte 3 at location 2; U = 0xFFFF07: byte 7 at 0xFFFF, the
\* last location a 16-bit address reaches, outside the kept memory
MCUs == {515, 16776967}

\* Dates whose four bytes all differ (0x01020304), with the top byte zero
\* (0x00FF0102), and the largest one below the register's top bit
MCDates == {16909060, 16711938, 2147483647}

\* A version or type answer whose two bytes differ
MCWords == {<<1, 2>>}
=============================================================================
