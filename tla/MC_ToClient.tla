---------------------------- MODULE MC_ToClient ----------------------------
(* Instantiation of ToClient for TLC: the five client_msg fields.          *)
EXTENDS ToClient

MCFields == <<"payload", "size", "ret", "sg", "offset">>
MCPayloads == {-1, 0, 2}
MCOtherVals == {-1, 258}
=============================================================================
