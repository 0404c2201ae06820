--------------------------- MODULE MC_EtherWeather ---------------------------
(* Instantiation of EtherWeather for TLC: three devices on the bus.        *)
EXTENDS EtherWeather

CONSTANTS s1, s2, s3

MCPop == <<s1, s2, s3>>
\* a delay of two ticks, and the largest delay one byte of ticks holds
MCDelays == {1000, 127499}
=============================================================================
