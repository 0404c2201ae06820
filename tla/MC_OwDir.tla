----------------------------- MODULE MC_OwDir -----------------------------
(* Instantiation of OwDir for TLC: two buses, three devices.              *)
EXTENDS OwDir

CONSTANTS s1, s2, s3, r1, r2, r3

\* bus 0 holds a temperature sensor and a plain device, bus 1 an
\* alarm-capable device; s2 and s3 answer the alarm search
MCPop == [b \in 0 .. 1 |-> IF b = 0 THEN <<s1, s2>> ELSE <<s3>>]
MCDevFlags == [s \in {s1, s2, s3} |-> IF s = s1 THEN {"temp"}
                                      ELSE IF s = s3 THEN {"alarm"} ELSE {}]
MCAlarmed == {s2, s3}

\* for the pinned requests bus 0 holds the temperature sensor and the
\* alarm-capable device, and bus 1 is empty
MCPinnedPop == [b \in 0 .. 1 |-> IF b = 0 THEN <<s1, s3>> ELSE <<>>]

\* pinned requests: a listing of bus 0, the alarm directory of bus 0, a
\* listing of the empty bus 1
MCPinnedKind == [r \in Req |-> IF r = r2 THEN "alarm" ELSE "bus"]
MCPinnedBus == [r \in Req |-> IF r = r3 THEN 1 ELSE 0]

\* union requests: the root directory and the uncached/ root (r3, when
\* present, is an alarm scan of bus 0 running beside them)
MCUnionKind == [r \in Req |-> CASE r = r1 -> "union"
                               [] r = r2 -> "uncached"
                               [] r = r3 -> "alarm"]
MCUnionBus == [r \in Req |-> 0]
=============================================================================
