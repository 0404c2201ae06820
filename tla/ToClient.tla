------------------------------ MODULE ToClient ------------------------------
(***************************************************************************)
(* ToClient (owserver/to_client.c): one reply to a client.  The header    *)
(* fields are converted to network order in place, the header and the     *)
(* optional payload go out in one writev, the fields are converted back,  *)
(* and the call returns 0 when writev wrote the length it expected.       *)
(*                                                                         *)
(* A header field is an int32 held as an integer in -2^31 .. 2^31-1; its  *)
(* in-memory bytes depend on the host's byte order, which is an input.    *)
(* The payload bytes are abstracted to one byte value, DataByte.          *)
(***************************************************************************)
EXTENDS Integers, Sequences, SequencesExt

CONSTANTS
    Fields,       \* the header fields in struct order, "payload" among them
    Payloads,     \* payload values a caller passes (negative: delay notice)
    OtherVals,    \* values of the other header fields
    None          \* a NULL data pointer

Hosts == {"little", "big"}
DataByte == 218
Int32Lo == -2147483647 - 1

(* sizeof(struct client_msg): five 32-bit fields, no padding *)
HeaderLen == 4 * Len(Fields)

(* The big-endian bytes of an int32 (two's complement for a negative one, *)
(* computed bytewise so that no intermediate leaves the int32 range).     *)
BigEndianSeq(x) ==
    LET u == IF x >= 0 THEN x ELSE -x - 1
        b(i) == (u \div (256 ^ (4 - i))) % 256
    IN [i \in 1 .. 4 |-> IF x >= 0 THEN b(i) ELSE 255 - b(i)]

(* The int32 whose big-endian bytes are bs *)
FromBigEndian(bs) ==
    IF bs[1] < 128
    THEN ((bs[1] * 256 + bs[2]) * 256 + bs[3]) * 256 + bs[4]
    ELSE -(((((255 - bs[1]) * 256 + (255 - bs[2])) * 256 + (255 - bs[3])) * 256
            + (255 - bs[4])) + 1)

(* The bytes of x as they lie in memory on host h, and back *)
MemBytes(x, h) == IF h = "big" THEN BigEndianSeq(x) ELSE Reverse(BigEndianSeq(x))
FromMem(bs, h) == FromBigEndian(IF h = "big" THEN bs ELSE Reverse(bs))

-----------------------------------------------------------------------------
VARIABLES host, cm, data, pc, wire, written, ret, orig

vars == <<host, cm, data, pc, wire, written, ret, orig>>

Init ==
    /\ host \in Hosts
    /\ cm \in {m \in [Range(Fields) -> Payloads \cup OtherVals] :
                  /\ m["payload"] \in Payloads
                  /\ \A f \in Range(Fields) \ {"payload"} : m[f] \in OtherVals}
    /\ data \in {None, "buf"}
    /\ pc = "call"
    /\ wire = <<>>
    /\ written = 0
    /\ ret = 0
    /\ orig = cm

(* nio: the payload iovec is sent only when there is data and payload > 0 *)
IoCount(m, d) == IF d # None /\ m["payload"] > 0 THEN 2 ELSE 1

(* htonl on host h: the value whose memory bytes are x in big-endian order *)
Htonl(x, h) == FromMem(BigEndianSeq(x), h)

(* ntohl on host h: the value whose big-endian bytes are x's memory bytes *)
Ntohl(x, h) == FromBigEndian(MemBytes(x, h))

(* Mutant: the expected length counts the header iovec only *)
ExpectedLenHeaderOnly(p) == HeaderLen

(* The iovec lengths summed as size_t and cast to ssize_t.  iov_len of the *)
(* payload was taken from cm->payload at the declaration, before htonl;   *)
(* (size_t)p wraps a negative p, and 20 + (size_t)p read back as ssize_t  *)
(* is 20 + p for every int p.                                             *)
ExpectedLen(p) == HeaderLen + p

(* Mutant: the writev result itself is returned, not the comparison *)
ToClientStepReturnsCount(n) ==
    LET net == [f \in Range(Fields) |-> Htonl(cm[f], host)]
        iov == FoldLeft(LAMBDA acc, f : acc \o MemBytes(net[f], host), <<>>, Fields)
               \o (IF IoCount(cm, data) = 2
                   THEN [i \in 1 .. cm["payload"] |-> DataByte] ELSE <<>>)
    IN /\ pc = "call"
       /\ n \in {-1} \cup 0 .. Len(iov)
       /\ wire' = IF n < 0 THEN <<>> ELSE SubSeq(iov, 1, n)
       /\ written' = n
       /\ ret' = n
       /\ cm' = [f \in Range(Fields) |-> Ntohl(net[f], host)]
       /\ pc' = "done"
       /\ UNCHANGED <<host, data, orig>>

(* The whole call: convert, writev of n bytes (a prefix of the iovecs: a  *)
(* socket may take part of them, or fail with -1), compare, convert back. *)
ToClientStep(n) ==
    LET net == [f \in Range(Fields) |-> Htonl(cm[f], host)]
        iov == FoldLeft(LAMBDA acc, f : acc \o MemBytes(net[f], host), <<>>, Fields)
               \o (IF IoCount(cm, data) = 2
                   THEN [i \in 1 .. cm["payload"] |-> DataByte] ELSE <<>>)
    IN /\ pc = "call"
       /\ n \in {-1} \cup 0 .. Len(iov)
       /\ wire' = IF n < 0 THEN <<>> ELSE SubSeq(iov, 1, n)
       /\ written' = n
       /\ ret' = IF n # ExpectedLen(cm["payload"]) THEN 1 ELSE 0
       /\ cm' = [f \in Range(Fields) |-> Ntohl(net[f], host)]
       /\ pc' = "done"
       /\ UNCHANGED <<host, data, orig>>

Next == \E n \in -1 .. HeaderLen + Max(Payloads) : ToClientStep(n)

Spec == Init /\ [][Next]_vars

-----------------------------------------------------------------------------
(* The frame the header announces: the header, then payload bytes when    *)
(* payload > 0; a negative payload announces a delay notice and no data.  *)
FrameLen == HeaderLen + Max({orig["payload"], 0})

TypeOK ==
    /\ host \in Hosts
    /\ cm \in [Range(Fields) -> Int32Lo .. 2147483647]
    /\ data \in {None, "buf"}
    /\ pc \in {"call", "done"}
    /\ wire \in Seq(0 .. 255)
    /\ written \in -1 .. HeaderLen + Max(Payloads)
    /\ ret \in {0, 1}

(* For a data reply (payload >= 0) ToClient returns 0 exactly when the     *)
(* whole announced frame was written, whether writev fails, writes part    *)
(* of it, or the caller passes no data for a positive payload.             *)
ReplyResultFaithful ==
    pc = "done" /\ orig["payload"] >= 0 => (ret = 0 <=> written = FrameLen)
=============================================================================
