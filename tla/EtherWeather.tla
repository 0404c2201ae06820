---------------------------- MODULE EtherWeather ----------------------------
(***************************************************************************)
(* The EtherWeather adapter's accelerated search (ow_etherweather.c) as    *)
(* the caller drives it: BUS_first, then EtherWeather_next_both until it   *)
(* returns something other than 0, listing after listing on one TCP        *)
(* connection.  Each step is one EtherWeather_command 'A': write the      *)
(* 9-byte request, read the echoed header and the 9-byte answer.           *)
(*                                                                         *)
(* The socket is two FIFO channels; the one to the caller is a stream of  *)
(* bytes, read a header and a payload at a time.  The adapter answers each *)
(* request in order with the next device of the search and a discrepancy  *)
(* byte; its                                                               *)
(* discrepancy is abstracted to the position of the device that follows    *)
(* (the code passes it back unread).  The environment may fail a write,   *)
(* corrupt a serial number on the 1-Wire side (CRC8 fails), or be slower   *)
(* than the 200 ms tcp_read timeout, each a bounded number of times.       *)
(***************************************************************************)
EXTENDS Integers, Sequences, SequencesExt

CONSTANTS
    Pop,            \* the bus's devices in ROM search order
    Alarmed,        \* those that answer the conditional (alarm) search
    DS2404,         \* those of family 0x04 (DS1994/DS2404)
    AnyDevices,     \* in->AnyDevices, set to 1 by EtherWeather_detect
    MaxListings,    \* BUS_first calls in a behaviour
    MaxTimeouts,    \* tcp_read timeouts the adapter may cause
    MaxNoise,       \* answers whose serial number fails CRC8
    MaxWriteFails,  \* write errors on the socket
    MaxCommands,    \* PowerByte, reset and sendback calls in a behaviour
    Zero,           \* the all-zero serial number BUS_first starts from
    Delays          \* strong-pullup delays (ms) passed to PowerByte

Kinds == {"rom", "alarm"}
Order(k) == IF k = "alarm" THEN SelectSeq(Pop, LAMBDA s : s \in Alarmed) ELSE Pop

\* The command bytes of the search: 0x40 (no discrepancy yet), the 0x80
\* conditional-search bit, 0xFE (last device), 0xFF (no device)
Start == 64
AlarmBit == 128
LastDisc == 254
NoDevice == 255

VARIABLES
    ds,          \* struct device_search: sn, LastDiscrepancy, LastDevice, search
    compliance,  \* in->ds2404_compliance
    toAdapter,   \* requests written and not yet answered
    toClient,    \* bytes of the answers sent and not yet read
    cpc,         \* where the caller is: "detect", "idle", "step" (to call next_both),
                 \* "wait", "pwait", "failed" (detect failed), "closed"
    found,       \* serial numbers returned by next_both in this listing
    status,      \* "idle", "searching", "done" (-ENODEV), "error" (-EIO)
    listings,    \* BUS_first calls so far
    faults,      \* faults used, per kind
    power        \* the last PowerByte's delay asked and ticks sent; the last
                 \* command other than 'A'; commands so far

vars == <<ds, compliance, toAdapter, toClient, cpc, found, status, listings, faults, power>>

Init ==
    /\ ds = [sn |-> Zero, ld |-> -1, last |-> FALSE, search |-> "rom"]
    /\ compliance = FALSE
    /\ toAdapter = <<>>
    /\ toClient = <<>>
    /\ cpc = "detect"
    /\ found = <<>>
    /\ status = "idle"
    /\ listings = 0
    /\ faults = [timeout |-> 0, noise |-> 0, write |-> 0]
    /\ power = [asked |-> 0, ticks |-> 0, cmd |-> "R", calls |-> 0]

Fault(f, max) == faults[f] < max /\ faults' = [faults EXCEPT ![f] = @ + 1]

(* next_both returned: 0 continues the caller's loop, anything else ends  *)
(* the listing (-ENODEV: complete, -EIO: aborted)                         *)
EndListing(st) == cpc' = "idle" /\ status' = st

(* The write loop of EtherWeather_command: EINTR and short writes are     *)
(* retried until the packet is out; any other error leaves bytes unsent   *)
(* and the command returns -EIO                                           *)
WriteFails == Fault("write", MaxWriteFails)

(* The bytes an answer puts on the socket: the echo of the header,        *)
(* datalen+1 and the command, then datalen bytes.  The first data byte    *)
(* stands for the whole payload, the rest are told apart by position; no *)
(* data byte is taken for a header byte.  A sendback carries one byte.    *)
DataLen(c) == CASE c = "A" -> 9 [] c = "P" -> 2 [] c = "R" -> 0 [] OTHER -> 1
Header(c) == <<[b |-> "len", v |-> DataLen(c) + 1], [b |-> "cmd", v |-> c]>>
Bytes(ans) ==
    Header(ans.cmd) \o
        [i \in 1 .. DataLen(ans.cmd) |-> IF i = 1 THEN [b |-> "data", a |-> ans] ELSE [b |-> "pad"]]

(* tcp_read of the 2-byte header got both, and they echo command c *)
HeaderIn == Len(toClient) >= 2
Echoed(c) == SubSeq(toClient, 1, 2) = Header(c)

(* The first n bytes are read off the socket *)
Consume(n) == toClient' = SubSeq(toClient, n + 1, Len(toClient))

-----------------------------------------------------------------------------
(* EtherWeather_detect: the routines are installed, the port 15862 added  *)
(* to the name, the address resolved and the socket connected.  Either   *)
(* the connection is up (AnyDevices = 1), or realloc (-ENOMEM),           *)
(* ClientAddr (-1) or ClientConnect (-EIO) fails and the bus is not used. *)
Detect ==
    /\ cpc = "detect"
    /\ cpc' \in {"idle", "failed"}
    /\ UNCHANGED <<ds, compliance, toAdapter, toClient, found, status, listings, faults, power>>

(* EtherWeather_close, between calls: the socket is closed (fd = -1) *)
Close ==
    /\ cpc = "idle"
    /\ cpc' = "closed"
    /\ UNCHANGED <<ds, compliance, toAdapter, toClient, found, status, listings, faults, power>>

(* BUS_first: clear the search state, then the first next_both *)
BusFirst(k) ==
    /\ cpc = "idle"
    /\ listings < MaxListings
    /\ ds' = [sn |-> Zero, ld |-> -1, last |-> FALSE, search |-> k]
    /\ found' = <<>>
    /\ status' = "searching"
    /\ cpc' = "step"
    /\ listings' = listings + 1
    /\ UNCHANGED <<compliance, toAdapter, toClient, faults, power>>

(* The request byte 8: LastDiscrepancy, 0x40 for -1, with 0x80 for alarm *)
RequestCode(d) ==
    (IF d.ld = -1 THEN Start ELSE d.ld) + (IF d.search = "alarm" THEN AlarmBit ELSE 0)

(* next_both up to the command: an empty bus or LastDevice ends the search *)
(* without a command; otherwise write the request, which may fail (-EIO). *)
NextBothSend ==
    /\ cpc = "step"
    /\ LET last == ds.last \/ ~AnyDevices
       IN \/ /\ last
             /\ ds' = [ds EXCEPT !.last = TRUE]
             /\ EndListing("done")
             /\ UNCHANGED <<toAdapter, faults>>
          \/ /\ ~last
             /\ toAdapter' = Append(toAdapter, [cmd |-> "A", sn |-> ds.sn, code |-> RequestCode(ds)])
             /\ cpc' = "wait"
             /\ UNCHANGED <<ds, status, faults>>
          \/ /\ ~last
             /\ WriteFails
             /\ EndListing("error")
             /\ UNCHANGED <<ds, toAdapter>>
    /\ UNCHANGED <<compliance, toClient, found, listings, power>>

(* Mutant: a 0xFF answer is taken as a transient and the step repeated *)
NoDeviceStepRetry == cpc' = "step" /\ UNCHANGED <<ds, compliance, found, status>>

(* sendbuf[8] == 0xFF: no device, -ENODEV; ds is left as it was *)
NoDeviceStep == EndListing("done") /\ UNCHANGED <<ds, compliance, found>>

(* Mutant: 0xFE is stored in LastDiscrepancy instead of -1 *)
AcceptAnswerNoReset(d, a) ==
    [d EXCEPT !.sn = a.sn, !.ld = a.code, !.last = (a.code = LastDisc)]

(* Mutant: LastDevice is not set from 0xFE *)
AcceptAnswerNoLast(d, a) ==
    [d EXCEPT !.sn = a.sn, !.ld = IF a.code = LastDisc THEN -1 ELSE a.code]

(* A device found: LastDiscrepancy from the answer (0xFE: none left, -1), *)
(* LastDevice when it was 0xFE *)
AcceptAnswer(d, a) ==
    [d EXCEPT !.sn = a.sn,
              !.ld = IF a.code = LastDisc THEN -1 ELSE a.code,
              !.last = (a.code = LastDisc)]

(* next_both once the 9 data bytes are read: 0xFF is -ENODEV; the serial *)
(* number is copied into ds->sn before the CRC8 check, and a bad one is   *)
(* -EIO; a good one sets ds2404_compliance for family 0x04.               *)
AnswerStep(a) ==
    \/ a.code = NoDevice /\ NoDeviceStep
    \/ /\ a.code # NoDevice
       /\ ~a.crc
       /\ ds' = [ds EXCEPT !.sn = a.sn]
       /\ EndListing("error")
       /\ UNCHANGED <<compliance, found>>
    \/ /\ a.code # NoDevice
       /\ a.crc
       /\ compliance' = (compliance \/ a.sn \in DS2404)
       /\ ds' = AcceptAnswer(ds, a)
       /\ found' = Append(found, a.sn)
       /\ cpc' = "step"
       /\ UNCHANGED status

(* next_both once tcp_read has the 2 header bytes.  A header that is not *)
(* the echo of 'A' (10,'A') is -EIO, and only those 2 bytes are read;     *)
(* otherwise the 9 data bytes are read too.                               *)
NextBothReceive ==
    /\ cpc = "wait"
    /\ HeaderIn
    /\ \/ /\ ~Echoed("A")
          /\ Consume(2)
          /\ EndListing("error")
          /\ UNCHANGED <<ds, compliance, found>>
       \/ Echoed("A") /\ Consume(2 + DataLen("A")) /\ AnswerStep(toClient[3].a)
    /\ UNCHANGED <<toAdapter, listings, faults, power>>

(* tcp_read gives up after 200 ms with fewer than 2 bytes, having read    *)
(* those: -EIO.  The request stays with the adapter and its answer        *)
(* arrives later.                                                         *)
NextBothTimeout ==
    /\ cpc = "wait"
    /\ ~HeaderIn
    /\ Fault("timeout", MaxTimeouts)
    /\ Consume(Len(toClient))
    /\ EndListing("error")
    /\ UNCHANGED <<ds, compliance, toAdapter, found, listings, power>>

-----------------------------------------------------------------------------
(* The adapter answers requests in order.  A search: the device at the   *)
(* position the request names (the first for 0x40) in the order its 0x80  *)
(* bit selects, with the position of the next one or 0xFE; 0xFF when      *)
(* there is none; the serial number read on the 1-Wire side may be        *)
(* corrupted.  A power byte: its echo once the pullup has been held.      *)
SearchAnswer(q) ==
    LET o == Order(IF q.code >= AlarmBit THEN "alarm" ELSE "rom")
        i == IF q.code % AlarmBit = Start THEN 1 ELSE q.code % AlarmBit
    IN \/ /\ i > Len(o)
          /\ toClient' = toClient \o Bytes([cmd |-> "A", sn |-> Zero, code |-> NoDevice, crc |-> TRUE])
          /\ UNCHANGED faults
       \/ /\ i <= Len(o)
          /\ \E crc \in BOOLEAN :
               /\ crc \/ Fault("noise", MaxNoise)
               /\ crc => UNCHANGED faults
               /\ toClient' = toClient \o
                     Bytes([cmd |-> "A", sn |-> o[i], code |-> IF i = Len(o) THEN LastDisc ELSE i + 1,
                            crc |-> crc])

AdapterAnswer ==
    /\ toAdapter # <<>>
    /\ \/ Head(toAdapter).cmd = "A" /\ SearchAnswer(Head(toAdapter))
       \/ /\ Head(toAdapter).cmd # "A"
          /\ toClient' = toClient \o Bytes([cmd |-> Head(toAdapter).cmd])
          /\ UNCHANGED faults
    /\ toAdapter' = Tail(toAdapter)
    /\ UNCHANGED <<ds, compliance, cpc, found, status, listings, power>>

(* Mutant: the delay divided without rounding up *)
PowerTicksTruncated(delay) == (delay \div 500) % 256

(* EtherWeather_PowerByte: the delay in 500 ms ticks, rounded up, stored *)
(* in the command's first byte (pbbuf[0], a BYTE)                         *)
PowerTicks(delay) == ((delay + 499) \div 500) % 256

(* PowerByte between listings (the bus is locked by its caller): write    *)
(* 'P' with the ticks, which may fail (-EIO)                              *)
PowerByteSend(d) ==
    /\ cpc = "idle"
    /\ power.calls < MaxCommands
    /\ power' = [asked |-> d, ticks |-> PowerTicks(d), cmd |-> "P", calls |-> power.calls + 1]
    /\ \/ /\ toAdapter' = Append(toAdapter, [cmd |-> "P", ticks |-> PowerTicks(d)])
          /\ cpc' = "pwait"
          /\ UNCHANGED faults
       \/ WriteFails /\ UNCHANGED <<toAdapter, cpc>>
    /\ UNCHANGED <<ds, compliance, toClient, found, status, listings>>

(* EtherWeather_command for a command other than 'A' or 'P': the packet  *)
(* datalen+1, command, data is written; -EIO if the write fails           *)
CommandSend(c) ==
    /\ cpc = "idle"
    /\ power.calls < MaxCommands
    /\ power' = [power EXCEPT !.cmd = c, !.calls = @ + 1]
    /\ \/ toAdapter' = Append(toAdapter, [cmd |-> c]) /\ cpc' = "pwait" /\ UNCHANGED faults
       \/ WriteFails /\ UNCHANGED <<toAdapter, cpc>>
    /\ UNCHANGED <<ds, compliance, toClient, found, status, listings>>

(* EtherWeather_reset: command 'R' without data; -EIO on failure *)
Reset == CommandSend("R")

(* EtherWeather_sendback_data and _bits: commands 'B' and 'b' *)
SendbackData == CommandSend("B")
SendbackBits == CommandSend("b")

(* EtherWeather_command for a command other than 'A', once tcp_read has  *)
(* the 2 header bytes: anything but the echo of its own length and        *)
(* command is -EIO with only those 2 bytes read; otherwise its datalen    *)
(* data bytes are read and the call returns 0.                            *)
CommandReceive ==
    /\ cpc = "pwait"
    /\ HeaderIn
    /\ Consume(IF Echoed(power.cmd) THEN 2 + DataLen(power.cmd) ELSE 2)
    /\ cpc' = "idle"
    /\ UNCHANGED <<ds, compliance, toAdapter, found, status, listings, faults, power>>

(* tcp_read times out (200 ms plus 2 s for 'P') with fewer than 2 bytes, *)
(* having read those: -EIO                                                *)
CommandTimeout ==
    /\ cpc = "pwait"
    /\ ~HeaderIn
    /\ Fault("timeout", MaxTimeouts)
    /\ Consume(Len(toClient))
    /\ cpc' = "idle"
    /\ UNCHANGED <<ds, compliance, toAdapter, found, status, listings, power>>

(* The routines EtherWeather_setroutines installs (detect, reset,       *)
(* next_both, PowerByte, sendback_data, sendback_bits, close), the        *)
(* caller's BUS_first, and the adapter                                    *)
Next ==
    \/ \E k \in Kinds : BusFirst(k)
    \/ NextBothSend
    \/ NextBothReceive
    \/ NextBothTimeout
    \/ \E d \in Delays : PowerByteSend(d)
    \/ Reset \/ SendbackData \/ SendbackBits
    \/ CommandReceive
    \/ CommandTimeout
    \/ AdapterAnswer
    \/ Detect \/ Close

(* The caller's thread keeps running and the adapter answers every request *)
Spec == Init /\ [][Next]_vars
        /\ WF_vars(NextBothSend) /\ WF_vars(NextBothReceive)
        /\ WF_vars(CommandReceive) /\ WF_vars(AdapterAnswer)

-----------------------------------------------------------------------------
TypeOK ==
    /\ ds \in [sn : Range(Pop) \cup {Zero}, ld : {-1} \cup 1 .. Len(Pop),
               last : BOOLEAN, search : Kinds]
    /\ compliance \in BOOLEAN
    /\ cpc \in {"detect", "idle", "step", "wait", "pwait", "failed", "closed"}
    /\ found \in Seq(Range(Pop))
    /\ status \in {"idle", "searching", "done", "error"}
    /\ listings \in 0 .. MaxListings

(* Refinement: the listings the caller sees are those of BusSearch: each   *)
(* step yields the next device of the order the search kind selects, and   *)
(* -ENODEV comes only once all of them have been yielded.                  *)
BS == INSTANCE BusSearch WITH kind <- ds.search

ImplementsBusSearch == BS!Spec

(* Every listing that is started ends, with -ENODEV or -EIO *)
ListingsEnd == status = "searching" ~> status \in {"done", "error"}

(* A ROM listing that ended with -ENODEV after at least one device, which *)
(* FS_realdir publishes to the cache as the bus's population (ow_dir.c:528; *)
(* a search that is -ENODEV at once returns 0 and is not published,       *)
(* ow_dir.c:488-494; alarm listings are not cached), holds every device   *)
(* of the bus in ROM order.                                               *)
CompleteListingIsPopulation ==
    status = "done" /\ ds.search = "rom" /\ found # <<>> => found = Pop

(* The power byte the adapter receives holds the pullup at least as long *)
(* as the caller's delay, and less than one 500 ms tick longer: the      *)
(* rounding up in EtherWeather_PowerByte, up to the largest delay its     *)
(* byte can express (127499 ms, 255 ticks).                               *)
PowerDelayHonoured ==
    power.asked > 0 =>
        power.asked <= power.ticks * 500 /\ power.ticks * 500 < power.asked + 500
=============================================================================
