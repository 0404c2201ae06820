-------------------------------- MODULE Bae --------------------------------
(***************************************************************************)
(* The BAE device driver (ow_bae.c): its "memory" (read and write),        *)
(* "writebyte", "command" and "flash" files, the date and udate files of  *)
(* the RTC register, and the version and type files.  Each file operation is one   *)
(* or more framed transactions: start, the request with its CRC-16, the    *)
(* confirmation byte 0xBC, end.  The device acts once it has the           *)
(* confirmation.  A transaction can fail before that (the CRC-16 read back *)
(* does not match: the device discards the request) or, with               *)
(* EchoMayBeLost, after it (the device acted, the host sees an error).     *)
(*                                                                         *)
(* The model keeps the request bytes the host puts on the bus and a        *)
(* device that decodes them.  Data bytes are their positions 1..n and the  *)
(* firmware image is its page numbers, so a lost or shifted byte or page   *)
(* shows.  One behaviour is one file operation.                            *)
(***************************************************************************)
EXTENDS Integers, Sequences

CONSTANTS
    PageSize,      \* FS_w_mem's bolus (pagesize = 32)
    MemSize,       \* addresses of the device's memory the model keeps
    Offsets,       \* OWQ_offset values of memory reads and writes
    Lengths,       \* OWQ_size values of memory and command operations
    Us,            \* OWQ_U values written to "writebyte"
    NPages,        \* pages in the image (_FC02_FUNCTION_FLASH_SIZE / 32)
    FlashSize,     \* _FC02_FUNCTION_FLASH_SIZE, in pages
    Sizes,         \* OWQ_size values of flash writes, in pages
    MaxFails,      \* failed transactions in one behaviour
    EchoMayBeLost, \* whether a transaction may fail after the device acted
    RTC,           \* _FC02_RTC, the address of the 32-bit clock register
    Dates,         \* _DATE values written to date or udate, and the clock's
                   \* value when the call starts
    Words          \* two-byte answers to _1W_READ_VERSION / _1W_READ_TYPE

OK == 0
EIO == -5
EFAULT == -14
EINVAL == -22
EBADMSG == -74
Addrs == 0 .. MemSize - 1

Data(n) == [i \in 1 .. n |-> i]
Image == Data(NPages)
ByteMask(x) == x % 256
LowHighAddress(x) == <<ByteMask(x), ByteMask(x \div 256)>>
MinOf(a, b) == IF a < b THEN a ELSE b

(* BAE_uint16 and BAE_uint32: p[0] is the most significant byte *)
BAE_uint16(p) == p[1] * 256 + p[2]
BAE_uint32(p) == ((p[1] * 256 + p[2]) * 256 + p[3]) * 256 + p[4]

(* Mutant: the least significant byte first *)
Uint32ToBytesLE(n) == <<n % 256, (n \div 256) % 256, (n \div 2^16) % 256, (n \div 2^24) % 256>>

(* BAE_uint32_to_bytes: p[3] = num & 0xFF ... p[0] = (num >> 24) & 0xFF *)
BAE_uint32_to_bytes(n) == <<(n \div 2^24) % 256, (n \div 2^16) % 256, (n \div 256) % 256, n % 256>>

(* What the version and type files return of the 16-bit state v.  The    *)
(* "%.2X.%.2X" string of FS_version and FS_localtype is kept as its two   *)
(* fields, in the order printed.                                          *)
FS_version_state(v) == v
FS_version(v) == <<v % 256, (v \div 256) % 256>>
FS_version_device(v) == v % 256
FS_version_bootstrap(v) == (v \div 256) % 256
FS_type_state(v) == v
FS_localtype(v) == <<v % 256, (v \div 256) % 256>>
FS_type_device(v) == v % 256
FS_type_chip(v) == (v \div 256) % 256

VersionFiles == {"versionstate", "version", "device_version", "bootstrap_version"}
TypeFiles == {"typestate", "localtype", "device_type", "chip_type"}

(* The filetype entry of each file: its read function *)
Shown(file, v) ==
    CASE file = "versionstate"      -> FS_version_state(v)
      [] file = "version"           -> FS_version(v)
      [] file = "device_version"    -> FS_version_device(v)
      [] file = "bootstrap_version" -> FS_version_bootstrap(v)
      [] file = "typestate"         -> FS_type_state(v)
      [] file = "localtype"         -> FS_localtype(v)
      [] file = "device_type"       -> FS_type_device(v)
      [] file = "chip_type"         -> FS_type_chip(v)

\* Transaction outcomes: device acted and host saw success, nothing reached
\* the device, device acted and host saw failure
Outcomes == {"ok", "lost"} \cup (IF EchoMayBeLost THEN {"acted"} ELSE {})

Requests ==
    [file : {"memory", "memread", "command"}, offset : Offsets, size : Lengths]
    \cup [file : {"writebyte"}, offset : {0}, size : {1}, u : Us]
    \cup [file : {"flash"}, offset : {0}, size : Sizes]
    \cup [file : {"date", "udate"}, offset : {0}, size : {0}, d : Dates]
    \cup [file : {"rdate", "rudate"} \cup VersionFiles \cup TypeFiles, offset : {0}, size : {0}]

VARIABLES
    pc,       \* "idle", "wmem" (FS_w_mem's loop), "init", "page" (FS_w_flash), "done"
    req,      \* the file operation asked for
    ret,      \* its return value
    fails,    \* failed transactions so far
    remain,   \* FS_w_mem: bytes not yet sent
    pos,      \* FS_w_mem: bytes already sent (data - OWQ_buffer)
    mem,      \* the device's memory
    orig,     \* the device's memory before the call
    rx,       \* the payload the device took from an extended command
    got,      \* bytes FS_r_mem returns
    page,     \* FS_w_flash: rom_offset / 32 + 1
    tries,    \* FS_w_flash: failed attempts of the current page
    flash,    \* pages the device has written since the erase, in order
    val,      \* the value a date, udate, version or type read returns
    rtc       \* history: the date last stored in the clock register

wvars == <<remain, pos, mem, orig, rx, got, val, rtc>>
fvars == <<page, tries, flash>>
vars == <<pc, req, ret, fails, wvars, fvars>>

Init ==
    /\ pc = "idle"
    /\ req \in Requests
    /\ ret = OK
    /\ fails = 0
    /\ remain = 0
    /\ pos = 0
    /\ rtc \in Dates
    /\ mem = [a \in Addrs |-> IF RTC <= a /\ a < RTC + 4
                              THEN BAE_uint32_to_bytes(rtc)[a - RTC + 1] ELSE 0]
    /\ val = 0
    /\ orig = mem
    /\ rx = <<>>
    /\ got = <<>>
    /\ page = 1
    /\ tries = 0
    /\ flash = <<>>

(* BUS_transaction's result: success, or a counted failure *)
Transact(o) == \/ o = "ok" /\ UNCHANGED fails
               \/ o # "ok" /\ fails < MaxFails /\ fails' = fails + 1

Finish(r) == pc' = "done" /\ ret' = r

-----------------------------------------------------------------------------
(* The device receiving a WRITE_BLOCK_WITH_LEN request (bytes after the   *)
(* command byte): length bytes at the 16-bit address; outside the kept    *)
(* memory nothing changes.                                                *)
DeviceWriteBlock(frame) ==
    LET a == frame[1] + 256 * frame[2]
    IN [x \in Addrs |-> IF a <= x /\ x < a + frame[3] THEN frame[4 + x - a] ELSE mem[x]]

(* OW_w_mem: the request after the command byte *)
WMemFrame(data, size, offset) ==
    LowHighAddress(offset) \o <<ByteMask(size)>> \o SubSeq(data, 1, size)

(* FS_w_mem: set up the loop over 32-byte boluses *)
WMemStart ==
    /\ pc = "idle" /\ req.file = "memory"
    /\ pc' = "wmem" /\ remain' = req.size /\ pos' = 0
    /\ UNCHANGED <<req, ret, fails, mem, orig, rx, got, val, rtc, fvars>>

(* Mutant: remain drops by a whole page even for a short last bolus *)
AdvancePage(bolus) == remain' = remain - PageSize /\ pos' = pos + bolus

(* remain -= bolus; data += bolus (location += bolus is offset + pos) *)
Advance(bolus) == remain' = remain - bolus /\ pos' = pos + bolus

(* Mutant: location is not advanced with the data *)
ChunkLocationSame == req.offset

(* location: OWQ_offset plus the bytes already sent *)
ChunkLocation == req.offset + pos

(* One pass of FS_w_mem's loop: OW_w_mem of min(remain, 32) bytes at      *)
(* location; -EINVAL on failure, else data, location and remain advance   *)
WMemChunk ==
    LET bolus == MinOf(remain, PageSize)
        data == SubSeq(Data(req.size), pos + 1, req.size)
    IN /\ pc = "wmem" /\ remain > 0
       /\ \E o \in Outcomes :
            /\ Transact(o)
            /\ mem' = IF o # "lost"
                      THEN DeviceWriteBlock(WMemFrame(data, bolus, ChunkLocation)) ELSE mem
            /\ \/ o = "ok" /\ Advance(bolus) /\ UNCHANGED <<pc, ret>>
               \/ o # "ok" /\ Finish(EINVAL) /\ UNCHANGED <<remain, pos>>
       /\ UNCHANGED <<req, orig, rx, got, val, rtc, fvars>>

(* The loop ends with nothing left: 0 *)
WMemDone ==
    /\ pc = "wmem" /\ remain = 0
    /\ Finish(OK)
    /\ UNCHANGED <<req, fails, wvars, fvars>>

(* Mutant: the location taken from the low byte *)
WriteByteLocationLow(u) == u % 256

(* FS_writebyte: location = OWQ_U >> 8, an off_t of up to 24 bits *)
WriteByteLocation(u) == u \div 256

(* FS_writebyte: OW_w_mem of the low byte of U at the location *)
WriteByte ==
    /\ pc = "idle" /\ req.file = "writebyte"
    /\ \E o \in Outcomes :
         /\ Transact(o)
         /\ mem' = IF o # "lost"
                   THEN DeviceWriteBlock(WMemFrame(<<req.u % 256>>, 1, WriteByteLocation(req.u))) ELSE mem
         /\ Finish(IF o = "ok" THEN OK ELSE EINVAL)
    /\ UNCHANGED <<req, remain, pos, orig, rx, got, val, rtc, fvars>>

(* OW_w_extended's request after the command byte: BYTE_MASK(size) at    *)
(* p[1], the payload copied to p[4], 1 + size bytes sent                  *)
ExtendedFrame(data, size) == SubSeq(<<ByteMask(size), 0, 0>> \o data, 1, 1 + size)

(* FS_w_extended: the device takes length and payload and answers a      *)
(* two-byte return code r; (r[1] << 8) + r[0] = 0xFFFF is -EINVAL         *)
WExtended ==
    /\ pc = "idle" /\ req.file = "command"
    /\ \E o \in Outcomes :
         /\ Transact(o)
         /\ rx' = IF o # "lost"
                  THEN LET f == ExtendedFrame(Data(req.size), req.size)
                       IN SubSeq(f, 2, 1 + f[1])
                  ELSE rx
         /\ \/ o = "ok" /\ \E r0, r1 \in {0, 255} :
                              Finish(IF r1 * 256 + r0 = 65535 THEN EINVAL ELSE OK)
            \/ o # "ok" /\ Finish(EINVAL)
    /\ UNCHANGED <<req, remain, pos, mem, orig, got, val, rtc, fvars>>

(* OW_r_mem: address low, high and length sent, size bytes read back     *)
(* from p[4]                                                              *)
ReadBlock(offset, size) ==
    LET a == ByteMask(offset) + 256 * ByteMask(offset \div 256)
    IN [i \in 1 .. size |-> mem[a + i - 1]]

(* FS_r_mem: OW_r_mem of size bytes at offset, -EINVAL on failure;       *)
(* OWQ_length is size                                                    *)
RMem ==
    /\ pc = "idle" /\ req.file = "memread"
    /\ \E o \in Outcomes :
         /\ Transact(o)
         /\ \/ o = "ok" /\ got' = ReadBlock(req.offset, req.size) /\ Finish(OK)
            \/ o # "ok" /\ Finish(EINVAL) /\ UNCHANGED got
    /\ UNCHANGED <<req, remain, pos, mem, orig, rx, val, rtc, fvars>>

(* FS_w_date: the date as BAE_uint32_to_bytes, one OW_w_mem of 4 bytes   *)
(* at _FC02_RTC; -EINVAL on failure                                      *)
WriteDate(d) ==
    \E o \in Outcomes :
        /\ Transact(o)
        /\ IF o # "lost"
           THEN mem' = DeviceWriteBlock(WMemFrame(BAE_uint32_to_bytes(d), 4, RTC)) /\ rtc' = d
           ELSE UNCHANGED <<mem, rtc>>
        /\ Finish(IF o = "ok" THEN OK ELSE EINVAL)

WDate ==
    /\ pc = "idle" /\ req.file = "date"
    /\ WriteDate(req.d)
    /\ UNCHANGED <<req, remain, pos, orig, rx, got, val, fvars>>

(* FS_w_counter: FS_w_sibling_D of OWQ_D to "date", that is FS_w_date.   *)
(* OWQ_D is read from the value union the parser filled as OWQ_U; its    *)
(* low 32 bits are U on a little-endian host, and BAE_uint32_to_bytes    *)
(* keeps only those.                                                     *)
WCounter ==
    /\ pc = "idle" /\ req.file = "udate"
    /\ WriteDate(req.d)
    /\ UNCHANGED <<req, remain, pos, orig, rx, got, val, fvars>>

(* FS_r_date: OW_r_mem of 4 bytes at _FC02_RTC, BAE_uint32 of them as    *)
(* the _DATE; -EINVAL on failure                                         *)
ReadDate ==
    \E o \in Outcomes :
        /\ Transact(o)
        /\ \/ o = "ok" /\ val' = BAE_uint32(ReadBlock(RTC, 4)) /\ Finish(OK)
           \/ o # "ok" /\ Finish(EINVAL) /\ UNCHANGED val

RDate ==
    /\ pc = "idle" /\ req.file = "rdate"
    /\ ReadDate
    /\ UNCHANGED <<req, remain, pos, mem, orig, rx, got, rtc, fvars>>

(* FS_r_counter: FS_r_sibling_D of "date", then (UINT) D *)
RCounter ==
    /\ pc = "idle" /\ req.file = "rudate"
    /\ ReadDate
    /\ UNCHANGED <<req, remain, pos, mem, orig, rx, got, rtc, fvars>>

(* OW_version / OW_type: command 0x11 or 0x12, two bytes read back with  *)
(* their CRC-16, BAE_uint16 of them; the file's read function (directly, *)
(* or through FS_r_sibling_U of the volatile state file) returns its part *)
(* of it, -EINVAL on failure.                                            *)
ReadRegister(files) ==
    /\ pc = "idle" /\ req.file \in files
    /\ \E o \in Outcomes, w \in Words :
         /\ Transact(o)
         /\ \/ o = "ok" /\ val' = Shown(req.file, BAE_uint16(w)) /\ Finish(OK)
            \/ o # "ok" /\ Finish(EINVAL) /\ UNCHANGED val
    /\ UNCHANGED <<req, remain, pos, mem, orig, rx, got, rtc, fvars>>

ReadVersion == ReadRegister(VersionFiles)
ReadType == ReadRegister(TypeFiles)

-----------------------------------------------------------------------------
(* FS_w_flash's size test: anything but the full image is -EBADMSG *)
CheckSize ==
    /\ pc = "idle" /\ req.file = "flash"
    /\ \/ req.size # FlashSize /\ Finish(EBADMSG)
       \/ req.size = FlashSize /\ pc' = "init" /\ UNCHANGED ret
    /\ UNCHANGED <<req, fails, wvars, fvars>>

(* OW_initiate_flash: extended command 0xBB with the image's first four  *)
(* bytes, which erases the firmware; a failure is -EFAULT                 *)
InitiateFlash ==
    /\ pc = "init"
    /\ \E o \in Outcomes :
          /\ Transact(o)
          /\ flash' = IF o # "lost" THEN <<>> ELSE flash
          /\ \/ o = "ok" /\ pc' = "page" /\ UNCHANGED ret
             \/ o # "ok" /\ Finish(EFAULT)
    /\ UNCHANGED <<req, wvars, page, tries>>

(* The device's page pointer: a page past the end of the flash is dropped *)
DeviceWritePage(p) == IF Len(flash) < NPages THEN Append(flash, p) ELSE flash

(* Mutant: after five failures the loop goes on to the next page *)
AttemptFailedSkip ==
    \/ tries + 1 > 4 /\ page' = page + 1 /\ tries' = 0 /\ UNCHANGED <<pc, ret>>
    \/ tries + 1 <= 4 /\ tries' = tries + 1 /\ UNCHANGED <<pc, page, ret>>

(* Mutant: five retries after the first attempt (tries > 5) *)
AttemptFailedOffByOne ==
    \/ tries + 1 > 5 /\ tries' = tries + 1 /\ Finish(EIO) /\ UNCHANGED page
    \/ tries + 1 <= 5 /\ tries' = tries + 1 /\ UNCHANGED <<pc, page, ret>>

(* ++tries; -EIO once tries > 4, else the same page again *)
AttemptFailed ==
    \/ tries + 1 > 4 /\ tries' = tries + 1 /\ Finish(EIO) /\ UNCHANGED page
    \/ tries + 1 <= 4 /\ tries' = tries + 1 /\ UNCHANGED <<pc, page, ret>>

(* One attempt of OW_write_flash on the current page (extended command   *)
(* 0xBA with 32 bytes of the image, no page address): on success the     *)
(* next page with tries back at 0 (int tries = 0 in the for body)         *)
WritePage ==
    /\ pc = "page" /\ page <= NPages
    /\ \E o \in Outcomes :
          /\ Transact(o)
          /\ flash' = IF o # "lost" THEN DeviceWritePage(Image[page]) ELSE flash
          /\ \/ o = "ok" /\ page' = page + 1 /\ tries' = 0 /\ UNCHANGED <<pc, ret>>
             \/ o # "ok" /\ AttemptFailed
    /\ UNCHANGED <<req, wvars>>

(* The loop ends after the last page: 0 *)
FlashDone ==
    /\ pc = "page" /\ page > NPages
    /\ Finish(OK)
    /\ UNCHANGED <<req, fails, wvars, fvars>>

-----------------------------------------------------------------------------
Next ==
    \/ WMemStart \/ WMemChunk \/ WMemDone
    \/ WriteByte \/ WExtended \/ RMem
    \/ WDate \/ WCounter \/ RDate \/ RCounter \/ ReadVersion \/ ReadType
    \/ CheckSize \/ InitiateFlash \/ WritePage \/ FlashDone

Spec == Init /\ [][Next]_vars

-----------------------------------------------------------------------------
TypeOK ==
    /\ pc \in {"idle", "wmem", "init", "page", "done"}
    /\ req \in Requests
    /\ ret \in {OK, EIO, EFAULT, EINVAL, EBADMSG}
    /\ fails \in 0 .. MaxFails
    /\ remain \in 0 .. req.size
    /\ pos \in 0 .. req.size
    /\ mem \in [Addrs -> 0 .. 255]
    /\ rx \in Seq(0 .. 255)
    /\ page \in 1 .. NPages + 1
    /\ tries \in 0 .. 5
    /\ flash \in Seq(1 .. NPages)
    /\ IF req.file \in {"version", "localtype"} /\ pc = "done" /\ ret = OK
       THEN val \in (0 .. 255) \X (0 .. 255) ELSE val \in Nat
    /\ rtc \in Dates

(* FS_w_mem returning 0 leaves the device holding the caller's bytes at   *)
(* OWQ_offset onward, however the 32-byte boluses split them, and nothing *)
(* else changed; a failure part way leaves only whole leading boluses.    *)
MemWriteFaithful ==
    pc = "done" /\ req.file = "memory" =>
        \E k \in 0 .. req.size :
            /\ ret = OK => k = req.size
            /\ ret # OK => k % PageSize = 0 /\ k < req.size
            /\ \A x \in Addrs :
                 mem[x] = IF req.offset <= x /\ x < req.offset + k
                          THEN Data(req.size)[x - req.offset + 1] ELSE orig[x]

(* When FS_w_flash returns 0 the device holds the whole image, each page  *)
(* at its place: no page skipped, none written twice.                     *)
FlashResultFaithful == pc = "done" /\ req.file = "flash" /\ ret = OK => flash = Image

(* A command accepted by the device carries exactly the caller's bytes.   *)
ExtendedPayloadFaithful ==
    pc = "done" /\ req.file = "command" /\ ret = OK => rx = Data(req.size)
(* FS_writebyte returning 0 leaves the low byte of U at location U >> 8  *)
(* and every other byte as it was, also at the last 16-bit address.  A    *)
(* location the 16-bit address of OW_w_mem's frame cannot hold would     *)
(* land at another address.                                               *)
WriteByteFaithful ==
    pc = "done" /\ req.file = "writebyte" /\ ret = OK =>
        \A x \in Addrs : mem[x] = IF x = req.u \div 256 THEN req.u % 256 ELSE orig[x]

(* The clock register round trip.  A date or udate write that returns 0  *)
(* leaves bytes at _FC02_RTC that FS_r_date decodes to the value written, *)
(* and a date or udate read that returns 0 gives the date last stored     *)
(* there: BAE_uint32_to_bytes, the address OW_w_mem sends, OW_r_mem's     *)
(* address and BAE_uint32 agree on every byte.  A register whose top bit  *)
(* is set decodes to 2^31 or more, which no date of Dates equals.         *)
DateRoundTrip ==
    pc = "done" /\ ret = OK =>
        /\ req.file \in {"date", "udate"} =>
               LET b == ReadBlock(RTC, 4) IN b[1] < 128 /\ BAE_uint32(b) = req.d
        /\ req.file \in {"rdate", "rudate"} => val = rtc
=============================================================================
