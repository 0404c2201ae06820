# TLA+ models of owfs directory enumeration

This directory holds TLA+ models of the owfs sources in `src/`. Each model is
checked with TLC. The core is `ow_dir.c`, which lists directories of the 1-Wire
filesystem. The other files are collaborators: a bus adapter
(`ow_etherweather.c`), a device driver (`ow_bae.c`), the owserver reply framing
(`to_client.c`), and startup glue (`ow_launchd.c`, `ow_kevent.h`).

## 1. Inventory

### Components, their state and operations

| Component | Code | State it keeps | Operations |
|---|---|---|---|
| DirectoryEnumerator | `FS_dir`, `FS_dir_remote`, `FS_dir_both` (ow_dir.c 59-176) | the caller's `flags` word; statistics (`dir_avg`, `dir_time`) | dispatches on the path; adds the synthetic entries (`FS_interface_dir`, `FS_busdir`, `FS_uncached_dir`, `FS_stype_dir`, `FS_simultaneous_entry`, `FS_alarm_entry`) |
| MultiBusCoordinator | `FS_dir_all_connections_loop` (275-314) | one `dacs` record per thread: bus number, shared `flags` pointer, `ret` | creates a thread for bus b+1, lists bus b, joins, picks the result |
| CacheLayer + live scan | `FS_cache2real` (565-608), `FS_realdir` (460-539) | per-bus dirblob cache, device location cache (`Cache_Add_Device`), `last_root_devs` | cache lookup or bypass; the live scan with `BUS_first`/`BUS_next` under BUSLOCK and a callback under DIRLOCK per device; publishing the blob |
| AlarmDirectory | `FS_alarmdir` (411-454) | BUSLOCK, held for the whole search | alarm search, callback under DIRLOCK |
| DeviceEnumerator | `FS_devdir` (361-408) | none (reads the read-only filetype table) | lists properties; an aggregate gets one entry per index, starting at -1 (or -2 for a bitfield) |
| Type index | `FS_typedir`, `Typediraction` (611-662) | global `typedir_action_struct` under `Typedirmutex` | `twalk` over a device tree |
| EtherWeather adapter | ow_etherweather.c | socket fd, `AnyDevices`, `ds2404_compliance`; the search state lives in the caller's `device_search` | command framing with echo check; accelerated search step `next_both`; reset; sendback; PowerByte; detect and close |
| BAE driver | ow_bae.c | device memory and flash (on the device) | memory read/write in 32-byte chunks; flash (erase, then 128 pages with up to 5 tries each); extended command; big-endian register conversions |
| owserver reply | `ToClient` (to_client.c) | none | converts the header to network order, `writev`, converts back |
| Startup | `Setup_Launchd`, ow_kevent.h | outbound connection list | out of scope (spec.md 1(d)) |

### How they interact

A caller runs `FS_dir(dirfunc, v, pn)`, and `FS_dir_both` dispatches:

- A path that names a property fails with `-ENOTDIR`.
- A remote bus goes to `ServerDir`.
- A device path goes to `FS_devdir`.
- A statistics/system/structure/settings path goes to `FS_typedir`.
- A pinned local bus goes to `FS_alarmdir` or `FS_cache2real`.
- Otherwise the union goes to `FS_dir_all_connections_loop`.

The union runs one thread per bus. All of them share four things:

- the caller's `flags` word,
- the global DIRLOCK around every callback,
- the per-bus BUSLOCK around every search step,
- the directory cache.

`FS_realdir` calls the adapter's search step through `BUS_first`/`BUS_next`.
For EtherWeather that step is `EtherWeather_next_both`. Device drivers such as
BAE are reached through property reads and writes, not through directory
listings.

### What is hard

- **Concurrency.** Several FS_dir calls may run at once (owserver serves each
  client in its own thread). Each union call also fans out into one thread per
  bus. BUSLOCK is taken and released once per search step. DIRLOCK is taken
  once per callback. The alarm scan holds BUSLOCK while it waits for DIRLOCK.
- **Shared mutable state inside one call.** All bus threads of one call get
  the same `flags` pointer.
- **Failure.** A search step can fail part way through a scan. The reconnect
  test can fail. `pthread_create` can fail. Blob growth can fail (out of
  memory).
- **Cache staleness.** A cached blob may be listed while another call rescans
  the same bus, or while the TTL expires it.
- **Numeric edges.** Aggregate index ranges, 16-bit addresses in the BAE
  driver, `size_t` wrap in `ToClient`, and the 500 ms ticks of PowerByte.

### Properties that make each component correct

- **Cache/scan:** a published blob is a complete listing of its bus. A failed
  scan or an out-of-memory scan never publishes its partial blob.
- **Listing:** each bus's entries are a prefix of its search order, with no
  duplicates. They are the whole order when that bus's branch returned 0.
- **Synthetic entries:** the "simultaneous" and "alarm" entries appear exactly
  when a listed device has that capability.
- **Union:** every bus is visited. The documented rule decides the result:
  success if any branch succeeded, otherwise bus 0's error.
- **Liveness:** every call returns. No thread waits forever on BUSLOCK,
  DIRLOCK or a join.
- **DeviceEnumerator:** gives K+1 entries for an aggregate of K elements (K+2
  for a bitfield), and lists a sub-directory's members.
- **BAE flash:** pages are written only after the erase. The result is an
  error after 5 failures of any page, and success only if every page was
  written once, at its place.
- **BAE memory and command:** a write that returns 0 leaves the device holding
  the caller's bytes at the caller's address, and a command reaches the device
  as the caller sent it.
- **ToClient:** a data reply reports success exactly when the whole
  announced frame was written, whatever writev does.

The hazards behind these properties are listed, each at its source line, under
`hazards` in `PROJECT.json`.

## 2. Plan

Modules in order of importance:

1. **OwDir** (done): concurrent directory calls over the shared cache, locks
   and flags word. This covers the union fan-out, cache2real/realdir, the alarm
   directory and the synthetic entries. MC module: `MC_OwDir`.
2. **OwDevDir** (done): `FS_devdir` as a pure operator over a small filetype table.
   Its break/continue loop is checked against a declarative filter and
   expansion. The K+1 count of a non-bitfield aggregate, against spec.md 8,
   is reached but not checked by a run (section 4a). `Init` generates only
   well-formed (sorted) filetype arrays, so the early break on a mis-sorted
   array is not exercised.
3. **BusSearch / EtherWeather** (done): the `next_both` search state
   machine, PowerByte, and the command framing on one connection. The
   abstract `BusSearch` states what `OwDir`'s `StepResults` assumes of a bus,
   and `EtherWeather` is shown to implement it with `INSTANCE ... WITH`.
4. **Bae** (done): `FS_w_flash` with the initiation step and
   the per-page retry bound; the memory, writebyte and command files with
   the frames they put on the bus; the date and udate files on the clock
   register with `BAE_uint32` and `BAE_uint32_to_bytes`; the version and type
   files.
5. **ToClient** (done): header conversion and the expected-length arithmetic modulo
   2^w.
6. **TypeDir** (done): the type directory under Typedirmutex, with twalk
   over every tree shape.
7. Extensions of OwDir: the remote branch (`ServerDir` from the spec) and
   hot-plugged devices (a population that
   changes between search steps). The last one needs a weaker cache property:
   a published blob was a complete population at some point.

An abstract specification worth stating is a "listing" of a bus, as an atomic
snapshot of its population. The live scan and the cache path should refine it
when no device is hot-plugged. This is planned alongside item 7.

## 3. The OwDir model

### State and correspondence to the code

| Variable | Code |
|---|---|
| `rstate`, `rret`, `out` | one FS_dir call: in progress or returned, its return value, the entries `dirfunc` received |
| `flags[r]` | the `uint32_t *flags` of the call, shared by all its bus threads |
| `pc`, `pos`, `blob`, `pure`, `ret`, `spawned`, `result` | per thread `<<r, b>>`: location, index in the search or cached blob (`devices`/`dindex`), the `dirblob`, `DirblobPure`, the branch's `ret`, `threadbad == 0`, the loop's return value |
| `buslock[b]`, `dirlock` | BUSLOCK of each bus, DIRLOCK |
| `cache[b]` | `Cache_Add_Dir` / `Cache_Get_Dir` entry |
| `devloc[sn]` | `Cache_Add_Device` |
| `lastRootDevs[b]` | `selected_connection->last_root_devs` |

Each action is one stretch of code between two points where the thread may
block.

- `Start` is the dispatch of `FS_dir_both`.
- `Spawn` is thread creation plus `TestConnection`.
- `Cache2Real` is the cache test (and the `flags[0] = 0` of the rescan).
- `CacheLock`, `CacheEmit` and `CacheDone` are the cached loop.
- `ScanFirst`, `ScanLock`, `ScanEmit` and `ScanNext` are the live scan.
  `ScanAdvance` is the loop body, and `PublishDir` is the publish guard.
- `AlarmFirst`, `AlarmLock` and `AlarmEmit` are the alarm scan.
- `Join` is `pthread_join` and the result precedence.
- `Finish` is the tail of `FS_dir_both`.
- `Expire` is the cache TTL.

BUSLOCK in `FS_realdir` is held only inside one search step, so taking and
releasing it fall in the same model step. `FS_alarmdir` keeps it across
actions, as the code does.

The data is abstracted:

- A bus is the order in which its search finds serial numbers (`Pop`).
- A search step returns the next serial number, `-ENODEV` at the end, or
  `-EIO` on a bus in `FailBuses`.
- Entries are records of kind/bus/serial number. Names and paths are left out.
- The four `FS_stype_dir` entries are kept. Statistics counters are left out
  (advisory, spec.md 4.1).

### Runs

| Run | Config | Checks | Result |
|---|---|---|---|
| `pinned` | `OwDir_pinned.cfg` | TypeOK, CacheHoldsWholeBus, BusListingFaithful, SyntheticEntriesMatchDevices, RequestsComplete | pass: 12k states |
| `union` | `OwDir_union.cfg` | TypeOK, CacheHoldsWholeBus, BusListingFaithful, UnionCoversEveryBus | pass: about 1M states, 40 s |
| `union_flags` | `OwDir_union_flags.cfg` | SyntheticEntriesMatchDevices | **violated** |

What each run covers:

- **`pinned`:** three calls at once. The first lists bus 0 (temperature
  sensor, alarm-capable device). The second runs the alarm scan of bus 0. The
  third lists the empty bus 1. Search steps on bus 0 may fail, and blob growth
  may fail. Both calls on bus 0 contend for its BUSLOCK while the alarm scan
  holds it across callbacks.
- **`union`:** a root listing and an uncached root listing at once. Each fans
  out into two bus threads. The cache can be filled or expired in between, and
  search steps and reconnects may fail on both buses. So the cached path, the
  live path, concurrent publishing and every combination of branch results are
  reached.
- **`union_flags`:** bus 0 is listed from the cache, which ORs in `temp`. Then
  the thread of bus 1 misses the cache and `FS_realdir` sets `flags[0] = 0`.
  The call ends without a "simultaneous" entry, although it listed the
  temperature sensor. The same happens with the alarm bit in the other order,
  or concurrently. spec.md 4.3 says the flags are merged by OR.

Every property of a passing run has a mutant in `PROJECT.json` that TLC
refutes under that run's config:

- `-ENODEV` returned unconverted
- the publish guard without `ret == -ENODEV`
- a stale serial number
- the cached loop ending one entry early
- the flags OR dropped
- a sibling's error overriding success
- the missing BUSUNLOCK after the alarm scan

### Bounds

Two buses are the fewest for which the fan-out, the shared flags word and the
result precedence are visible. Three devices are enough for these cases:

- a bus with two devices, so "scan fails after a device was listed" and
  off-by-one in the cached loop can occur;
- one temperature-capable device and one alarm-capable device;
- an alarm-search subset that differs from the population;
- an empty bus (`BUS_first` returns `-ENODEV`).

Two or three concurrent calls are enough for lock contention between a scan
and an alarm scan of the same bus, and for a cache read racing a rescan. The
union run keeps out blob allocation failure and the third call. They are
covered by `pinned`, and they would make the run too large for five minutes.

### Fairness

`Fairness` is weak fairness on each thread's steps and on `Finish`. The code
has no timeout or cancellation (spec.md 5). A thread that can run eventually
runs. Every call lists finitely many devices, so a thread waiting for DIRLOCK
or BUSLOCK cannot be overtaken forever. No fairness is assumed for `Start`
(clients issue calls when they like) or `Expire`. Each call is made once, so
the system stops when all have returned. This is why the configs say
`CHECK_DEADLOCK FALSE`. A real deadlock shows up as a violation of
`RequestsComplete`.

## 3a. The OwDevDir model (`FS_devdir`)

`FS_devdir` reads only the device's filetype array, so `OwDevDir` models it
as a pure operator. `Init` enumerates every well-formed array of up to
`MaxFt = 3` filetypes and every directory of that array, and `listed` is the
listing. A filetype is abstracted to what the loop reads:

- `dir`: the sub-directory its name lies in;
- `grp`: the sub-directory it opens, if any;
- `ag`: its aggregate size, 0 to `MaxAg = 2`;
- `bitfield`: whether its format is `ft_bitfield`.

"Well-formed" (`WellFormed`) is what the name-sorted arrays guarantee: a
sub-directory's members directly follow its own entry.

- `FtEntries` is the extension loop of ow_dir.c:393-405.
- `ListFrom` is the filetype loop. It uses `break` in a sub-directory and
  `continue` in the main directory.
- `DevDir` is the choice of the first filetype.

Runs:

- **`devdir`** (pass, 12,594 states) checks `ListingMatchesSpec`. The
  listing equals a reference built the way spec.md 4.4 states it (filter,
  then expand each descriptor). This shows the early `break` is safe on
  well-formed arrays. Mutant: `ListFromNoSkip` drops the `continue`.

## 3b. The ToClient model (owserver `to_client.c`)

`ToClientStep(n)` is the whole call as one step. The call is sequential, and
nothing else touches `cm` during it. The step does this, in order:

1. `nio` (`IoCount`);
2. in-place `htonl` of every field (`Htonl`);
3. a `writev` that writes any prefix of the iovecs (`n` bytes), or fails
   with -1;
4. the comparison with `ExpectedLen`;
5. `ntohl` back (`Ntohl`).

The inputs are:

- the host byte order (little or big);
- the header values, with payload in {-1, 0, 2} and the other fields in
  {-1, 258};
- a NULL or non-NULL data pointer.

Int32 values are converted to bytes arithmetically (`BigEndianSeq`,
`FromBigEndian`), so nothing leaves TLC's integer range. The struct layout
(five 32-bit fields) comes from spec.md, because the owserver header is not
in this tree.

Runs:

- **`toclient`** (pass, 4,480 states) checks `ReplyResultFaithful`: for
  payload >= 0, the result is 0 exactly when the announced frame was fully
  written. This includes a NULL data pointer with a positive payload, which
  is always reported as a failure, correctly. The conversions to network
  order and back are part of the step, but no run checks them: `Htonl` is
  defined as the value whose memory bytes are big-endian, so "the wire is
  big-endian" and "ntohl undoes htonl" would hold by that definition.

## 3c. The EtherWeather model and its abstract search (`BusSearch`)

`BusSearch` is the abstract specification of one bus's search sessions. This
is what `FS_realdir` and `FS_alarmdir` rely on, and what `OwDir`'s
`StepResults` assumes:

- `Begin(k)` is `BUS_first` of a ROM or alarm search;
- `Yield` returns the next device of that order;
- `Exhaust` is -ENODEV, and only once every device has been yielded;
- `Fail` is -EIO, at any step.

`EtherWeather` models `ow_etherweather.c` as the caller drives it: listings
one after another on one TCP connection, with PowerByte, reset and sendback
calls between them.

- **Caller side:**
  - `ds` is `struct device_search`: `sn`, `LastDiscrepancy` (`ld`),
    `LastDevice` and the search kind.
  - `NextBothSend` is `next_both` up to the command. It returns -ENODEV
    early for `LastDevice` or `!AnyDevices`, builds byte 8 (`RequestCode`),
    and writes the request, which may fail (`WriteFails`, the write loop of
    `EtherWeather_command`).
  - `NextBothReceive` handles the rest:
    - the echo check (`Echoed`): on a mismatch only the 2 header bytes are
      read (`Consume(2)`) and the call is -EIO;
    - 0xFF, which gives -ENODEV (`NoDeviceStep`);
    - the serial number copied into `ds` before the CRC8 check (a bad one
      gives -EIO);
    - `ds2404_compliance`;
    - `LastDiscrepancy`/`LastDevice` from the answer (`AcceptAnswer`);
      these three are `AnswerStep`, once the 9 data bytes are read.
  - `NextBothTimeout` is `tcp_read` giving up after 200 ms with fewer than 2
    bytes, which it has read.
  - `PowerByteSend` is `EtherWeather_PowerByte`, with `PowerTicks` as its
    byte conversion. `Reset`, `SendbackData` and `SendbackBits` are
    `EtherWeather_reset` and `_sendback_data`/`_bits`; each sends one
    command through `CommandSend` (the packet built in
    `EtherWeather_command`). At most `MaxCommands` of these four calls are
    made.
  - `CommandReceive` and `CommandTimeout` are the read half of
    `EtherWeather_command` for those commands. `power.cmd` remembers which
    command was sent. A mismatched echo (length or command byte) gives -EIO
    with only the header read; a matching one also reads the `DataLen`
    data bytes.
- **Connection:** `Detect` is `EtherWeather_detect`. The caller starts in
  `"detect"` and ends up `"idle"` (connected) or `"failed"` (realloc,
  `ClientAddr` or `ClientConnect` failed). `Close` is `EtherWeather_close`,
  between calls. `Next` lists the routines `EtherWeather_setroutines`
  installs.
- **Socket:** two FIFO sequences. `toAdapter` holds whole requests.
  `toClient` holds bytes: `Bytes` lays an answer out as its echoed header
  (datalen+1, command) and `DataLen` data bytes (9 for 'A', 2 for 'P', 0
  for 'R', and one byte for a sendback). The first data byte stands for the
  payload and the others are padding. The model assumes no data byte ever
  equals the header the caller expects.
- **Adapter** (`AdapterAnswer`): an environment that answers requests in
  order. Its discrepancy byte is abstracted to the position of the next
  device. That is sound because the code only tests it for 0xFE and 0xFF
  and otherwise sends it back unread.
- **Faults:** write errors, CRC-corrupted answers and timeouts, each bounded
  (`MaxWriteFails`, `MaxNoise`, `MaxTimeouts`).
- **Fairness:** weak fairness on the caller's steps and on the adapter's
  answer. The caller thread loops until `next_both` fails, and the adapter
  answers every request it receives (a timeout only makes the caller stop
  waiting).

Runs (three devices, no device answers the alarm search, so both 0xFF and
0xFE occur; three listings and one other command: PowerByte, reset or
sendback):

- **`etherweather`** (pass, 3,160 states): write errors and corrupted
  answers, no timeout. It checks `ImplementsBusSearch` (the refinement
  `BS!Spec`, with `kind <- ds.search`). It also checks
  `PowerDelayHonoured`: the ticks a PowerByte sends hold the pullup at least
  as long as the delay asked, and less than one tick longer. The delays are
  1,000 ms and 127,499 ms, the largest delay one byte of ticks holds (255).
- **`etherweather_faults`** (pass, 34,114 states): adds one timeout, and so
  contains every behaviour of `etherweather`; `TypeOK` and `ListingsEnd` are
  checked here only. Every listing still ends, and the search state stays well formed, also when a
  stale answer fails the echo check and leaves its data bytes on the socket
  (see 4a, ow_etherweather.c:77).
- **`etherweather_late`** (violation, `CompleteListingIsPopulation`): a ROM
  listing times out at its third step, whose answer is (s3, 0xFE). The next
  ROM listing's first step reads that late answer, sets `LastDevice`, and
  ends with -ENODEV after s3 alone. `FS_realdir` seals and publishes that
  one-device blob (ow_dir.c:528) as the population of a three-device bus.
  The echo check cannot catch this, because every search answer has the
  same header. The property covers only ROM listings with at least one
  device: a search that is -ENODEV at once is not published
  (ow_dir.c:488-494), and alarm listings are not cached.

## 3d. The BAE model (`Bae`, `ow_bae.c`)

Every BAE file operation is one or more framed transactions (`BUS_transaction`
with `TRXN_*` entries). Those primitives are outside this tree, so the
transaction is modelled from spec.md 6: start, the request with a CRC-16, the
confirmation byte 0xBC, end. The device acts once it has the confirmation.
The device side (`DeviceWritePage`, `DeviceWriteBlock`) and the outcome of a
transaction (`Transact`) are marked `spec_modelled` in the map.

A transaction outcome is one of:
- `ok`: the device acted and the host saw success;
- `lost`: the request failed before the device acted;
- `acted`: the device acted and the host saw a failure, for example when the
  echo of the confirmation byte is corrupted. This outcome exists only with
  `EchoMayBeLost`.

`MaxFails` bounds the failed transactions of one behaviour. One behaviour is
one file operation, chosen in `Init` from `Requests`.

The flash file is `FS_w_flash`:
- `CheckSize` is the size test (-EBADMSG).
- `InitiateFlash` is `OW_initiate_flash`, the erase (-EFAULT).
- `WritePage` and `AttemptFailed` are one `OW_write_flash` attempt and the
  `++tries; if (tries > 4) return -EIO` that follows a failure.
- `FlashDone` is the return 0 after the last page.

The image is abstracted to its page numbers, and `flash` is what the device
wrote, in order. The page command carries no address, so the device writes
each page it accepts at its own next page.

The other files:
- `memory` write: `FS_w_mem` is `WMemStart`, one `WMemChunk` per bolus
  (`OW_w_mem`), and `WMemDone`.
- `memory` read: `FS_r_mem` with `OW_r_mem` is `RMem`.
- `writebyte`: `FS_writebyte` is `WriteByte`.
- `command`: `FS_w_extended` with `OW_w_extended` is `WExtended`.
- `date` and `udate` writes: `FS_w_date` is `WriteDate`, one `OW_w_mem` of
  `BAE_uint32_to_bytes(D)` at `_FC02_RTC` (40). `WDate` is the date file,
  and `WCounter` is `FS_w_counter`, which writes its value through the date
  sibling.
- `date` and `udate` reads: `FS_r_date` is `ReadDate`, `OW_r_mem` of 4 bytes
  at the register (`ReadBlock`) and then `BAE_uint32`. `RDate` is the date
  file and `RCounter` is `FS_r_counter`.
- the version and type files: `ReadVersion` and `ReadType` are `OW_version`
  and `OW_type`. Each reads two bytes from the device (one of `Words`),
  takes `BAE_uint16` of them, and hands the result to the file's read
  function (`Shown`). The state file returns the value, `device_*` the low
  byte, `bootstrap_version`/`chip_type` the high byte, and `version`/`localtype`
  the `"%.2X.%.2X"` string, kept as its two fields in the order printed. The
  state files are `fc_volatile`, so each sibling read goes to the device,
  as the model does.
- `rtc` is a history variable: the date last stored in the register, chosen
  in `Init` and set by every write the device takes.

Each action builds the bytes the code puts on the bus, and the device decodes
them:
- `WMemFrame`: address low, address high, `BYTE_MASK(size)`, data.
- `ExtendedFrame`: p[1] = size, the payload copied to p[4], and 1 + size
  bytes sent after the command byte.

Data bytes are their positions 1..n, so a lost or shifted byte shows. The
bolus is 2 bytes instead of 32, the device memory ends after the clock
register (44 bytes), and the image is 3 pages instead of 128. The loops do
not depend on these sizes. The memory writes of the runs stay below the
register, so `rtc` is the register's date.

Runs:
- **`bae`** (pass, 750 states): every file operation. Memory writes are of 1,
  3 and 4 bytes at offsets 0, 2 and 4. Flash sizes are 2 and 3 pages. Up to
  six transactions may fail, enough for a flash page to use up its five
  attempts. The run checks:
  - `MemWriteFaithful`: a return of 0 leaves exactly the caller's bytes at
    the offset, and -EINVAL leaves exactly the whole leading boluses;
  - `FlashResultFaithful`: a return of 0 means the device holds the image in
    order;
  - `DateRoundTrip`: a date or udate write that returns 0 leaves register
    bytes that `FS_r_date` decodes to the value written, and a read that
    returns 0 gives the date last stored. This checks that `BAE_uint32_to_bytes`,
    the address `OW_w_mem` sends, `OW_r_mem`'s address and `BAE_uint32`
    agree on every byte. The dates are 0x01020304, 0x00FF0102 and 2^31 - 1,
    the largest date TLC's integers reach below the register's top bit.
  - `WriteByteFaithful`: `FS_writebyte` returning 0 leaves the low byte of
    U at location U >> 8 and nothing else changed. The values are U = 0x0203
    and U = 0xFFFF07, whose location 0xFFFF is the last one the 16-bit
    address holds.
  - `TypeOK`: `tries` never passes 5.
- **`bae_flash_echo`** (violation, `FlashResultFaithful`): one `acted`
  outcome on page 2 makes the retry write page 2 again at the device's third
  page. FS_w_flash returns 0 with the flash holding 1, 2, 2.
- **`bae_command`** (violation, `ExtendedPayloadFaithful`): a 1-byte command
  reaches the device as <<0>>, and longer commands as two zero bytes and the
  payload minus its last two bytes.

One observation could not be checked. The `flash` filetype is declared with
length `_FC02_MEMORY_SIZE` (192), but `FS_w_flash` accepts only
`_FC02_FUNCTION_FLASH_SIZE` (4096) bytes. If owlib caps a write at the
filetype's length, every flash write is -EBADMSG. That code is outside this
tree, so `Sizes` is an input of the model.

## 3e. The TypeDir model (`FS_typedir`)

A type directory (structure, statistics, system, settings) lists the keys of
the tree `Tree[type]` with `twalk`. `twalk` passes no user data to its
action. So `FS_typedir` stores the caller's callback, argument and directory
copy in the global `typedir_action_struct`, and `Typediraction` reads them
on every visit. `Typedirmutex` is held from before the globals are set until
`twalk` returns.

State and actions, per caller `c`:
- `Lock` is `TYPEDIRMUTEXLOCK`, and `lock` is the mutex's owner.
- `SetGlobals` is the three assignments to the struct. The struct is
  `global`, with `v` for whose callback and argument and `pn` for whose
  directory.
- `Walk` is one visit of `twalk`. `Typediraction` calls the global callback
  on `leaf` and `postorder` visits, with the global directory's
  `selected_device` set to the node's key.
- `Unlock` is `TYPEDIRMUTEXUNLOCK` and the return.

`Visits` is `twalk`'s visiting order (glibc): a node without children is
visited as `leaf`; any other node as `preorder`, its left subtree,
`postorder`, its right subtree, `endorder`. `Trees` enumerates every binary
search tree over a type's keys, so every balancing `tsearch` may produce is
covered. Both come from the C library, not this tree, and are marked
`spec_modelled`.

Fairness: weak fairness per caller. Each call runs on its own server thread,
and a pthread mutex released for good is eventually taken by a thread that
keeps trying.

Run **`typedir`** (pass, 8,288 states): three concurrent callers over two
types, with three and two devices (five and two tree shapes). It checks:
- `TypeListingFaithful`: every finished listing delivered to its own
  callback exactly its own type's devices, each once, in ascending order.
  The reference order is `SetToSortSeq` of the keys, independent of the
  walk.
- `TypeDirsComplete`: every call returns.

Mutants: `LockIgnored`, the lock dropped, lets one caller's entries reach
another's callback. `UnlockMissing`, the unlock dropped, leaves the other
callers waiting forever.

## 4a. Disagreements no run checks

The models reach the following behaviours, but no run checks them. Each is
also listed as a hazard in `PROJECT.json`. The first is a sequence of steps
that TLC found with an invariant written for the purpose. The next three are
short steps of one operator, not interleavings, and the deeper disagreements
above take the runs. The last three are violations of properties that the
passing runs check up to the edge. They were confirmed by rerunning those
runs with the input that crosses the edge.

- **ow_etherweather.c:77, the socket never resynchronises.** On a header
  that is not its own echo, `EtherWeather_command` returns -EIO having read
  2 bytes, and the rest of that answer stays on the socket. Nothing drains
  it, and `reconnect` is not set. TLC, with one timeout and no other fault
  (`etherweather_faults` with `MaxNoise = 0`, `MaxWriteFails = 0`, and an
  invariant asking for a failed third listing with more than 20 bytes
  queued), gives this trace:
  - listing 1 times out;
  - PowerByte reads the late (10,'A') header, fails, and leaves 9 data
    bytes;
  - listing 2 reads two of them as its header and fails;
  - listing 3 fails the same way.
  Each failing 'A' command adds 11 bytes and reads 2, so the backlog grows.
  `ListingsEnd` still holds. No run checks recovery.
- **ow_dir.c:287, thread creation.** When `pthread_create` fails,
  `FS_dir_all_connections_loop` lists its own bus and returns. Later buses
  are never listed, and no error is reported. spec.md 5 says they are
  processed sequentially. In `OwDir` this is the `ThreadCreateMayFail`
  branch.
- **ow_dir.c:395, aggregate count.** `FS_devdir` lists a non-bitfield
  aggregate of K elements from index -1, so it gives K+1 entries. This
  matches spec.md 4.4 but not spec.md 8, which says K.
- **to_client.c:70, delay notice.** For payload < 0, the expected length is
  `(ssize_t)(20 + (size_t)payload)`, which is 19 for -1. So a complete
  20-byte header is reported as a failure, and a 19-byte short write as
  success.
- **ow_etherweather.c:167, PowerByte.** `(delay + 499) / 500` is stored in a
  byte, so 128,000 ms is sent as 0 ticks (`PowerTicks`). With
  `MCDelays == {128000}`, `etherweather` violates `PowerDelayHonoured`.
- **ow_bae.c:296, writebyte.** Location `U >> 8` has 24 bits, but
  `LOW_HIGH_ADDRESS` sends 16. U = 0x01000207 writes 7 at address 2 and
  returns 0. With `MCUs == {16777735}`, `bae` violates `WriteByteFaithful`.
- **ow_bae.c:251, date width.** `FS_w_date` keeps 32 bits of the `_DATE`,
  and `FS_r_date` reads them back as unsigned. With `Dates = {-1}` (one
  second before 1970), `DateRoundTrip` is violated: the register holds
  FF FF FF FF and reads back as 4294967295, a date in 2106.

## 4. Not modelled (yet)

- **Remote buses (`ServerDir`):** not in this tree.
- **`FS_LoadDirectoryOnly`:** nothing in this tree calls it. It
  computes a directory's cache key for the cache code outside the tree.
- **The non-threaded `FS_dir_all_connections`:** it does not compile, because
  `pn_bus_directory` is undeclared at ow_dir.c:334.
- **Statistics and timestamps.**
- **Hot-plugged devices.**
- **The adapter's own search state:** the model assumes, as
  `EtherWeather_next_both` does, that the whole search state travels in the
  caller's `device_search`.
- **The rest of EtherWeather:**
  - PowerByte, reset and sendback run only between listings. In the program
    `FS_realdir` drops BUSLOCK between steps (ow_dir.c:502), so another
    thread's command can fall between two `next_both` calls; the model is
    narrower there.
  - `EtherWeather_detect`'s `ClientAddr`/`ClientConnect` are outside this
    tree. `Detect` takes them as success or failure, and the `:15862` name
    rewriting is left out.
  - The data carried by `sendback_data`/`_bits` is abstracted to the
    command byte, since no driver that uses it is modelled. PowerByte's
    response byte (`*resp = pbbuf[1]`) is not kept.
  - A write that fails after sending part of a packet is abstracted, since
    what the adapter makes of the rest is not in this tree: requests travel
    whole. An answer's bytes arrive together, so a data read never times
    out after a matching header.
- **BAE sibling calls and the value union:** `FS_r_sibling_*`,
  `FS_w_sibling_D` and the cache they go through are outside this tree. The
  model takes a sibling read of a volatile state file as a fresh
  transaction. `FS_w_counter` reads `OWQ_D` from a union the parser filled
  as `OWQ_U`. The model takes the little-endian reading, where the low 32
  bits are U. On a big-endian host the clock would get the union's other
  half. `BAE_uint16_to_bytes` is never called.
- **Process startup** (`ow_launchd.c`): `Setup_Launchd` is compiled only with
  `HAVE_LAUNCH_ACTIVATE_SOCKET`. It creates one `connection_out` per socket
  systemd passed, stops at the first `NewOut` failure, and marks the daemon
  socket-activated if any was created. This is startup, outside the scope
  of spec.md 1(d). It runs before any thread exists and nothing in this tree
  reads what it sets. A model would need a run of its own, and all twelve
  run slots are used by the checks above.
- **The kevent header** (`ow_kevent.h`): declarations only. The monitor it
  declares is not in this tree.
