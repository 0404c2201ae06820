------------------------------- MODULE OwDir -------------------------------
(***************************************************************************)
(* Directory enumeration of owlib (src/module/owlib/src/c/ow_dir.c), OW_MT *)
(* build.  A set of concurrent FS_dir calls ("requests") each enumerate    *)
(* either the union of all local buses (FS_dir_all_connections_loop, one  *)
(* thread per bus, spawned recursively), one pinned bus (FS_cache2real    *)
(* with the cache bypassed) or the alarm directory of one pinned bus      *)
(* (FS_alarmdir).  Threads share the per-bus directory cache, the device  *)
(* location cache, the per-bus root estimate, one BUSLOCK per bus, the    *)
(* global DIRLOCK around every callback, and -- within one request -- the *)
(* flags word the caller passed in.                                       *)
(*                                                                         *)
(* A bus is a fixed search order of serial numbers (Pop); a search step   *)
(* (BUS_first, BUS_next, BUS_first_alarm) returns the next one, -ENODEV   *)
(* at the end, or a transport error on a bus of FailBuses.                *)
(***************************************************************************)
EXTENDS Naturals, Sequences, SequencesExt, FiniteSets

CONSTANTS
    NBus,           \* count_inbound_connections
    SN,             \* serial numbers (model values)
    Pop,            \* Pop[b]: the order in which a search of bus b finds devices
    Alarmed,        \* devices answering the conditional (alarm) search
    DevFlags,       \* DevFlags[sn]: selected_device->flags of sn's family
    Req,            \* concurrent FS_dir calls
    ReqKind,        \* "union" | "uncached" | "bus" | "alarm"
    ReqBus,         \* the pinned bus of a "bus" or "alarm" request
    FailBuses,      \* buses whose search steps may fail with a transport error
    AllocMayFail,   \* DirblobAdd may fail to grow the blob (blob becomes impure)
    ThreadCreateMayFail, \* pthread_create may fail in FS_dir_all_connections_loop
    None, Miss      \* model values: no lock holder / no cached blob

Bus == 0 .. NBus - 1
Flag == {"temp", "volt", "alarm"}
Thread == Req \X Bus

\* Return codes, as the C code's negated errno values
OK == 0
EIO == -5
ENODEV == -19
ECONNABORTED == -103
Ret == {OK, EIO, ECONNABORTED}

ASSUME /\ NBus \in Nat \ {0}
       /\ Pop \in [Bus -> Seq(SN)]
       /\ DevFlags \in [SN -> SUBSET Flag]
       /\ ReqKind \in [Req -> {"union", "uncached", "bus", "alarm"}]
       /\ ReqBus \in [Req -> Bus]

VARIABLES
    rstate,     \* rstate[r]: "idle" | "devs" (threads running) | "done"
    rret,       \* value FS_dir_both returns for r
    flags,      \* flags[r]: the uint32_t flags word of request r
    out,        \* out[r]: the entries dirfunc received, in order
    pc,         \* pc[t]: program counter of thread t = <<r, b>>
    pos,        \* pos[t]: index of the current device in the search / blob
    blob,       \* blob[t]: the dirblob being built (realdir) or read (cache2real)
    pure,       \* pure[t]: DirblobPure(&db)
    ret,        \* ret[t]: the result of t's own bus branch
    spawned,    \* spawned[t]: threadbad == 0 (a thread for bus b+1 was created)
    result,     \* result[t]: what FS_dir_all_connections_loop returns
    buslock,    \* buslock[b]: holder of BUSLOCK of bus b
    dirlock,    \* holder of DIRLOCK
    cache,      \* cache[b]: the dirblob Cache_Add_Dir stored for bus b, or Miss
    devloc,     \* devloc[sn]: bus Cache_Add_Device recorded for sn, or None
    lastRootDevs \* selected_connection->last_root_devs

reqVars == <<rstate, rret, flags, out>>
thrVars == <<pc, pos, blob, pure, ret, spawned, result>>
shVars == <<buslock, dirlock, cache, devloc, lastRootDevs>>
vars == <<reqVars, thrVars, shVars>>

-----------------------------------------------------------------------------
Req_(t) == t[1]
Bus_(t) == t[2]

\* The device sequence a thread's search walks: the alarm search only
\* finds alarmed devices
AlarmSeq(b) == SelectSeq(Pop[b], LAMBDA s : s \in Alarmed)

DevEntry(b, s) == [k |-> "dev", b |-> b, sn |-> s]
Synth(kind) == [k |-> kind, b |-> None, sn |-> None]
BusEntry(b) == [k |-> "bus", b |-> b, sn |-> None]

\* Outcomes of one search step at position i of sequence q on bus b
StepResults(b, q, i) ==
    (IF i <= Len(q) THEN {OK} ELSE {ENODEV})
      \cup (IF b \in FailBuses THEN {EIO} ELSE {})

\* dirfunc(v, pn) followed by flags[0] |= selected_device->flags, under DIRLOCK
Emit(t, s) ==
    out' = [out EXCEPT ![Req_(t)] = Append(@, DevEntry(Bus_(t), s))]

Goto(t, l) == pc' = [pc EXCEPT ![t] = l]
SetRet(t, v) == ret' = [ret EXCEPT ![t] = v]

Init ==
    /\ rstate = [r \in Req |-> "idle"]
    /\ rret = [r \in Req |-> OK]
    /\ flags = [r \in Req |-> {}]
    /\ out = [r \in Req |-> <<>>]
    /\ pc = [t \in Thread |-> "idle"]
    /\ pos = [t \in Thread |-> 1]
    /\ blob = [t \in Thread |-> <<>>]
    /\ pure = [t \in Thread |-> TRUE]
    /\ ret = [t \in Thread |-> OK]
    /\ spawned = [t \in Thread |-> FALSE]
    /\ result = [t \in Thread |-> OK]
    /\ buslock = [b \in Bus |-> None]
    /\ dirlock = None
    \* a previous enumeration may have left a complete blob in the cache
    /\ cache \in [Bus -> {Miss}] \cup {[b \in Bus |-> Pop[b]]}
    /\ devloc = [s \in SN |-> None]
    /\ lastRootDevs \in [Bus -> {0}]

-----------------------------------------------------------------------------
(* FS_dir_both, up to the device enumeration.  A property-less directory *)
(* path is dispatched by its kind; the root (pathlength 0) of a pinned    *)
(* local bus first gets an "interface" entry.                            *)
Start(r) ==
    /\ rstate[r] = "idle"
    /\ rstate' = [rstate EXCEPT ![r] = "devs"]
    /\ flags' = [flags EXCEPT ![r] = {}]
    /\ CASE ReqKind[r] \in {"union", "uncached"} ->
              /\ out' = out
              /\ Goto(<<r, 0>>, "spawn")
         [] ReqKind[r] = "bus" ->
              /\ out' = [out EXCEPT ![r] = Append(@, Synth("interface"))]
              /\ Goto(<<r, ReqBus[r]>>, "cache2real")
         [] ReqKind[r] = "alarm" ->
              /\ out' = out
              /\ Goto(<<r, ReqBus[r]>>, "a_first")
    /\ UNCHANGED <<rret, pos, blob, pure, ret, spawned, result, shVars>>

(* FS_dir_all_connections_loop, up to the dispatch: create the thread for *)
(* bus b+1 unless b is the last bus or pthread_create fails, then test    *)
(* the connection.  The bus is local, and IsAlarmDir cannot hold here     *)
(* (FS_dir_both dispatches alarm paths first), so the branch is           *)
(* FS_cache2real.                                                         *)
Spawn(t) ==
    LET r == Req_(t)
        b == Bus_(t)
        CreateResults == IF b + 1 >= NBus THEN {FALSE}
                         ELSE IF ThreadCreateMayFail THEN {TRUE, FALSE}
                         ELSE {TRUE}
        ReconnectResults == IF b \in FailBuses THEN {OK, ECONNABORTED} ELSE {OK}
    IN
    /\ pc[t] = "spawn"
    /\ \E created \in CreateResults, tested \in ReconnectResults :
          LET next == IF tested = OK THEN "cache2real" ELSE "join"
          IN
          /\ spawned' = [spawned EXCEPT ![t] = created]
          /\ pc' = IF created
                   THEN [pc EXCEPT ![t] = next, ![<<r, b + 1>>] = "spawn"]
                   ELSE [pc EXCEPT ![t] = next]
          /\ SetRet(t, tested)
    /\ UNCHANGED <<reqVars, pos, blob, pure, result, shVars>>

(* FS_cache2real: a pinned bus or the uncached tree always rescans; else  *)
(* Cache_Get_Dir copies the cached blob, or misses.  A rescan is          *)
(* FS_realdir, whose first act is flags[0] = 0 on the caller's word.     *)
Cache2Real(t) ==
    LET r == Req_(t)
        b == Bus_(t)
    IN
    /\ pc[t] = "cache2real"
    /\ IF ReqKind[r] \in {"bus", "uncached"} \/ cache[b] = Miss
       THEN /\ flags' = [flags EXCEPT ![r] = {}]
            /\ blob' = [blob EXCEPT ![t] = <<>>]
            /\ pure' = [pure EXCEPT ![t] = TRUE]
            /\ Goto(t, "first")
       ELSE /\ flags' = flags
            /\ blob' = [blob EXCEPT ![t] = cache[b]]
            /\ pure' = pure
            /\ Goto(t, "c_lock")
    /\ pos' = [pos EXCEPT ![t] = 1]
    /\ UNCHANGED <<rstate, rret, out, ret, spawned, result, shVars>>

(* FS_cache2real loop: DIRLOCK before each cached entry *)
CacheLock(t) ==
    /\ pc[t] = "c_lock"
    /\ pos[t] <= Len(blob[t])
    /\ dirlock = None
    /\ dirlock' = t
    /\ Goto(t, "c_emit")
    /\ UNCHANGED <<reqVars, pos, blob, pure, ret, spawned, result,
                   buslock, cache, devloc, lastRootDevs>>

(* dirfunc on the cached entry, OR its flags, DIRUNLOCK, next index *)
CacheEmit(t) ==
    LET s == blob[t][pos[t]]
    IN
    /\ pc[t] = "c_emit"
    /\ Emit(t, s)
    /\ flags' = [flags EXCEPT ![Req_(t)] = @ \cup DevFlags[s]]
    /\ dirlock' = None
    /\ pos' = [pos EXCEPT ![t] = @ + 1]
    /\ Goto(t, "c_lock")
    /\ UNCHANGED <<rstate, rret, blob, pure, ret, spawned, result,
                   buslock, cache, devloc, lastRootDevs>>

(* Mutant: the cached listing is taken as exhausted one entry early *)
CacheDoneEarly(t) ==
    /\ pc[t] = "c_lock"
    /\ pos[t] >= Len(blob[t])
    /\ blob' = [blob EXCEPT ![t] = <<>>]
    /\ SetRet(t, OK)
    /\ Goto(t, "join")
    /\ UNCHANGED <<reqVars, pos, pure, spawned, result, shVars>>

(* DirblobGet past the end: DirblobClear, return 0 *)
CacheDone(t) ==
    /\ pc[t] = "c_lock"
    /\ pos[t] > Len(blob[t])
    /\ blob' = [blob EXCEPT ![t] = <<>>]
    /\ SetRet(t, OK)
    /\ Goto(t, "join")
    /\ UNCHANGED <<reqVars, pos, pure, spawned, result, shVars>>

-----------------------------------------------------------------------------
(* FS_realdir.  BUSLOCK is held only across one search step: it is taken *)
(* and released inside the same model step, so realdir never waits for a  *)
(* lock while holding another.                                           *)

(* Mutant: the memcpy of ds.sn into the entry is lost after the first  *)
(* device, so later callbacks see a stale serial number.                *)
ScanAdvanceStaleSN(t, i) ==
    LET s == Pop[Bus_(t)][i]
    IN
    /\ pos' = [pos EXCEPT ![t] = 1]
    /\ \/ /\ pure[t]
          /\ blob' = [blob EXCEPT ![t] = Append(@, s)]
          /\ pure' = pure
       \/ /\ pure[t] /\ AllocMayFail
          /\ blob' = blob
          /\ pure' = [pure EXCEPT ![t] = FALSE]
       \/ /\ ~pure[t]
          /\ UNCHANGED <<blob, pure>>
    /\ devloc' = [devloc EXCEPT ![s] = Bus_(t)]
    /\ Goto(t, "r_lock")

(* The body of the do-loop after a search step found sn: BUSUNLOCK,       *)
(* DirblobAdd (if the blob is still pure; growing it may fail),           *)
(* ++devices, Cache_Add_Device, FS_devicefindhex.                         *)
ScanAdvance(t, i) ==
    LET s == Pop[Bus_(t)][i]
    IN
    /\ pos' = [pos EXCEPT ![t] = i]
    /\ \/ /\ pure[t]
          /\ blob' = [blob EXCEPT ![t] = Append(@, s)]
          /\ pure' = pure
       \/ /\ pure[t] /\ AllocMayFail
          /\ blob' = blob
          /\ pure' = [pure EXCEPT ![t] = FALSE]
       \/ /\ ~pure[t]
          /\ UNCHANGED <<blob, pure>>
    /\ devloc' = [devloc EXCEPT ![s] = Bus_(t)]
    /\ Goto(t, "r_lock")

(* BUSLOCK; BUS_first.  -ENODEV: an empty root, estimate 0, return 0;     *)
(* any other error is returned as -EIO.                                   *)
ScanFirst(t) ==
    LET b == Bus_(t)
    IN
    /\ pc[t] = "first"
    /\ buslock[b] = None
    /\ \E res \in StepResults(b, Pop[b], 1) :
          \/ /\ res = OK
             /\ ScanAdvance(t, 1)
             /\ UNCHANGED <<ret, lastRootDevs>>
          \/ /\ res = ENODEV
             /\ lastRootDevs' = [lastRootDevs EXCEPT ![b] = 0]
             /\ SetRet(t, OK)
             /\ Goto(t, "join")
             /\ UNCHANGED <<pos, blob, pure, devloc>>
          \/ /\ res = EIO
             /\ SetRet(t, EIO)
             /\ Goto(t, "join")
             /\ UNCHANGED <<pos, blob, pure, devloc, lastRootDevs>>
    /\ UNCHANGED <<reqVars, spawned, result, buslock, dirlock, cache>>

(* DIRLOCK before the callback *)
ScanLock(t) ==
    /\ pc[t] = "r_lock"
    /\ dirlock = None
    /\ dirlock' = t
    /\ Goto(t, "r_emit")
    /\ UNCHANGED <<reqVars, pos, blob, pure, ret, spawned, result,
                   buslock, cache, devloc, lastRootDevs>>

(* Mutant: the flags of a live-scanned device are not ORed in *)
ScanEmitNoFlags(t) ==
    LET s == Pop[Bus_(t)][pos[t]]
    IN
    /\ pc[t] = "r_emit"
    /\ Emit(t, s)
    /\ flags' = flags
    /\ dirlock' = None
    /\ Goto(t, "next")
    /\ UNCHANGED <<rstate, rret, pos, blob, pure, ret, spawned, result,
                   buslock, cache, devloc, lastRootDevs>>

(* dirfunc; flags[0] |= selected_device->flags; DIRUNLOCK *)
ScanEmit(t) ==
    LET s == Pop[Bus_(t)][pos[t]]
    IN
    /\ pc[t] = "r_emit"
    /\ Emit(t, s)
    /\ flags' = [flags EXCEPT ![Req_(t)] = @ \cup DevFlags[s]]
    /\ dirlock' = None
    /\ Goto(t, "next")
    /\ UNCHANGED <<rstate, rret, pos, blob, pure, ret, spawned, result,
                   buslock, cache, devloc, lastRootDevs>>

(* Mutant: the blob is published however the scan ended *)
PublishDirAnyEnd(t, res) ==
    cache' = IF pure[t]
             THEN [cache EXCEPT ![Bus_(t)] = blob[t]]
             ELSE cache

(* Cache_Add_Dir only for a pure blob of a scan that ended in -ENODEV *)
PublishDir(t, res) ==
    cache' = IF pure[t] /\ res = ENODEV
             THEN [cache EXCEPT ![Bus_(t)] = blob[t]]
             ELSE cache

(* Mutant: -ENODEV at the end of the scan is returned as is *)
ScanNextKeepsENODEV(t) ==
    LET b == Bus_(t)
    IN
    /\ pc[t] = "next"
    /\ buslock[b] = None
    /\ \E res \in StepResults(b, Pop[b], pos[t] + 1) :
          \/ /\ res = OK
             /\ ScanAdvance(t, pos[t] + 1)
             /\ UNCHANGED <<ret, cache, lastRootDevs>>
          \/ /\ res # OK
             /\ lastRootDevs' = IF res = ENODEV
                                THEN [lastRootDevs EXCEPT ![b] = pos[t]]
                                ELSE lastRootDevs
             /\ PublishDir(t, res)
             /\ blob' = [blob EXCEPT ![t] = <<>>]
             /\ SetRet(t, res)
             /\ Goto(t, "join")
             /\ UNCHANGED <<pos, pure, devloc>>
    /\ UNCHANGED <<reqVars, spawned, result, buslock, dirlock>>

(* BUSLOCK; BUS_next.  On -ENODEV record the root estimate, BUSUNLOCK,    *)
(* publish the blob; on an error BUSUNLOCK and return it; DirblobClear.   *)
ScanNext(t) ==
    LET b == Bus_(t)
    IN
    /\ pc[t] = "next"
    /\ buslock[b] = None
    /\ \E res \in StepResults(b, Pop[b], pos[t] + 1) :
          \/ /\ res = OK
             /\ ScanAdvance(t, pos[t] + 1)
             /\ UNCHANGED <<ret, cache, lastRootDevs>>
          \/ /\ res # OK
             /\ lastRootDevs' = IF res = ENODEV
                                THEN [lastRootDevs EXCEPT ![b] = pos[t]]
                                ELSE lastRootDevs
             /\ PublishDir(t, res)
             /\ blob' = [blob EXCEPT ![t] = <<>>]
             /\ SetRet(t, IF res = ENODEV THEN OK ELSE res)
             /\ Goto(t, "join")
             /\ UNCHANGED <<pos, pure, devloc>>
    /\ UNCHANGED <<reqVars, spawned, result, buslock, dirlock>>

-----------------------------------------------------------------------------
(* FS_alarmdir.  Unlike FS_realdir it keeps BUSLOCK from BUS_first_alarm  *)
(* to the final BUS_next, across every DIRLOCK-protected callback.  It    *)
(* never touches the flags word (it uses a local one).                    *)
AlarmFirst(t) ==
    LET b == Bus_(t)
    IN
    /\ pc[t] = "a_first"
    /\ buslock[b] = None
    /\ \E res \in StepResults(b, AlarmSeq(b), 1) :
          \/ /\ res = OK
             /\ buslock' = [buslock EXCEPT ![b] = t]
             /\ pos' = [pos EXCEPT ![t] = 1]
             /\ Goto(t, "a_lock")
             /\ UNCHANGED ret
          \/ /\ res # OK
             /\ SetRet(t, IF res = ENODEV THEN OK ELSE res)
             /\ Goto(t, "join")
             /\ UNCHANGED <<buslock, pos>>
    /\ UNCHANGED <<reqVars, blob, pure, spawned, result,
                   dirlock, cache, devloc, lastRootDevs>>

(* DIRLOCK, with BUSLOCK still held *)
AlarmLock(t) ==
    /\ pc[t] = "a_lock"
    /\ dirlock = None
    /\ dirlock' = t
    /\ Goto(t, "a_emit")
    /\ UNCHANGED <<reqVars, pos, blob, pure, ret, spawned, result,
                   buslock, cache, devloc, lastRootDevs>>

(* Mutant: the BUSUNLOCK after the last BUS_next is missing *)
AlarmEmitKeepsBusLock(t) ==
    LET b == Bus_(t)
    IN
    /\ pc[t] = "a_emit"
    /\ Emit(t, AlarmSeq(b)[pos[t]])
    /\ dirlock' = None
    /\ \E res \in StepResults(b, AlarmSeq(b), pos[t] + 1) :
          \/ /\ res = OK
             /\ pos' = [pos EXCEPT ![t] = @ + 1]
             /\ Goto(t, "a_lock")
          \/ /\ res # OK
             /\ SetRet(t, IF res = ENODEV THEN OK ELSE res)
             /\ Goto(t, "join")
             /\ UNCHANGED pos
    /\ UNCHANGED <<rstate, rret, flags, blob, pure, spawned, result,
                   buslock, cache, devloc, lastRootDevs>>

(* dirfunc; DIRUNLOCK; BUS_next; on the end of the search BUSUNLOCK *)
AlarmEmit(t) ==
    LET b == Bus_(t)
    IN
    /\ pc[t] = "a_emit"
    /\ Emit(t, AlarmSeq(b)[pos[t]])
    /\ dirlock' = None
    /\ \E res \in StepResults(b, AlarmSeq(b), pos[t] + 1) :
          \/ /\ res = OK
             /\ pos' = [pos EXCEPT ![t] = @ + 1]
             /\ Goto(t, "a_lock")
             /\ UNCHANGED <<ret, buslock>>
          \/ /\ res # OK
             /\ buslock' = [buslock EXCEPT ![b] = None]
             /\ SetRet(t, IF res = ENODEV THEN OK ELSE res)
             /\ Goto(t, "join")
             /\ UNCHANGED pos
    /\ UNCHANGED <<rstate, rret, flags, blob, pure, spawned, result,
                   cache, devloc, lastRootDevs>>

-----------------------------------------------------------------------------
(* Mutant: a sibling's error overrides this bus's success *)
JoinResultChildErrorWins(t) ==
    LET child == <<Req_(t), Bus_(t) + 1>>
    IN IF spawned[t] /\ result[child] < 0 THEN result[child] ELSE ret[t]

(* The end of FS_dir_all_connections_loop: if a thread was created, join  *)
(* it and return its result when that is not an error, else this bus's.   *)
JoinResult(t) ==
    LET child == <<Req_(t), Bus_(t) + 1>>
    IN IF spawned[t] /\ result[child] >= 0 THEN result[child] ELSE ret[t]

Join(t) ==
    LET child == <<Req_(t), Bus_(t) + 1>>
    IN
    /\ pc[t] = "join"
    /\ spawned[t] => pc[child] = "done"
    /\ result' = [result EXCEPT ![t] = JoinResult(t)]
    /\ Goto(t, "done")
    /\ UNCHANGED <<reqVars, pos, blob, pure, ret, spawned, shVars>>

(* The thread whose result FS_dir_both returns *)
Root(r) == IF ReqKind[r] \in {"union", "uncached"} THEN <<r, 0>> ELSE <<r, ReqBus[r]>>

(* FS_busdir: one entry per configured bus, in bus order *)
BusDirEntries == [i \in 1 .. NBus |-> BusEntry(i - 1)]

(* FS_uncached_dir: the uncached/ mirror, unless already inside it (the   *)
(* local cache is enabled)                                                *)
UncachedEntries(r) == IF ReqKind[r] = "uncached" THEN <<>> ELSE <<Synth("uncached")>>

(* FS_stype_dir: settings, system, statistics, structure *)
STypeEntries == <<Synth("settings"), Synth("system"), Synth("statistics"), Synth("structure")>>

(* Root-only entries after the union listing *)
RootEntries(r) == BusDirEntries \o UncachedEntries(r) \o STypeEntries

(* FS_simultaneous_entry: the directory with selected_device set to    *)
(* DeviceSimultaneous                                                    *)
SimultaneousEntry == Synth("simultaneous")

(* FS_alarm_entry: the directory with state ePS_alarm *)
AlarmEntry == Synth("alarm")

(* The "simultaneous" and "alarm" entries, gated on the flags word *)
FlagEntries(f) ==
    (IF f \cap {"temp", "volt"} # {} THEN <<SimultaneousEntry>> ELSE <<>>)
      \o (IF "alarm" \in f THEN <<AlarmEntry>> ELSE <<>>)

(* FS_dir_both after the device enumeration returned (the process is not *)
(* owserver, so the root entries are added).  The alarm directory adds    *)
(* nothing.                                                                *)
Finish(r) ==
    /\ rstate[r] = "devs"
    /\ pc[Root(r)] = "done"
    /\ rret' = [rret EXCEPT ![r] = result[Root(r)]]
    /\ out' = [out EXCEPT ![r] =
                 CASE ReqKind[r] \in {"union", "uncached"} ->
                        @ \o RootEntries(r) \o FlagEntries(flags[r])
                   [] ReqKind[r] = "bus" -> @ \o FlagEntries(flags[r])
                   [] ReqKind[r] = "alarm" -> @]
    /\ rstate' = [rstate EXCEPT ![r] = "done"]
    /\ UNCHANGED <<flags, thrVars, shVars>>

(* The TTL of a cached directory runs out *)
Expire(b) ==
    /\ cache[b] # Miss
    /\ cache' = [cache EXCEPT ![b] = Miss]
    /\ UNCHANGED <<reqVars, thrVars, buslock, dirlock, devloc, lastRootDevs>>

ThreadStep(t) ==
    \/ Spawn(t) \/ Cache2Real(t) \/ CacheLock(t) \/ CacheEmit(t) \/ CacheDone(t)
    \/ ScanFirst(t) \/ ScanLock(t) \/ ScanEmit(t) \/ ScanNext(t)
    \/ AlarmFirst(t) \/ AlarmLock(t) \/ AlarmEmit(t) \/ Join(t)

Next ==
    \/ \E r \in Req : Start(r) \/ Finish(r)
    \/ \E t \in Thread : ThreadStep(t)
    \/ \E b \in Bus : Expire(b)

(* Every thread the code starts runs to its return; the enumeration      *)
(* imposes no timeout and a caller's request, once issued, is served.    *)
Fairness ==
    /\ \A t \in Thread : WF_vars(ThreadStep(t))
    /\ \A r \in Req : WF_vars(Finish(r))

Spec == Init /\ [][Next]_vars /\ Fairness

-----------------------------------------------------------------------------
(* Properties *)

Entry == [k : {"dev"}, b : Bus, sn : SN]
           \cup [k : {"interface", "uncached", "settings", "system", "statistics",
                      "structure", "simultaneous", "alarm"}, b : {None}, sn : {None}]
           \cup [k : {"bus"}, b : Bus, sn : {None}]
PC == {"idle", "spawn", "cache2real", "c_lock", "c_emit", "first", "r_lock",
       "r_emit", "next", "a_first", "a_lock", "a_emit", "join", "done"}

TypeOK ==
    /\ rstate \in [Req -> {"idle", "devs", "done"}]
    /\ rret \in [Req -> Ret]
    /\ flags \in [Req -> SUBSET Flag]
    /\ out \in [Req -> Seq(Entry)]
    /\ pc \in [Thread -> PC]
    /\ pos \in [Thread -> Nat]
    /\ blob \in [Thread -> Seq(SN)]
    /\ pure \in [Thread -> BOOLEAN]
    /\ ret \in [Thread -> Ret]
    /\ spawned \in [Thread -> BOOLEAN]
    /\ result \in [Thread -> Ret]
    /\ buslock \in [Bus -> Thread \cup {None}]
    /\ dirlock \in Thread \cup {None}
    /\ cache \in [Bus -> Seq(SN) \cup {Miss}]
    /\ devloc \in [SN -> Bus \cup {None}]
    /\ lastRootDevs \in [Bus -> Nat]

\* The serial numbers request r received for bus b, in order
DevicesOf(r, b) ==
    LET q == SelectSeq(out[r], LAMBDA e : e.k = "dev" /\ e.b = b)
    IN [i \in 1 .. Len(q) |-> q[i].sn]

\* What a complete listing of bus b holds for request r
Expected(r, b) == IF ReqKind[r] = "alarm" THEN AlarmSeq(b) ELSE Pop[b]

(* The directory cache never holds a partial or damaged listing: a blob   *)
(* Cache_Add_Dir stored is the bus's whole population in search order,   *)
(* even when a scan failed part way or DirblobAdd ran out of memory      *)
(* (FS_realdir's publish guard).                                         *)
CacheHoldsWholeBus ==
    \A b \in Bus : cache[b] \in {Miss, Pop[b]}

(* What a request receives for one bus, from a live scan, the cache or   *)
(* the alarm search, is at every moment a prefix of that bus's listing   *)
(* (no device twice, none out of order, none from elsewhere), and the    *)
(* whole listing once that bus's branch returned 0.                      *)
BusListingFaithful ==
    \A r \in Req, b \in Bus :
        /\ IsPrefix(DevicesOf(r, b), Expected(r, b))
        /\ pc[<<r, b>>] = "done" /\ ret[<<r, b>>] = OK
              => DevicesOf(r, b) = Expected(r, b)

(* The "simultaneous" and "alarm" entries FS_dir_both appends are there  *)
(* exactly when a listed device is temperature/voltage- or alarm-capable *)
(* (the flags word is the OR of the listed devices' flags).             *)
SyntheticEntriesMatchDevices ==
    \A r \in Req :
        rstate[r] = "done" /\ ReqKind[r] # "alarm" =>
            LET f == UNION {DevFlags[e.sn] : e \in {e \in Range(out[r]) : e.k = "dev"}}
            IN /\ (Synth("alarm") \in Range(out[r])) <=> ("alarm" \in f)
               /\ (Synth("simultaneous") \in Range(out[r])) <=> (f \cap {"temp", "volt"} # {})

(* A union listing visits every configured bus, and its return value     *)
(* (FS_dir_all_connections_loop's precedence) is 0 when any bus's branch *)
(* succeeded, and bus 0's error when all failed.                         *)
UnionCoversEveryBus ==
    \A r \in Req :
        rstate[r] = "done" /\ ReqKind[r] \in {"union", "uncached"} =>
            /\ \A b \in Bus : pc[<<r, b>>] = "done"
            /\ rret[r] = IF \E b \in Bus : ret[<<r, b>>] = OK THEN OK ELSE ret[<<r, 0>>]

(* Every directory call that started returns: no thread waits forever on *)
(* BUSLOCK, DIRLOCK or a pthread_join.                                   *)
RequestsComplete ==
    \A r \in Req : rstate[r] = "devs" ~> rstate[r] = "done"
=============================================================================
