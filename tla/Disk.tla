------------------------------- MODULE Disk -------------------------------
(***************************************************************************)
(* The disk driver of NBOS1 (diskload.c) with the lock it takes (lock.c),  *)
(* one port access per step, and the drive it talks to.                    *)
(*                                                                         *)
(* The kernel calls the driver with interrupts off, one call at a time;    *)
(* what runs beside it is the drive.  The drive is external: as long as it *)
(* executes a command or has data to exchange it takes no register or      *)
(* command write, and after the last word of a write it is still busy      *)
(* storing the sector.  The driver only ever looks at the DRQ bit of the   *)
(* status, never at BSY, and only after the command; the drive is assumed  *)
(* to keep DRQ clear until it has data or wants it.                        *)
(***************************************************************************)
EXTENDS Integers

CONSTANTS BYTE,      \* values of an 8-bit register
          REQUESTS,  \* the sector numbers the kernel asks for
          WORDS,     \* words of a sector
          Data,      \* values of a word
          RamLocks,  \* what disk_lock may hold at boot: init_lock is called
                     \* by nothing and the loader clears no BSS
          CALLS,     \* bound on the number of calls
          None

(***************************************************************************)
(* The file system asks for sectors below 1000.  From BYTE^3 on, numbers   *)
(* would need the bits that the mask of diskload.c:67 loses.               *)
(***************************************************************************)
ASSUME DiskAssumption ==
    /\ BYTE \in Nat \ {0, 1} /\ WORDS \in Nat \ {0} /\ CALLS \in Nat
    /\ REQUESTS \subseteq 0 .. BYTE * BYTE * BYTE - 1
    /\ 0 \in Data
    /\ RamLocks \subseteq Nat
    /\ None \notin [op     : {"read", "write"},
                    sector : 0 .. BYTE * BYTE * BYTE - 1]

Sector    == 0 .. BYTE * BYTE * BYTE - 1
Word      == 1 .. WORDS
Content   == [Word -> Data]
Ports     == {"count", "low", "mid", "high", "device"}
Requested == [op : {"read", "write"}, sector : REQUESTS]

VARIABLES
    pc,         \* where the driver is; "idle" between calls
    req,        \* the call's rwflag and sector_number
    buf,        \* the sector at target_location
    done,       \* words exchanged
    disk_lock,  \* lock.c:disk_lock
    calls,      \* calls made
    reg,        \* the drive's registers
    phase,      \* the drive: "ready", "busy", "drq" or "storing"
    job,        \* the command it executes or executed last
    cache,      \* its sector buffer
    media,      \* the sectors
    trouble     \* history: what has gone wrong

driver == <<pc, req, buf, done, disk_lock, calls>>
drive  == <<reg, phase, job, cache, media>>
vars   == <<driver, drive, trouble>>

Blank == [w \in Word |-> 0]

Init ==
    /\ pc = "idle" /\ req = None /\ buf = Blank /\ done = 0 /\ calls = 0
    /\ disk_lock \in RamLocks
    /\ reg = [r \in Ports |-> 0]
    /\ phase = "ready"
    /\ job = None
    /\ cache = Blank
    /\ media = [s \in Sector |-> Blank]
    /\ trouble = IF disk_lock = 0 THEN {} ELSE {"lock"}

-----------------------------------------------------------------------------
(***************************************************************************)
(* The bytes of a sector number.  The mask of the device register selects  *)
(* bits 16 to 19, so that nothing is left after the shift by 24.           *)
(***************************************************************************)
LowUncut(n) == n                                    \* mutant: no mask
Low(n)  == n % BYTE
MidAgain(n) == n % BYTE                             \* mutant: no shift
Mid(n)  == (n \div BYTE) % BYTE
High(n) == (n \div (BYTE * BYTE)) % BYTE
DeviceBits(n) == 0

RegisterValue(n) == [count |-> 1, low |-> Low(n), mid |-> Mid(n),
                     high |-> High(n), device |-> DeviceBits(n)]

(* The sector that the drive's registers select.                           *)
Address == reg.low + BYTE * (reg.mid + BYTE * (reg.high + BYTE * reg.device))

(* The order in which the driver goes through the registers.               *)
After == [count |-> "low", low |-> "mid", mid |-> "high", high |-> "device",
          device |-> "command"]

(***************************************************************************)
(* k_readsector and k_writesector.                                         *)
(***************************************************************************)
Call ==
    /\ pc = "idle" /\ calls < CALLS
    /\ req' \in Requested
    /\ buf' \in IF req'.op = "write" THEN Content ELSE {buf}
    /\ pc' = "acquire" /\ calls' = calls + 1
    /\ UNCHANGED <<done, disk_lock, drive, trouble>>

(***************************************************************************)
(* acquire: xchg until the old value was 0.                                *)
(***************************************************************************)
Acquire ==
    /\ pc = "acquire"
    /\ disk_lock' = 1
    /\ pc' = IF disk_lock = 0 THEN "count" ELSE "acquire"
    /\ UNCHANGED <<req, buf, done, calls, drive, trouble>>

(***************************************************************************)
(* An outb to a register.  The status is not read before.                  *)
(***************************************************************************)
OutRegister ==
    /\ pc \in Ports
    /\ pc' = After[pc]
    /\ IF phase = "ready"
       THEN /\ reg' = [reg EXCEPT ![pc] = RegisterValue(req.sector)[pc]]
            /\ UNCHANGED trouble
       ELSE /\ trouble' = trouble \cup {"lost"}
            /\ UNCHANGED reg
    /\ UNCHANGED <<req, buf, done, disk_lock, calls, phase, job, cache, media>>

OutCommand ==
    /\ pc = "command"
    /\ pc' = "poll"
    /\ IF phase = "ready"
       THEN /\ phase' = "busy"
            /\ job' = [op |-> req.op, sector |-> Address]
            /\ UNCHANGED trouble
       ELSE /\ trouble' = trouble \cup {"lost"}
            /\ UNCHANGED <<phase, job>>
    /\ UNCHANGED <<req, buf, done, disk_lock, calls, reg, cache, media>>

(***************************************************************************)
(* inb of the status until DRQ is set, whatever the other bits say.        *)
(***************************************************************************)
Poll ==
    /\ pc = "poll" /\ phase = "drq"
    /\ pc' = "data"
    /\ UNCHANGED <<req, buf, done, disk_lock, calls, drive, trouble>>

(***************************************************************************)
(* inw or outw of one word.  With the last one of a read the drive is      *)
(* ready again; with the last one of a write it starts to store.           *)
(***************************************************************************)
LastWordEarly == WORDS - 1                          \* mutant: i < 255
LastWord == WORDS

ExchangeWord ==
    LET w == done + 1 IN
    /\ pc = "data"
    /\ IF req.op = "read"
       THEN buf' = [buf EXCEPT ![w] = cache[w]] /\ UNCHANGED cache
       ELSE cache' = [cache EXCEPT ![w] = buf[w]] /\ UNCHANGED buf
    /\ IF w = LastWord
       THEN pc' = "release" /\ done' = 0
       ELSE pc' = pc /\ done' = w
    /\ phase' = IF w < WORDS THEN phase
                ELSE IF req.op = "read" THEN "ready" ELSE "storing"
    /\ UNCHANGED <<req, disk_lock, calls, reg, job, media, trouble>>

StillLocked == disk_lock                            \* mutant: no release
Unlocked == 0

Release ==
    /\ pc = "release"
    /\ disk_lock' = Unlocked
    /\ pc' = "idle" /\ req' = None
    /\ UNCHANGED <<buf, done, calls, drive, trouble>>

Driver ==
    Acquire \/ OutRegister \/ OutCommand \/ Poll \/ ExchangeWord \/ Release

-----------------------------------------------------------------------------
(***************************************************************************)
(* The drive: it has the data or wants it, or reports an error, which      *)
(* leaves DRQ clear; it has stored a sector, or failed to.                 *)
(***************************************************************************)
Answer ==
    /\ phase = "busy"
    /\ phase' = "drq"
    /\ cache' = IF job.op = "read" THEN media[job.sector] ELSE cache
    /\ UNCHANGED <<driver, reg, job, media, trouble>>

Refuse ==
    /\ phase = "busy"
    /\ phase' = "ready"
    /\ trouble' = trouble \cup {"refused"}
    /\ UNCHANGED <<driver, reg, job, cache, media>>

Store ==
    /\ phase = "storing"
    /\ phase' = "ready"
    /\ media' = [media EXCEPT ![job.sector] = cache]
    /\ UNCHANGED <<driver, reg, job, cache, trouble>>

FailToStore ==
    /\ phase = "storing"
    /\ phase' = "ready"
    /\ trouble' = trouble \cup {"unstored"}
    /\ UNCHANGED <<driver, reg, job, cache, media>>

Drive == Answer \/ Refuse \/ Store \/ FailToStore

Next == Call \/ Driver \/ Drive

Spec == Init /\ [][Next]_vars

(***************************************************************************)
(* With interrupts off the CPU only executes the driver, and the drive     *)
(* finishes every command, one way or the other.  Callers owe nothing.     *)
(***************************************************************************)
FairSpec == Spec /\ WF_vars(Driver) /\ WF_vars(Drive)
-----------------------------------------------------------------------------
(***************************************************************************)
(* Registers hold bytes and the drive only executes commands for sectors   *)
(* it has.                                                                 *)
(***************************************************************************)
TypeOK ==
    /\ pc \in Ports \cup {"idle", "acquire", "command", "poll", "data",
                          "release"}
    /\ req \in Requested \cup {None}
    /\ buf \in Content /\ cache \in Content
    /\ done \in 0 .. WORDS - 1
    /\ disk_lock \in Nat
    /\ calls \in 0 .. CALLS
    /\ reg \in [Ports -> 0 .. BYTE - 1]
    /\ phase \in {"ready", "busy", "drq", "storing"}
    /\ job \in [op : {"read", "write"}, sector : Sector] \cup {None}
    /\ media \in [Sector -> Content]
    /\ trouble \subseteq {"lock", "lost", "refused", "unstored"}

(***************************************************************************)
(* The sectors as the next read would find them: a sector the drive is     *)
(* still storing counts as stored.                                         *)
(***************************************************************************)
Stored ==
    IF phase = "storing" THEN [media EXCEPT ![job.sector] = cache] ELSE media

Atomic == INSTANCE Sectors WITH
    stored  <- Stored,
    request <- IF pc = "idle" THEN None ELSE req,
    memory  <- buf,
    spoiled <- trouble \cap {"lost", "unstored"} # {}

(***************************************************************************)
(* Port by port and word by word, k_operatesector reads and writes exactly *)
(* the sector it is asked for, as if at once, until the drive ignores a    *)
(* write or fails to store a sector, of which the driver learns nothing.   *)
(***************************************************************************)
ImplementsSectors == Atomic!Spec

(***************************************************************************)
(* diskload.c:59-71 writes registers without looking at the status.  The   *)
(* only thing a call can leave behind that makes the drive ignore them is  *)
(* a sector still being stored: after reads and errors the drive is ready. *)
(***************************************************************************)
OnlyStoringLoses ==
    [][trouble' \ trouble = {"lost"} => phase = "storing" /\ job.op = "write"]_vars

(***************************************************************************)
(* Every call of the driver returns, unless disk_lock held something else  *)
(* than 0 at boot (lock.c:19-23), the drive ignored a write or it refused  *)
(* a command: the loop at diskload.c:77 has no other way out than DRQ.     *)
(***************************************************************************)
CallsReturn ==
    pc # "idle" ~> pc = "idle" \/ trouble \cap {"lock", "lost", "refused"} # {}
=============================================================================
