----------------------------- MODULE DiskProofs -----------------------------
(***************************************************************************)
(* Proofs about Disk, for every width of the registers, every sector size  *)
(* and every number of calls: its types, that only a sector being stored   *)
(* makes the drive ignore the driver, and that the driver and the drive    *)
(* together implement Sectors.                                             *)
(***************************************************************************)
EXTENDS Disk, TLAPS

(***************************************************************************)
(* Division with remainder, where a definition divides.                    *)
(***************************************************************************)
LEMMA DivMod ==
    ASSUME NEW a \in Nat, NEW b \in Nat \ {0}
    PROVE  /\ a \div b \in Nat
           /\ a % b \in 0 .. b - 1
           /\ a = b * (a \div b) + (a % b)
           /\ a < b => a % b = a
  OBVIOUS

(***************************************************************************)
(* The quotient is the only one with a remainder below the divisor.        *)
(***************************************************************************)
LEMMA DivUnique ==
    ASSUME NEW b \in Nat \ {0}, NEW q \in Nat, NEW r \in 0 .. b - 1,
           NEW p \in Nat, NEW s \in 0 .. b - 1,
           b * q + r = b * p + s
    PROVE  q = p
  <1>1. CASE q < p
    <2>1. b * (q + 1) <= b * p
      BY <1>1
    <2>. QED BY <2>1
  <1>2. CASE p < q
    <2>1. b * (p + 1) <= b * q
      BY <1>2
    <2>. QED BY <2>1
  <1>. QED BY <1>1, <1>2

(***************************************************************************)
(* Two digits to a base are a number below its square.                     *)
(***************************************************************************)
LEMMA TwoDigits ==
    ASSUME NEW b \in Nat \ {0}, NEW x \in 0 .. b - 1, NEW y \in 0 .. b - 1
    PROVE  b * x + y \in 0 .. b * b - 1
  <1>1. b * x <= b * (b - 1)
    OBVIOUS
  <1>2. b * (b - 1) = b * b - b /\ b * x \in Nat
    OBVIOUS
  <1>. QED BY <1>1, <1>2

(***************************************************************************)
(* The three bytes the driver takes out of a sector number by shifting and *)
(* masking are bytes, and the drive gets the number back from them: no     *)
(* sector of the 24-bit range is another one on its way through the ports  *)
(* (diskload.c:59-68).                                                     *)
(***************************************************************************)
LEMMA BytesOfSector ==
    ASSUME NEW n \in Sector
    PROVE  /\ {Low(n), Mid(n), High(n)} \subseteq 0 .. BYTE - 1
           /\ n = Low(n) + BYTE * (Mid(n) + BYTE * High(n))
  <1>. USE DiskAssumption
  <1>. DEFINE m == n \div BYTE
              p == m \div BYTE
              q == n \div (BYTE * BYTE)
              r == n % (BYTE * BYTE)
  <1>1. n \in Nat /\ BYTE * BYTE \in Nat \ {0} /\ n < (BYTE * BYTE) * BYTE
    BY DEF Sector
  <1>2. m \in Nat /\ Low(n) \in 0 .. BYTE - 1 /\ n = BYTE * m + Low(n)
    BY <1>1, DivMod DEF Low
  <1>3. p \in Nat /\ Mid(n) \in 0 .. BYTE - 1 /\ m = BYTE * p + Mid(n)
    BY <1>2, DivMod DEF Mid
  <1>4. q \in Nat /\ r \in 0 .. BYTE * BYTE - 1 /\ n = (BYTE * BYTE) * q + r
    BY <1>1, DivMod
  <1>5. High(n) = q % BYTE
    BY DEF High
  <1>. HIDE DEF m, p, q, r
  <1>6. q = p
    <2>1. BYTE * Mid(n) + Low(n) \in 0 .. BYTE * BYTE - 1
      BY <1>2, <1>3, TwoDigits
    <2>2. n = (BYTE * BYTE) * p + (BYTE * Mid(n) + Low(n))
      <3>1. n = BYTE * (BYTE * p + Mid(n)) + Low(n)
        BY <1>2, <1>3
      <3>. QED BY <1>2, <1>3, <3>1
    <2>. QED BY <1>1, <1>3, <1>4, <2>1, <2>2, DivUnique
  <1>7. q < BYTE
    <2>. DEFINE c == BYTE * BYTE
    <2>1. c \in Nat \ {0} /\ c * q + r < c * BYTE /\ r \in 0 .. c - 1
      BY <1>1, <1>4
    <2>. HIDE DEF c
    <2>2. q >= BYTE => c * BYTE <= c * q
      BY <2>1, <1>4
    <2>. QED BY <2>1, <2>2, <1>4
  <1>8. High(n) = q
    BY <1>4, <1>5, <1>7, DivMod
  <1>9. n = BYTE * (BYTE * High(n) + Mid(n)) + Low(n)
    BY <1>2, <1>3, <1>6, <1>8
  <1>. QED BY <1>2, <1>3, <1>4, <1>7, <1>8, <1>9

-----------------------------------------------------------------------------
(***************************************************************************)
(* The inductive invariant, in parts. The drive is never ahead of the      *)
(* driver: it waits for data only in a call that sent it the command, for  *)
(* the operation of that call, and what it is still storing is a write.    *)
(***************************************************************************)
DriveFollows ==
    /\ reg.device = 0
    /\ pc = "idle" <=> req = None
    /\ phase # "ready" => job # None
    /\ pc = "data" => phase = "drq"
    /\ pc # "data" => done = 0
    /\ phase \in {"busy", "drq"} => pc \in {"poll", "data"} /\ job.op = req.op
    /\ phase = "storing" => job.op = "write"

(***************************************************************************)
(* Unless a port write was lost: while the driver goes through the ports   *)
(* the drive is ready and the ports written so far hold the bytes of the   *)
(* sector asked for; from the command on the drive's job is the driver's   *)
(* request.                                                                *)
(***************************************************************************)
RegistersHold ==
    /\ pc \in {"low", "mid", "high", "device", "command"} => phase = "ready"
    /\ pc \in {"mid", "high", "device", "command"} => reg.low = Low(req.sector)
    /\ pc \in {"high", "device", "command"} => reg.mid = Mid(req.sector)
    /\ pc \in {"device", "command"} => reg.high = High(req.sector)
    /\ pc \in {"poll", "data", "release"} => job = req
    /\ pc = "poll" => phase # "storing"

(***************************************************************************)
(* The drive's buffer holds the sector it reads, and the words exchanged   *)
(* so far are the same on both sides.                                      *)
(***************************************************************************)
WordsAgree ==
    /\ phase = "drq" /\ job.op = "read" => cache = media[job.sector]
    /\ pc = "data" => \A w \in 1 .. done : cache[w] = buf[w]

(***************************************************************************)
(* A call about to release the lock leaves the sector in memory and on the *)
(* disk equal, one that is being stored counted as stored.                 *)
(***************************************************************************)
Served ==
    pc = "release" /\ "unstored" \notin trouble => buf = Stored[req.sector]

(***************************************************************************)
(* The invariant. RegistersHold and Served are what the driver loses with  *)
(* the first port write the drive ignores, and it never learns of that:    *)
(* the rest must hold without them.                                        *)
(***************************************************************************)
DiskInv ==
    /\ TypeOK
    /\ DriveFollows
    /\ WordsAgree
    /\ "lost" \notin trouble => RegistersHold /\ Served

-----------------------------------------------------------------------------
(***************************************************************************)
(* The invariant holds at first, and every step of driver and drive keeps  *)
(* it.                                                                     *)
(***************************************************************************)
LEMMA InitInv == Init => DiskInv
  <1>. SUFFICES ASSUME Init PROVE DiskInv
    OBVIOUS
  <1>. USE DiskAssumption DEF Init
  <1>1. TypeOK
    BY DEF TypeOK, Content, Word, Ports, Blank, Sector
  <1>2. DriveFollows
    BY DEF DriveFollows, Ports, Requested
  <1>3. WordsAgree /\ RegistersHold /\ Served
    BY DEF WordsAgree, RegistersHold, Served
  <1>. QED BY <1>1, <1>2, <1>3 DEF DiskInv

LEMMA CallInv ==
    ASSUME DiskInv, Call
    PROVE  DiskInv'
  <1>. USE DiskAssumption DEF DiskInv, Call, drive, driver
  <1>1. TypeOK'
    BY DEF TypeOK, Content, Word, Ports, Requested, DriveFollows, Sector
  <1>2. DriveFollows'
    BY DEF TypeOK, Ports, Requested, DriveFollows
  <1>3. WordsAgree'
    BY DEF TypeOK, Content, Word, Ports, Requested, DriveFollows, WordsAgree
  <1>4. ("lost" \notin trouble => RegistersHold)'
    BY DEF TypeOK, Ports, Requested, DriveFollows, RegistersHold
  <1>5. ("lost" \notin trouble => Served)'
    BY DEF TypeOK, Content, Word, Ports, Requested, DriveFollows,
           RegistersHold, WordsAgree, Served, Stored
  <1>. QED BY <1>1, <1>2, <1>3, <1>4, <1>5

LEMMA AcquireInv ==
    ASSUME DiskInv, Acquire
    PROVE  DiskInv'
  <1>. USE DiskAssumption DEF DiskInv, Acquire, drive, driver
  <1>1. TypeOK'
    BY DEF TypeOK, Content, Word, Ports, Requested, DriveFollows, Sector
  <1>2. DriveFollows'
    BY DEF TypeOK, Ports, Requested, DriveFollows
  <1>3. WordsAgree'
    BY DEF TypeOK, Content, Word, Ports, Requested, DriveFollows, WordsAgree
  <1>4. ("lost" \notin trouble => RegistersHold)'
    BY DEF TypeOK, Ports, Requested, DriveFollows, RegistersHold
  <1>5. ("lost" \notin trouble => Served)'
    BY DEF TypeOK, Content, Word, Ports, Requested, DriveFollows,
           RegistersHold, WordsAgree, Served, Stored
  <1>. QED BY <1>1, <1>2, <1>3, <1>4, <1>5

LEMMA OutRegisterInv ==
    ASSUME DiskInv, OutRegister
    PROVE  DiskInv'
  <1>. USE DiskAssumption DEF DiskInv, drive, driver
  <1>. DEFINE value == RegisterValue(req.sector)[pc]
  <1>1. req \in Requested /\ req.sector \in Sector /\ pc \in Ports
    BY DEF TypeOK, Requested, DriveFollows, Ports, OutRegister, Sector
  <1>2. /\ value \in 0 .. BYTE - 1
        /\ pc = "device" => value = 0
        /\ pc = "low" => value = Low(req.sector)
        /\ pc = "mid" => value = Mid(req.sector)
        /\ pc = "high" => value = High(req.sector)
    BY <1>1, BytesOfSector DEF RegisterValue, DeviceBits, Ports
  <1>3. /\ pc' \in Ports \cup {"command"}
        /\ pc' \in {"mid", "high", "device", "command"} <=>
                pc \in {"low", "mid", "high", "device"}
        /\ pc' \in {"high", "device", "command"} <=>
                pc \in {"mid", "high", "device"}
        /\ pc' \in {"device", "command"} <=> pc \in {"high", "device"}
        /\ pc' # "count"
    BY DEF OutRegister, After, Ports
  <1>. HIDE DEF value
  <1>4. /\ IF phase = "ready"
           THEN reg' = [reg EXCEPT ![pc] = value] /\ trouble' = trouble
           ELSE reg' = reg /\ trouble' = trouble \cup {"lost"}
        /\ UNCHANGED <<req, buf, done, disk_lock, calls, phase, job, cache,
                       media>>
    BY DEF OutRegister, value
  <1>5. TypeOK'
    <2>1. reg' \in [Ports -> 0 .. BYTE - 1]
      BY <1>1, <1>2, <1>4 DEF TypeOK
    <2>2. trouble' \subseteq {"lock", "lost", "refused", "unstored"}
      BY <1>4 DEF TypeOK
    <2>. QED BY <1>3, <1>4, <2>1, <2>2 DEF TypeOK
  <1>6. DriveFollows'
    BY <1>1, <1>2, <1>3, <1>4 DEF TypeOK, Ports, DriveFollows, Requested
  <1>7. WordsAgree'
    BY <1>1, <1>3, <1>4 DEF WordsAgree, DriveFollows, Ports
  <1>8. ("lost" \notin trouble => RegistersHold)'
    BY <1>1, <1>2, <1>3, <1>4 DEF TypeOK, RegistersHold, Ports
  <1>9. ("lost" \notin trouble => Served)'
    BY <1>1, <1>3, <1>4 DEF Served, Ports
  <1>. QED BY <1>5, <1>6, <1>7, <1>8, <1>9

LEMMA OutCommandInv ==
    ASSUME DiskInv, OutCommand
    PROVE  DiskInv'
  <1>. USE DiskAssumption DEF DiskInv, drive, driver
  <1>1. req \in Requested /\ req.sector \in Sector /\ Address \in Sector
    <2>1. reg \in [Ports -> 0 .. BYTE - 1] /\ reg.device = 0
      BY DEF TypeOK, DriveFollows
    <2>2. Address = BYTE * (BYTE * reg.high + reg.mid) + reg.low
      BY <2>1 DEF Address, Ports
    <2>3. BYTE * reg.high + reg.mid \in 0 .. BYTE * BYTE - 1
      BY <2>1, TwoDigits DEF Ports
    <2>4. Address \in 0 .. BYTE * BYTE * BYTE - 1
      <3>. DEFINE c == BYTE * BYTE
                  x == BYTE * reg.high + reg.mid
      <3>1. c \in Nat /\ x \in Nat /\ x <= c - 1 /\ reg.low \in 0 .. BYTE - 1
        BY <2>1, <2>3 DEF Ports
      <3>2. Address = BYTE * x + reg.low
        BY <2>2
      <3>. HIDE DEF c, x
      <3>3. BYTE * x <= BYTE * (c - 1) /\ BYTE * x \in Nat
        BY <3>1
      <3>4. BYTE * (c - 1) = BYTE * c - BYTE
        BY <3>1
      <3>5. Address \in 0 .. BYTE * c - 1
        BY <3>1, <3>2, <3>3, <3>4
      <3>. QED BY <3>1, <3>5 DEF c
    <2>. QED BY <2>4 DEF TypeOK, Requested, DriveFollows, Sector, OutCommand
  <1>2. RegistersHold => Address = req.sector
    <2>. HAVE RegistersHold
    <2>1. /\ reg.low = Low(req.sector) /\ reg.mid = Mid(req.sector)
          /\ reg.high = High(req.sector) /\ reg.device = 0
      BY DEF RegistersHold, DriveFollows, OutCommand
    <2>. QED BY <1>1, <2>1, BytesOfSector DEF Address
  <1>. USE DEF OutCommand
  <1>3. job' \in [op : {"read", "write"}, sector : Sector] \cup {None}
    BY <1>1 DEF TypeOK, Requested
  <1>4. TypeOK'
    BY <1>3 DEF TypeOK
  <1>5. req # None /\ None \notin [op : {"read", "write"}, sector : Sector]
    BY <1>1 DEF Requested, Sector
  <1>6. phase = "ready" => job'.op = req.op /\ job' # None
    BY <1>1, <1>5 DEF Requested
  <1>7. DriveFollows'
    <2>1. CASE phase = "ready"
      <3>1. /\ phase' = "busy" /\ pc' = "poll" /\ req' = req /\ reg' = reg
            /\ done' = done /\ done = 0 /\ reg.device = 0
        BY <2>1 DEF DriveFollows
      <3>. QED BY <1>5, <1>6, <2>1, <3>1 DEF DriveFollows
    <2>2. CASE phase # "ready"
      BY <1>5, <2>2 DEF DriveFollows
    <2>. QED BY <2>1, <2>2
  <1>8. WordsAgree'
    BY DEF WordsAgree, DriveFollows
  <1>9. ("lost" \notin trouble => RegistersHold)'
    BY <1>1, <1>2 DEF RegistersHold, Requested
  <1>10. ("lost" \notin trouble => Served)'
    BY DEF Served
  <1>. QED BY <1>4, <1>7, <1>8, <1>9, <1>10

LEMMA PollInv ==
    ASSUME DiskInv, Poll
    PROVE  DiskInv'
  <1>. USE DiskAssumption DEF DiskInv, Poll, drive, driver
  <1>1. TypeOK'
    BY DEF TypeOK, Content, Word, Ports, Requested, DriveFollows, Sector
  <1>2. DriveFollows'
    BY DEF TypeOK, Ports, Requested, DriveFollows
  <1>3. WordsAgree'
    BY DEF TypeOK, Content, Word, Ports, Requested, DriveFollows, WordsAgree
  <1>4. ("lost" \notin trouble => RegistersHold)'
    BY DEF TypeOK, Ports, Requested, DriveFollows, RegistersHold
  <1>5. ("lost" \notin trouble => Served)'
    BY DEF TypeOK, Content, Word, Ports, Requested, DriveFollows,
           RegistersHold, WordsAgree, Served, Stored
  <1>. QED BY <1>1, <1>2, <1>3, <1>4, <1>5

LEMMA ExchangeWordInv ==
    ASSUME DiskInv, ExchangeWord
    PROVE  DiskInv'
  <1>. USE DiskAssumption DEF DiskInv, drive, driver
  <1>. DEFINE w == done + 1
  <1>1. /\ w \in Word /\ done \in 0 .. WORDS - 1
        /\ pc = "data" /\ phase = "drq" /\ job # None /\ job.op = req.op
        /\ req \in Requested /\ req.op \in {"read", "write"}
        /\ job \in [op : {"read", "write"}, sector : Sector]
    BY DEF TypeOK, Requested, DriveFollows, Word, ExchangeWord
  <1>2. /\ IF req.op = "read"
           THEN buf' = [buf EXCEPT ![w] = cache[w]] /\ cache' = cache
           ELSE cache' = [cache EXCEPT ![w] = buf[w]] /\ buf' = buf
        /\ IF w = WORDS
           THEN /\ pc' = "release" /\ done' = 0
                /\ phase' = IF req.op = "read" THEN "ready" ELSE "storing"
           ELSE pc' = pc /\ done' = w /\ phase' = phase
        /\ UNCHANGED <<req, disk_lock, calls, reg, job, media, trouble>>
    BY <1>1 DEF ExchangeWord, LastWord, Word
  <1>3. buf \in [Word -> Data] /\ cache \in [Word -> Data]
    BY DEF TypeOK, Content
  <1>4. \A v \in 1 .. w : buf'[v] = cache'[v]
    <2>1. \A v \in 1 .. done : cache[v] = buf[v]
      BY <1>1 DEF WordsAgree
    <2>2. w \in Word /\ \A v \in 1 .. done : v \in Word /\ v # w
      BY <1>1 DEF Word
    <2>. HIDE DEF w
    <2>3. /\ \A v \in 1 .. done : buf'[v] = buf[v] /\ cache'[v] = cache[v]
          /\ buf'[w] = cache'[w]
      <3>1. CASE req.op = "read"
        BY <1>2, <1>3, <2>2, <3>1
      <3>2. CASE req.op # "read"
        BY <1>2, <1>3, <2>2, <3>2
      <3>. QED BY <3>1, <3>2
    <2>4. \A v \in 1 .. w : v = w \/ v \in 1 .. done
      BY <1>1 DEF w
    <2>. QED BY <2>1, <2>3, <2>4
  <1>5. buf' \in [Word -> Data] /\ cache' \in [Word -> Data]
    BY <1>1, <1>2, <1>3
  <1>6. w = WORDS => buf' = cache'
    BY <1>4, <1>5 DEF Word
  <1>7. TypeOK'
    BY <1>1, <1>2, <1>5 DEF TypeOK, Content, Word
  <1>8. DriveFollows'
    BY <1>1, <1>2 DEF TypeOK, DriveFollows, Word
  <1>9. WordsAgree'
    BY <1>1, <1>2, <1>4 DEF WordsAgree, Word
  <1>10. ("lost" \notin trouble => RegistersHold)'
    BY <1>1, <1>2 DEF RegistersHold
  <1>11. ("lost" \notin trouble => Served)'
    <2>. SUFFICES ASSUME w = WORDS, "lost" \notin trouble
                  PROVE  buf' = Stored'[req.sector]
      BY <1>1, <1>2 DEF Served
    <2>1. job = req /\ job.sector \in Sector
      BY <1>1 DEF RegistersHold
    <2>2. CASE req.op = "read"
      BY <1>1, <1>2, <1>6, <2>1, <2>2 DEF WordsAgree, Stored
    <2>3. CASE req.op = "write"
      BY <1>1, <1>2, <1>6, <2>1, <2>3 DEF Stored, TypeOK
    <2>. QED BY <1>1, <2>2, <2>3
  <1>. QED BY <1>7, <1>8, <1>9, <1>10, <1>11

LEMMA ReleaseInv ==
    ASSUME DiskInv, Release
    PROVE  DiskInv'
  <1>. USE DiskAssumption DEF DiskInv, Release, Unlocked, drive, driver
  <1>1. TypeOK'
    BY DEF TypeOK, Content, Word, Ports, Requested, DriveFollows, Sector
  <1>2. DriveFollows'
    BY DEF TypeOK, Ports, Requested, DriveFollows
  <1>3. WordsAgree'
    BY DEF TypeOK, Content, Word, Ports, Requested, DriveFollows, WordsAgree
  <1>4. ("lost" \notin trouble => RegistersHold)'
    BY DEF TypeOK, Ports, Requested, DriveFollows, RegistersHold
  <1>5. ("lost" \notin trouble => Served)'
    BY DEF TypeOK, Content, Word, Ports, Requested, DriveFollows,
           RegistersHold, WordsAgree, Served, Stored
  <1>. QED BY <1>1, <1>2, <1>3, <1>4, <1>5

LEMMA AnswerInv ==
    ASSUME DiskInv, Answer
    PROVE  DiskInv'
  <1>. USE DiskAssumption DEF DiskInv, Answer, drive, driver
  <1>1. TypeOK'
    BY DEF TypeOK, Content, Word, Ports, Requested, DriveFollows, Sector
  <1>2. DriveFollows'
    BY DEF TypeOK, Ports, Requested, DriveFollows
  <1>3. WordsAgree'
    BY DEF TypeOK, Content, Word, Ports, Requested, DriveFollows, WordsAgree
  <1>4. ("lost" \notin trouble => RegistersHold)'
    BY DEF TypeOK, Ports, Requested, DriveFollows, RegistersHold
  <1>5. ("lost" \notin trouble => Served)'
    BY DEF TypeOK, Content, Word, Ports, Requested, DriveFollows,
           RegistersHold, WordsAgree, Served, Stored
  <1>. QED BY <1>1, <1>2, <1>3, <1>4, <1>5

LEMMA RefuseInv ==
    ASSUME DiskInv, Refuse
    PROVE  DiskInv'
  <1>. USE DiskAssumption DEF DiskInv, Refuse, drive, driver
  <1>1. TypeOK'
    BY DEF TypeOK, Content, Word, Ports, Requested, DriveFollows, Sector
  <1>2. DriveFollows'
    BY DEF TypeOK, Ports, Requested, DriveFollows
  <1>3. WordsAgree'
    BY DEF TypeOK, Content, Word, Ports, Requested, DriveFollows, WordsAgree
  <1>4. ("lost" \notin trouble => RegistersHold)'
    BY DEF TypeOK, Ports, Requested, DriveFollows, RegistersHold
  <1>5. ("lost" \notin trouble => Served)'
    BY DEF TypeOK, Content, Word, Ports, Requested, DriveFollows,
           RegistersHold, WordsAgree, Served, Stored
  <1>. QED BY <1>1, <1>2, <1>3, <1>4, <1>5

LEMMA StoreInv ==
    ASSUME DiskInv, Store
    PROVE  DiskInv'
  <1>. USE DiskAssumption DEF DiskInv, Store, drive, driver
  <1>1. TypeOK'
    BY DEF TypeOK, Content, Word, Ports, Requested, DriveFollows, Sector
  <1>2. DriveFollows'
    BY DEF TypeOK, Ports, Requested, DriveFollows
  <1>3. WordsAgree'
    BY DEF TypeOK, Content, Word, Ports, Requested, DriveFollows, WordsAgree
  <1>4. ("lost" \notin trouble => RegistersHold)'
    BY DEF TypeOK, Ports, Requested, DriveFollows, RegistersHold
  <1>5. ("lost" \notin trouble => Served)'
    BY DEF TypeOK, Content, Word, Ports, Requested, DriveFollows,
           RegistersHold, WordsAgree, Served, Stored
  <1>. QED BY <1>1, <1>2, <1>3, <1>4, <1>5

LEMMA FailToStoreInv ==
    ASSUME DiskInv, FailToStore
    PROVE  DiskInv'
  <1>. USE DiskAssumption DEF DiskInv, FailToStore, drive, driver
  <1>1. TypeOK'
    BY DEF TypeOK, Content, Word, Ports, Requested, DriveFollows, Sector
  <1>2. DriveFollows'
    BY DEF TypeOK, Ports, Requested, DriveFollows
  <1>3. WordsAgree'
    BY DEF TypeOK, Content, Word, Ports, Requested, DriveFollows, WordsAgree
  <1>4. ("lost" \notin trouble => RegistersHold)'
    BY DEF TypeOK, Ports, Requested, DriveFollows, RegistersHold
  <1>5. ("lost" \notin trouble => Served)'
    BY DEF TypeOK, Content, Word, Ports, Requested, DriveFollows,
           RegistersHold, WordsAgree, Served, Stored
  <1>. QED BY <1>1, <1>2, <1>3, <1>4, <1>5

LEMMA Inductive == DiskInv /\ [Next]_vars => DiskInv'
  <1>1. ASSUME DiskInv, Next PROVE DiskInv'
    BY <1>1, CallInv, AcquireInv, OutRegisterInv, OutCommandInv, PollInv,
       ExchangeWordInv, ReleaseInv, AnswerInv, RefuseInv, StoreInv,
       FailToStoreInv
       DEF Next, Driver, Drive
  <1>2. ASSUME DiskInv, UNCHANGED vars PROVE DiskInv'
    <2>1. TypeOK'
      BY <1>2 DEF DiskInv, TypeOK, vars, driver, drive
    <2>2. DriveFollows' /\ WordsAgree'
      BY <1>2 DEF DiskInv, DriveFollows, WordsAgree, vars, driver, drive
    <2>3. ("lost" \notin trouble => RegistersHold /\ Served)'
      BY <1>2 DEF DiskInv, RegistersHold, Served, Stored, vars, driver, drive
    <2>. QED BY <2>1, <2>2, <2>3 DEF DiskInv
  <1>. QED BY <1>1, <1>2

LEMMA DiskInvariant == Spec => []DiskInv
  BY InitInv, Inductive, PTL DEF Spec

-----------------------------------------------------------------------------
(***************************************************************************)
(* Type correctness. The conjunct to prove is that the sector of the       *)
(* drive's job is one the disk has, whatever the ports hold, and that no   *)
(* register gets more than a byte.                                         *)
(***************************************************************************)
THEOREM DiskTypes == Spec => []TypeOK
  <1>1. DiskInv => TypeOK
    BY DEF DiskInv
  <1>. QED BY <1>1, DiskInvariant, PTL

(***************************************************************************)
(* k_operatesector writes the ports without looking at the status, and the *)
(* first such write that the drive ignores always meets a sector that an   *)
(* earlier call has left it to store: no read and no refused command       *)
(* leaves the drive deaf.                                                  *)
(***************************************************************************)
THEOREM DiskOnlyStoringLoses == Spec => OnlyStoringLoses
  <1>. DEFINE Lost == trouble' \ trouble = {"lost"}
              Storing == phase = "storing" /\ job.op = "write"
  <1>1. ASSUME DiskInv, Next, Lost PROVE Storing
    <2>. USE <1>1 DEF DiskInv
    <2>1. phase # "ready" /\ "lost" \notin trouble
          /\ pc \in {"count", "low", "mid", "high", "device", "command"}
      BY DEF Next, Driver, Drive, Call, Acquire, OutRegister, OutCommand, Poll,
             ExchangeWord, Release, Answer, Refuse, Store, FailToStore, Ports
    <2>. QED BY <2>1 DEF TypeOK, DriveFollows, RegistersHold
  <1>2. DiskInv /\ [Next]_vars => [Lost => Storing]_vars
    BY <1>1
  <1>. QED BY <1>2, DiskInvariant, PTL DEF Spec, OnlyStoringLoses

(***************************************************************************)
(* The refinement: the initial states, then the steps while nothing is     *)
(* lost.                                                                   *)
(***************************************************************************)
LEMMA InitImplements == Init => Atomic!Init
  BY DiskAssumption DEF Init, Atomic!Init, Stored, Blank, Content, Word

Spoiled == trouble \cap {"lost", "unstored"} # {}

LEMMA StepImplements ==
    ASSUME DiskInv, Next, ~Spoiled'
    PROVE  [Atomic!Next]_(Atomic!vars)
  <1>. DEFINE request == IF pc = "idle" THEN None ELSE req
  <1>. USE DEF DiskInv, Spoiled, Atomic!vars, Atomic!Next, driver, drive
  <1>1. CASE Call
    <2>1. Atomic!Ask
      <3>1. req' = [op |-> req'.op, sector |-> req'.sector]
            /\ req'.op \in {"read", "write"} /\ req'.sector \in Sector
        BY <1>1, DiskAssumption DEF Call, Requested, Sector
      <3>2. buf' \in Content
        BY <1>1 DEF Call, TypeOK
      <3>3. Stored' = Stored
        BY <1>1 DEF Call, Stored
      <3>4. ~Spoiled /\ pc = "idle" /\ pc' = "acquire"
        BY <1>1 DEF Call
      <3>. QED BY <3>1, <3>2, <3>3, <3>4 DEF Atomic!Ask
    <2>. QED BY <2>1
  <1>2. CASE Acquire
    BY <1>2 DEF Acquire, Stored
  <1>3. CASE OutRegister
    BY <1>3 DEF OutRegister, Stored, After, Ports
  <1>4. CASE OutCommand
    BY <1>4 DEF OutCommand, Stored
  <1>5. CASE Poll
    BY <1>5 DEF Poll, Stored
  <1>6. CASE ExchangeWord
    <2>1. /\ ~Spoiled /\ pc = "data" /\ pc' # "idle" /\ phase = "drq"
          /\ req \in Requested /\ req # None /\ req' = req /\ media' = media
          /\ job = req /\ job' = job
      BY <1>6, DiskAssumption DEF ExchangeWord, DriveFollows, RegistersHold,
         TypeOK
    <2>2. Stored = media
      BY <2>1 DEF Stored
    <2>3. CASE req.op = "read"
      <3>1. Stored' = media
        BY <1>6, <2>1, <2>3 DEF ExchangeWord, Stored
      <3>2. buf' \in Content
        BY ExchangeWordInv, <1>6 DEF TypeOK
      <3>3. Atomic!Fill
        BY <2>1, <2>2, <2>3, <3>1, <3>2 DEF Atomic!Fill
      <3>. QED BY <3>3
    <2>4. CASE req.op = "write" /\ phase' = "storing"
      <3>1. buf' = buf /\ pc' = "release"
        BY <1>6, <2>1, <2>4, DiskAssumption DEF ExchangeWord, LastWord, TypeOK
      <3>2. buf' = Stored'[req'.sector]
        BY ExchangeWordInv, <1>6, <2>1, <3>1 DEF Served
      <3>3. Stored' = [media EXCEPT ![req.sector] = cache']
        BY <2>1, <2>4 DEF Stored
      <3>4. Stored' = [media EXCEPT ![req.sector] = buf]
        BY <2>1, <3>1, <3>2, <3>3, DiskAssumption DEF TypeOK, Requested, Sector
      <3>5. Atomic!Put
        BY <2>1, <2>2, <2>4, <3>1, <3>4 DEF Atomic!Put
      <3>. QED BY <3>5
    <2>5. CASE req.op = "write" /\ phase' # "storing"
      BY <1>6, <2>1, <2>2, <2>5 DEF ExchangeWord, Stored
    <2>. QED BY <2>1, <2>3, <2>4, <2>5 DEF Requested
  <1>7. CASE Release
    <2>1. /\ ~Spoiled /\ pc = "release" /\ pc' = "idle" /\ req # None
          /\ buf = Stored[req.sector] /\ buf' = buf /\ Stored' = Stored
      BY <1>7 DEF Release, DriveFollows, Served, Stored
    <2>2. Atomic!Return
      BY <2>1 DEF Atomic!Return
    <2>. QED BY <2>2
  <1>8. CASE Answer
    BY <1>8 DEF Answer, Stored
  <1>9. CASE Refuse
    BY <1>9 DEF Refuse, Stored
  <1>10. CASE Store
    BY <1>10 DEF Store, Stored
  <1>11. CASE FailToStore
    BY <1>11 DEF FailToStore
  <1>. QED BY <1>1, <1>2, <1>3, <1>4, <1>5, <1>6, <1>7, <1>8, <1>9, <1>10,
              <1>11
           DEF Next, Driver, Drive

(***************************************************************************)
(* k_readsector and k_writesector implement Sectors: whatever the order of *)
(* the port and word transfers and of the drive's own steps, a request     *)
(* reads or writes exactly the sector it names, as if at once, until the   *)
(* drive ignores a write or fails to store.                                *)
(***************************************************************************)
THEOREM DiskImplementsSectors == Spec => ImplementsSectors
  <1>1. DiskInv /\ [Next]_vars => [Atomic!Next]_(Atomic!vars)
    <2>. SUFFICES ASSUME DiskInv, [Next]_vars
                  PROVE  [Atomic!Next]_(Atomic!vars)
      OBVIOUS
    <2>1. CASE Next /\ ~Spoiled'
      BY <2>1, StepImplements
    <2>2. CASE Spoiled'
      BY <2>2 DEF Atomic!Next, Atomic!Spoil, Spoiled
    <2>3. CASE UNCHANGED vars
      BY <2>3 DEF vars, driver, drive, Atomic!vars, Stored
    <2>. QED BY <2>1, <2>2, <2>3
  <1>. QED BY <1>1, InitImplements, DiskInvariant, PTL
           DEF Spec, ImplementsSectors, Atomic!Spec

=============================================================================
