--------------------------- MODULE StorageProofs ---------------------------
(***************************************************************************)
(* Theorems about Storage.tla, for every set of drives, sizes and heap:    *)
(* the sector arithmetic of read_sector and write_sector, the block the    *)
(* heap loses with each failed call, and that reads and writes implement   *)
(* SectorStore.tla.                                                        *)
(***************************************************************************)
EXTENDS Storage, FiniteSetTheorems, TLAPS

\* Multiplying by SectorBytes and dividing by a multiple of it cancels.
LEMMA Cancel ==
  ASSUME NEW b \in Nat \ {0}, NEW s \in Nat, NEW k \in {1, 4}
  PROVE  (s * b) \div (k * b) = s \div k
<1>1. CASE k = 1
  BY <1>1, Z3
<1>2. CASE k = 4
  <2>1. PICK q \in Nat, r \in 0 .. 3 : s = 4 * q + r
    <3>1. s \div 4 \in Nat /\ s % 4 \in 0 .. 3 /\ s = 4 * (s \div 4) + (s % 4)
      BY SMT
    <3> QED
      BY <3>1
  <2>2. s \div 4 = q
    BY <2>1, SMT
  <2>3. s * b = q * (4 * b) + r * b /\ r * b >= 0 /\ r * b < 4 * b
    BY <2>1, Z3
  <2>4. (s * b) \div (4 * b) = q
    BY <2>3, Z3
  <2> QED
    BY <1>2, <2>2, <2>4
<1> QED
  BY <1>1, <1>2

\* For a sector whose byte address fits an int, the code finds the drive's
\* sector that contains it and the right place in there: the arithmetic of
\* storage.c:34-36 wraps nowhere.
THEOREM AddressesSector ==
  ASSUME NEW d \in Devices, NEW s \in 0 .. Limit - 1
  PROVE  /\ RealSector(d, s) = s \div UnitsPerSector(d)
         /\ Offset(d, s) \div SectorBytes = s % UnitsPerSector(d)
<1> DEFINE k == UnitsPerSector(d)
<1>1. k \in {1, 4} /\ sector_size(d) = k * SectorBytes
  BY DEF UnitsPerSector, ATAPIUnits, sector_size
<1>2. /\ SectorBytes \in Nat \ {0} /\ IntModulus \in Nat \ {0}
      /\ IntModulus % (2 * SectorBytes) = 0
  BY StorageAssumption
<1>3. IntModulus = 2 * (Limit * SectorBytes) /\ Limit \in Nat
  BY <1>2, Z3 DEF Limit
<1>4. s \in Nat /\ s * SectorBytes \in Nat /\ s * SectorBytes < Limit * SectorBytes
  BY <1>2, <1>3, Z3
<1>5. Signed(s * SectorBytes) = s * SectorBytes
  BY <1>2, <1>3, <1>4, SMT DEF Signed
<1>6. Quotient(s * SectorBytes, k * SectorBytes) = s \div k
  <2>1. (s * SectorBytes) \div (k * SectorBytes) = s \div k
    BY <1>1, <1>2, <1>4, Cancel
  <2>2. s * SectorBytes >= 0
    BY <1>4
  <2> HIDE DEF k
  <2> QED
    BY <2>1, <2>2 DEF Quotient
<1>7. s \div k \in Nat /\ s \div k <= s /\ s - (s \div k) * k = s % k /\ s % k \in Nat
  <2>1. CASE k = 1
    BY <2>1, <1>4, SMT
  <2>2. CASE k = 4
    BY <2>2, <1>4, SMT
  <2> QED
    BY <1>1, <2>1, <2>2
<1>8. s <= s * SectorBytes
  BY <1>2, <1>4, Z3
<1>9. Unsigned(s \div k) = s \div k
  BY <1>2, <1>3, <1>4, <1>7, <1>8, SMT DEF Unsigned
<1>10. RealSector(d, s) = s \div k
  BY <1>1, <1>5, <1>6, <1>9 DEF RealSector
<1>11. (s % k) * SectorBytes \in Nat /\ (s % k) * SectorBytes <= s * SectorBytes
  <2>1. \A m, n, b \in Nat : m <= n => m * b \in Nat /\ m * b <= n * b
    BY Z3
  <2>2. s % k \in Nat /\ s % k <= s
    BY <1>1, <1>4, <1>7, SMT
  <2> HIDE DEF k
  <2> QED
    BY <2>1, <2>2, <1>2, <1>4
<1>12. Offset(d, s) = (s % k) * SectorBytes
  <2>1. Offset(d, s) = Unsigned((s % k) * SectorBytes)
    BY <1>7, <1>10 DEF Offset
  <2> QED
    BY <2>1, <1>2, <1>3, <1>4, <1>11, SMT DEF Unsigned
<1>13. Offset(d, s) \div SectorBytes = s % k
  BY <1>2, <1>7, <1>12, Z3
<1> QED
  BY <1>10, <1>13

-----------------------------------------------------------------------------
\* A request names an existing drive and a sector, at every point of a call.
CallInv == request \in Requests /\ moved \in Nat

\* A call serves one of the requests.
LEMMA CallInvInductive ==
  /\ Init => CallInv
  /\ CallInv /\ [Next]_vars => CallInv'
<1>1. Init => CallInv
  BY DEF Init, Store!Init, CallInv
<1>2. CallInv /\ [Next]_vars => CallInv'
  BY DEF CallInv, Next, Step, Call, Allocate, ReadDrive, FailCall, CopyOut, CopyIn,
         WriteDrive, FinishUnit, Halted, vars, client
<1> QED
  BY <1>1, <1>2

\* The unit that read_sector copies out, or write_sector replaces, is the one
\* the client named, on every drive and whatever sectors a call spans.
THEOREM CopiesRightUnit == Spec => []RightUnit
<1>1. CallInv => RightUnit
  <2> SUFFICES ASSUME CallInv, sector < Limit
               PROVE  /\ place \in DOMAIN Units(request.device, real_sector)
                      /\ Units(request.device, real_sector)[place] = sector
    BY DEF RightUnit
  <2> DEFINE d == request.device
             k == UnitsPerSector(d)
  <2>1. d \in Devices /\ sector \in Nat
    BY StorageAssumption DEF CallInv, sector
  <2>2. Limit \in Int
    BY StorageAssumption, Z3 DEF Limit
  <2>3. sector \in 0 .. Limit - 1
    BY <2>1, <2>2
  <2>4. real_sector = sector \div k /\ place = sector % k
    BY <2>1, <2>3, AddressesSector DEF real_sector, place
  <2>5. k \in {1, 4}
    BY DEF UnitsPerSector, ATAPIUnits
  <2>6. sector % k \in 0 .. k - 1 /\ (sector \div k) * k + (sector % k) = sector
    <3>1. CASE k = 1
      BY <3>1, <2>1, SMT
    <3>2. CASE k = 4
      BY <3>2, <2>1, SMT
    <3> QED
      BY <2>5, <3>1, <3>2
  <2> QED
    BY <2>4, <2>6 DEF Units
<1> QED
  BY <1>1, CallInvInductive, PTL DEF Spec

-----------------------------------------------------------------------------
\* The inductive invariant behind LeakIsExact: the kernel dies in kmalloc,
\* with an empty heap.
LeakInv ==
  /\ LeakIsExact
  /\ free \in Nat /\ failures \in Nat
  /\ pc \in {"idle", "kmalloc", "ide_read_sectors", "memory_copy", "ide_write_sectors"}
  /\ exited => pc = "kmalloc"

\* Initially the heap is whole.
LEMMA InitLeakInv == Init => LeakInv
BY StorageAssumption DEF Init, LeakInv, LeakIsExact

\* A call takes one block per unit, and gives it back unless the unit fails.
LEMMA NextLeakInv == LeakInv /\ [Next]_vars => LeakInv'
<1> SUFFICES ASSUME LeakInv, [Next]_vars PROVE LeakInv'
  OBVIOUS
<1> USE DEF LeakInv, LeakIsExact
<1>1. ASSUME NEW r \in Requests, Call(r) PROVE LeakInv'
  BY <1>1 DEF Call
<1>2. CASE Allocate
  <2>1. CASE free = 0
    BY <1>2, <2>1 DEF Allocate, client
  <2>2. CASE free # 0
    BY <1>2, <2>2 DEF Allocate, client
  <2> QED
    BY <2>1, <2>2
<1>3. CASE ReadDrive
  BY <1>3 DEF ReadDrive, FailCall, client
<1>4. CASE CopyOut
  <2>1. CASE moved + 1 = Cardinality(DOMAIN request.data)
    BY <1>4, <2>1 DEF CopyOut, FinishUnit
  <2>2. CASE moved + 1 # Cardinality(DOMAIN request.data)
    BY <1>4, <2>2 DEF CopyOut, FinishUnit
  <2> QED
    BY <2>1, <2>2
<1>5. CASE CopyIn
  BY <1>5 DEF CopyIn, client
<1>6. CASE WriteDrive
  <2>1. CASE FailCall
    BY <1>6, <2>1 DEF WriteDrive, FailCall
  <2>2. CASE FinishUnit
    BY <1>6, <2>2 DEF WriteDrive, FinishUnit
  <2> QED
    BY <1>6, <2>1, <2>2 DEF WriteDrive
<1>7. CASE UNCHANGED vars
  BY <1>7 DEF vars
<1> QED
  BY <1>1, <1>2, <1>3, <1>4, <1>5, <1>6, <1>7 DEF Next, Step, Halted

\* Each failed call costs the heap one block, for good, and nothing else does:
\* the kernel runs out of memory after exactly HeapBlocks failed calls.
THEOREM LeakIsOnePerFailure == Spec => []LeakIsExact
<1>1. LeakInv => LeakIsExact
  BY DEF LeakInv
<1> QED
  BY <1>1, InitLeakInv, NextLeakInv, PTL DEF Spec

-----------------------------------------------------------------------------
\* A request is for at least one unit, and has data for each.
LEMMA RequestFacts ==
  ASSUME NEW r \in Requests
  PROVE  /\ Cardinality(DOMAIN r.data) \in Nat \ {0}
         /\ DOMAIN r.data = 0 .. Cardinality(DOMAIN r.data) - 1
         /\ \A c \in DOMAIN r.data : r.data[c] \in Data
         /\ r.device \in Devices /\ r.sector \in Nat /\ r.kind \in {"read", "write"}
<1>1. /\ IsFiniteSet(DOMAIN r.data) /\ DOMAIN r.data # {}
      /\ r.data \in [0 .. Cardinality(DOMAIN r.data) - 1 -> Data]
      /\ r.device \in Devices /\ r.sector \in Nat /\ r.kind \in {"read", "write"}
  BY StorageAssumption
<1>2. Cardinality(DOMAIN r.data) \in Nat
  BY <1>1, FS_CardinalityType
<1>3. DOMAIN r.data = 0 .. Cardinality(DOMAIN r.data) - 1
  BY <1>1
<1> QED
  BY <1>1, <1>2, <1>3

\* Limit is not negative, and far from where uint32_t wraps.
LEMMA LimitFacts == Limit \in Nat /\ IntModulus \in Nat /\ 2 * Limit <= IntModulus
<1>1. SectorBytes \in Nat \ {0} /\ IntModulus \in Nat \ {0}
      /\ IntModulus % (2 * SectorBytes) = 0
  BY StorageAssumption
<1>2. Limit \in Nat /\ IntModulus = 2 * (Limit * SectorBytes)
  BY <1>1, Z3 DEF Limit
<1>3. Limit <= Limit * SectorBytes
  BY <1>1, <1>2, Z3
<1> QED
  BY <1>1, <1>2, <1>3, Z3

\* The unit a running call is at: the drive's sector it is in, and its place.
LEMMA HereFacts ==
  ASSUME IInv, RequestsFit, pc # "idle"
  PROVE  /\ request.device \in Devices /\ request \in Requests
         /\ moved \in DOMAIN request.data /\ moved \in Nat
         /\ moved + 1 <= Cardinality(DOMAIN request.data)
         /\ sector \in Nat /\ sector < Limit
         /\ real_sector \in Nat /\ real_sector <= sector
         /\ place \in 0 .. UnitsPerSector(request.device) - 1
         /\ sector = real_sector * UnitsPerSector(request.device) + place
<1> DEFINE d == request.device
           k == UnitsPerSector(d)
           n == Cardinality(DOMAIN request.data)
<1>1. request \in Requests /\ moved < n /\ moved \in 0 .. n
  BY DEF IInv, TypeOK, Places
<1>2. /\ n \in Nat \ {0} /\ DOMAIN request.data = 0 .. n - 1
      /\ d \in Devices /\ request.sector \in Nat
  BY <1>1, RequestFacts
<1>3. request.sector + n <= Limit
  BY <1>1 DEF RequestsFit
<1> HIDE DEF n
<1>4. /\ moved \in Nat /\ moved \in DOMAIN request.data /\ moved + 1 <= n
      /\ sector \in Nat /\ sector < Limit
  BY <1>1, <1>2, <1>3, LimitFacts DEF sector
<1>5. sector \in 0 .. Limit - 1
  BY <1>4, LimitFacts
<1>6. real_sector = sector \div k /\ place = sector % k
  BY <1>2, <1>5, AddressesSector DEF real_sector, place
<1>7. k \in {1, 4}
  BY DEF UnitsPerSector, ATAPIUnits
<1> HIDE DEF k
<1>8. /\ sector \div k \in Nat /\ sector \div k <= sector /\ sector % k \in 0 .. k - 1
      /\ sector = (sector \div k) * k + (sector % k)
  <2>1. CASE k = 1
    BY <1>4, <2>1, SMT
  <2>2. CASE k = 4
    BY <1>4, <2>2, SMT
  <2> QED
    BY <1>7, <2>1, <2>2
<1> QED
  BY <1>1, <1>2, <1>4, <1>6, <1>8 DEF k, n

\* A sector the drive has holds UnitsPerSector units of its medium.
LEMMA UnitsOnMedium ==
  ASSUME NEW d \in Devices, NEW lba \in Nat, lba < Size[d],
         NEW u \in 0 .. UnitsPerSector(d) - 1
  PROVE  lba * UnitsPerSector(d) + u \in DOMAIN Media[d]
<1>1. DOMAIN Media[d] = 0 .. UnitsPerSector(d) * Size[d] - 1
  BY StorageAssumption DEF UnitsPerSector
<1>2. Size[d] \in Nat
  BY StorageAssumption
<1>3. UnitsPerSector(d) \in {1, 4}
  BY DEF UnitsPerSector, ATAPIUnits
<1>4. CASE UnitsPerSector(d) = 1
  BY <1>1, <1>2, <1>4
<1>5. CASE UnitsPerSector(d) = 4
  BY <1>1, <1>2, <1>5
<1> QED
  BY <1>3, <1>4, <1>5

\* Past the seek check, an ATA drive has the sector.
LEMMA SeekFacts ==
  ASSUME IInv, RequestsFit, pc # "idle", Type[request.device] = "ATA"
  PROVE  ~SeekError(request.device, real_sector) <=> real_sector < Size[request.device]
<1>1. /\ real_sector \in Nat /\ real_sector < Limit /\ request.device \in Devices
  BY HereFacts, LimitFacts
<1>2. Unsigned(real_sector + 1) = real_sector + 1
  BY <1>1, LimitFacts DEF Unsigned
<1>3. Size[request.device] \in Nat
  BY <1>1, StorageAssumption
<1> QED
  BY <1>1, <1>2, <1>3 DEF SeekError

\* What ide_read_sectors leaves in the block and in package[0].
LEMMA IdeReadFacts ==
  ASSUME IInv, RequestsFit, pc = "ide_read_sectors", IdeRead(request.device, real_sector)
  PROVE  /\ package0' \in {0, 2, 8, 19} /\ access' \in {"done", "error"}
         /\ block' \in [0 .. BlockUnits - 1 -> Data]
         /\ package0' = 0 =>
              /\ real_sector < Size[request.device]
              /\ \/ block'[place] = content[request.device][sector]
                 \/ /\ request.device \in Faulty /\ Type[request.device] = "ATA"
                    /\ block'[place] = Zeros
<1> DEFINE d == request.device
           k == UnitsPerSector(d)
<1>1. /\ d \in Devices /\ real_sector \in Nat /\ place \in 0 .. k - 1
      /\ sector = real_sector * k + place
  BY HereFacts
<1>2. /\ package0 \in {0, 2, 8, 19} /\ content[d] \in [DOMAIN Media[d] -> Data]
      /\ block \in [0 .. BlockUnits - 1 -> Data]
  BY <1>1 DEF IInv, TypeOK
<1>3. block = [u \in 0 .. BlockUnits - 1 |-> Zeros]
  BY DEF IInv, BlockHolds
<1>4. k \in {1, 4} /\ BlockUnits \in Nat /\ k <= BlockUnits /\ Type[d] \in {"ATA", "ATAPI"}
  BY <1>1, StorageAssumption DEF UnitsPerSector, ATAPIUnits
<1>5. place \in 0 .. BlockUnits - 1
  BY <1>1, <1>4
<1>6. CASE SeekError(d, real_sector) /\ package0' = 2 /\ access' = "error" /\ UNCHANGED block
  BY <1>2, <1>6
<1>7. CASE /\ ~SeekError(d, real_sector) /\ Served(d, real_sector)
           /\ block' = [u \in DOMAIN block |->
                          IF u \in DOMAIN Units(d, real_sector)
                          THEN content[d][Units(d, real_sector)[u]] ELSE block[u]]
           /\ access' = "done"
           /\ package0' = IF Type[d] = "ATA" THEN package0 ELSE 0
  <2>1. real_sector < Size[d]
    BY <1>7 DEF Served
  <2>2. ASSUME NEW u \in 0 .. k - 1
        PROVE  /\ u \in DOMAIN Units(d, real_sector)
               /\ Units(d, real_sector)[u] = real_sector * k + u
               /\ content[d][Units(d, real_sector)[u]] \in Data
    <3>1. real_sector * k + u \in DOMAIN Media[d]
      BY <1>1, <2>1, UnitsOnMedium
    <3>2. u \in DOMAIN Units(d, real_sector) /\ Units(d, real_sector)[u] = real_sector * k + u
      BY DEF Units
    <3> QED
      BY <1>2, <3>1, <3>2
  <2>3. DOMAIN Units(d, real_sector) = 0 .. k - 1 /\ DOMAIN block = 0 .. BlockUnits - 1
    BY <1>2 DEF Units
  <2>4. block' \in [0 .. BlockUnits - 1 -> Data]
    BY <1>2, <1>7, <2>2, <2>3
  <2>5. block'[place] = content[d][sector]
    BY <1>1, <1>5, <1>7, <2>2, <2>3
  <2> QED
    BY <1>2, <1>7, <2>1, <2>4, <2>5
<1>8. CASE /\ ~SeekError(d, real_sector) /\ Refused(d, real_sector)
           /\ UNCHANGED block /\ access' = "error"
           /\ package0' = IF Type[d] = "ATA" THEN package0 ELSE 19
  <2>1. CASE Type[d] = "ATA"
    <3>1. real_sector < Size[d]
      BY <1>8, <2>1, SeekFacts
    <3>2. Size[d] \in Nat
      BY <1>1, StorageAssumption
    <3>3. d \in Faulty
      BY <1>1, <1>8, <3>1, <3>2 DEF Refused
    <3>4. block'[place] = Zeros
      BY <1>3, <1>5, <1>8
    <3> QED
      BY <1>2, <1>8, <2>1, <3>1, <3>3, <3>4
  <2>2. CASE Type[d] # "ATA"
    BY <1>2, <1>8, <2>2
  <2> QED
    BY <2>1, <2>2
<1> QED
  BY <1>6, <1>7, <1>8 DEF IdeRead

\* Initially no call is running.
LEMMA InitIInv == Init => IInv
<1> SUFFICES ASSUME Init PROVE IInv
  OBVIOUS
<1>1. /\ content = Media /\ request \in Requests /\ moved = 0
      /\ buffer = [c \in DOMAIN request.data |-> Untouched] /\ status = "none"
  BY DEF Init, Store!Init, Store!Blank
<1>2. /\ Cardinality(DOMAIN request.data) \in Nat \ {0}
  BY <1>1, RequestFacts
<1>3. /\ content = [d \in Devices |-> content[d]]
      /\ \A d \in Devices : content[d] \in [DOMAIN Media[d] -> Data]
  <2>1. ASSUME NEW d \in Devices PROVE Media[d] \in [DOMAIN Media[d] -> Data]
    BY StorageAssumption, Zenon
  <2> QED
    BY <1>1, <2>1, StorageAssumption, Zenon
<1>4. moved \in 0 .. Cardinality(Places(request))
  BY <1>1, <1>2 DEF Places
<1>5. buffer \in [Places(request) -> Data \cup {Untouched}]
  BY <1>1 DEF Places
<1>6. /\ package0 \in {0, 2, 8, 19} /\ free \in 0 .. HeapBlocks /\ failures \in Nat
      /\ block \in [0 .. BlockUnits - 1 -> Data]
  BY StorageAssumption DEF Init
<1>7. /\ pc = "idle" /\ status # "running" /\ exited \in BOOLEAN
      /\ access \in {"done", "error"}
  BY <1>1 DEF Init
<1>8. TypeOK
  BY <1>1, <1>3, <1>4, <1>5, <1>6, <1>7, Zenon DEF TypeOK
<1> QED
  BY <1>7, <1>8 DEF IInv, BlockHolds

\* The heap never holds more blocks than it began with.
LEMMA FreeInRange == LeakInv' => free' \in 0 .. HeapBlocks /\ failures' \in Nat
<1> SUFFICES ASSUME LeakInv' PROVE free' \in 0 .. HeapBlocks /\ failures' \in Nat
  OBVIOUS
<1>1. /\ free' \in Nat /\ failures' \in Nat
      /\ free' + failures' + (IF pc' \in {"idle", "kmalloc"} THEN 0 ELSE 1) = HeapBlocks
  BY DEF LeakInv, LeakIsExact
<1> QED
  BY <1>1, StorageAssumption

\* The unit a call is at is the same as long as request and moved are.
LEMMA SameUnit ==
  ASSUME UNCHANGED <<request, moved>>
  PROVE  UNCHANGED <<sector, real_sector, place>>
BY DEF sector, real_sector, place

\* Returning an error ends the call and touches neither client nor block.
LEMMA FailIInv ==
  ASSUME IInv, LeakInv', pc # "idle", FailCall, package0' \in {0, 2, 8, 19},
         access' \in {"done", "error"}, block' \in [0 .. BlockUnits - 1 -> Data],
         UNCHANGED <<content, exited>>
  PROVE  IInv'
<1>1. /\ pc' = "idle" /\ status' = "failure" /\ UNCHANGED <<request, moved, buffer>>
  BY DEF FailCall
<1>2. free' \in 0 .. HeapBlocks /\ failures' \in Nat
  BY FreeInRange
<1>3. TypeOK'
  BY <1>1, <1>2 DEF IInv, TypeOK, Places
<1> QED
  BY <1>1, <1>3 DEF IInv, BlockHolds

\* The end of an iteration moves on to the next unit or returns 0.
LEMMA FinishIInv ==
  ASSUME IInv, RequestsFit, LeakInv', pc # "idle", FinishUnit,
         package0' \in {0, 2, 8, 19}, access' \in {"done", "error"},
         buffer' \in [Places(request) -> Data \cup {Untouched}],
         content' = [d \in Devices |-> content'[d]],
         \A d \in Devices : content'[d] \in [DOMAIN Media[d] -> Data],
         UNCHANGED <<block, exited>>
  PROVE  IInv'
<1> DEFINE n == Cardinality(DOMAIN request.data)
<1>1. /\ moved' = moved + 1 /\ UNCHANGED request
      /\ IF moved + 1 = n THEN pc' = "idle" /\ status' = "success"
                          ELSE pc' = "kmalloc" /\ status' = status
  BY Zenon DEF FinishUnit
<1>2. free' \in 0 .. HeapBlocks /\ failures' \in Nat
  BY FreeInRange
<1>3. moved + 1 <= n /\ moved \in Nat /\ n \in Nat /\ request \in Requests
  BY HereFacts, RequestFacts
<1>4. status = "running"
  BY DEF IInv
<1>5. pc' \in {"idle", "kmalloc"} /\ status' \in {"running", "success"}
  BY <1>1, <1>4
<1> HIDE DEF n
<1>6. moved' \in 0 .. n
  BY <1>1, <1>3
<1>7. exited' \in BOOLEAN /\ block' \in [0 .. BlockUnits - 1 -> Data]
  BY DEF IInv, TypeOK
<1>8. TypeOK'
  BY <1>1, <1>2, <1>3, <1>5, <1>6, <1>7 DEF TypeOK, Places, n
<1>9. pc' = "idle" <=> status' # "running"
  BY <1>1, <1>4
<1>10. pc' # "idle" => moved' < n
  BY <1>1, <1>3
<1>11. BlockHolds'
  BY <1>5 DEF BlockHolds
<1> QED
  BY <1>1, <1>8, <1>9, <1>10, <1>11 DEF IInv, Places, n

\* Every step of a call, and every call, keeps the invariant.
LEMMA NextIInv ==
  ASSUME RequestsFit, IInv, LeakInv', [Next]_vars
  PROVE  IInv'
<1>1. ASSUME NEW r \in Requests, Call(r) PROVE IInv'
  <2>1. Cardinality(DOMAIN r.data) \in Nat \ {0}
    BY RequestFacts
  <2>2. /\ request' = r /\ moved' = 0 /\ status' = "running" /\ pc' = "kmalloc"
        /\ buffer' = [c \in DOMAIN r.data |-> Untouched]
        /\ UNCHANGED <<content, package0, free, exited, block, access, failures>>
    BY <1>1 DEF Call
  <2>3. moved' \in 0 .. Cardinality(Places(request')) /\ moved' < Cardinality(Places(request'))
    BY <2>1, <2>2 DEF Places
  <2>4. buffer' \in [Places(request') -> Data \cup {Untouched}]
    BY <2>2 DEF Places
  <2>5. TypeOK'
    BY <2>2, <2>3, <2>4 DEF IInv, TypeOK, Places
  <2> QED
    BY <2>2, <2>3, <2>5 DEF IInv, BlockHolds, Places
<1>2. CASE Allocate
  <2>1. /\ pc = "kmalloc" /\ pc' \in {"kmalloc", "ide_read_sectors"}
        /\ UNCHANGED <<content, package0, client, access, failures>>
        /\ exited' \in BOOLEAN
        /\ pc' = "kmalloc" => block' = block
        /\ pc' = "ide_read_sectors" => block' = [u \in 0 .. BlockUnits - 1 |-> Zeros]
    BY <1>2 DEF Allocate, ClearBlock, IInv, TypeOK
  <2>2. block' \in [0 .. BlockUnits - 1 -> Data]
    BY <2>1, StorageAssumption DEF IInv, TypeOK
  <2>3. free' \in 0 .. HeapBlocks
    BY FreeInRange
  <2>4. TypeOK'
    BY <2>1, <2>2, <2>3 DEF IInv, TypeOK, client, Places
  <2> QED
    BY <2>1, <2>4 DEF IInv, BlockHolds, client, Places
<1>3. CASE ReadDrive
  <2>1. /\ pc = "ide_read_sectors" /\ IdeRead(request.device, real_sector)
        /\ UNCHANGED <<content, exited>>
    BY <1>3 DEF ReadDrive
  <2>2. /\ package0' \in {0, 2, 8, 19} /\ access' \in {"done", "error"}
        /\ block' \in [0 .. BlockUnits - 1 -> Data]
        /\ package0' = 0 =>
             /\ real_sector < Size[request.device]
             /\ \/ block'[place] = content[request.device][sector]
                \/ /\ request.device \in Faulty /\ Type[request.device] = "ATA"
                   /\ block'[place] = Zeros
    BY <2>1, IdeReadFacts
  <2>3. CASE package0' # 0
    BY <1>3, <2>1, <2>2, <2>3, FailIInv DEF ReadDrive
  <2>4. CASE package0' = 0
    <3>1. pc' = "memory_copy" /\ UNCHANGED <<free, client, failures>>
      BY <1>3, <2>4 DEF ReadDrive
    <3>2. UNCHANGED <<sector, real_sector, place>>
      BY <3>1, SameUnit DEF client
    <3>3. TypeOK'
      BY <2>1, <2>2, <3>1 DEF IInv, TypeOK, client, Places
    <3>4. BlockHolds'
      BY <2>1, <2>2, <2>4, <3>1, <3>2 DEF BlockHolds, client
    <3> QED
      BY <2>1, <3>1, <3>3, <3>4 DEF IInv, client, Places
  <2> QED
    BY <2>3, <2>4
<1>4. CASE CopyOut
  <2>1. /\ pc = "memory_copy" /\ FinishUnit
        /\ buffer' = [buffer EXCEPT ![moved] = block[place]]
        /\ UNCHANGED <<content, package0, exited, block, access>>
    BY <1>4 DEF CopyOut
  <2>2. /\ place \in 0 .. UnitsPerSector(request.device) - 1
        /\ moved \in Places(request)
    BY <2>1, HereFacts DEF Places
  <2>3. place \in 0 .. BlockUnits - 1
    BY <2>2, StorageAssumption DEF UnitsPerSector, ATAPIUnits
  <2>4. buffer' \in [Places(request) -> Data \cup {Untouched}]
    BY <2>1, <2>2, <2>3 DEF IInv, TypeOK
  <2>5. /\ package0' \in {0, 2, 8, 19} /\ access' \in {"done", "error"}
        /\ content' = [d \in Devices |-> content'[d]]
        /\ \A d \in Devices : content'[d] \in [DOMAIN Media[d] -> Data]
    BY <2>1 DEF IInv, TypeOK
  <2> QED
    BY <2>1, <2>4, <2>5, FinishIInv
<1>5. CASE CopyIn
  <2>1. /\ pc = "memory_copy" /\ pc' = "ide_write_sectors"
        /\ block' = [block EXCEPT ![place] = request.data[moved]]
        /\ UNCHANGED <<content, package0, free, exited, client, access, failures>>
    BY <1>5 DEF CopyIn
  <2>2. /\ place \in 0 .. UnitsPerSector(request.device) - 1
        /\ request \in Requests /\ moved \in DOMAIN request.data
    BY <2>1, HereFacts
  <2>3. place \in 0 .. BlockUnits - 1
    BY <2>2, StorageAssumption DEF UnitsPerSector, ATAPIUnits
  <2>4. request.data[moved] \in Data
    BY <2>2, RequestFacts
  <2>5. /\ block' \in [0 .. BlockUnits - 1 -> Data]
        /\ block'[place] = request.data[moved]
    BY <2>1, <2>3, <2>4 DEF IInv, TypeOK
  <2>6. UNCHANGED <<sector, real_sector, place>>
    BY <2>1, SameUnit DEF client
  <2>7. TypeOK'
    BY <2>1, <2>5 DEF IInv, TypeOK, client, Places
  <2>8. request.kind = "write"
    BY <1>5 DEF CopyIn
  <2>9. BlockHolds'
    BY <2>1, <2>2, <2>5, <2>6, <2>8 DEF IInv, BlockHolds, client
  <2> QED
    BY <2>1, <2>7, <2>9 DEF IInv, client, Places
<1>6. CASE WriteDrive
  <2>1. /\ pc = "ide_write_sectors" /\ IdeWrite(request.device, real_sector)
        /\ UNCHANGED <<exited, block>>
    BY <1>6 DEF WriteDrive
  <2>2. /\ package0' \in {0, 2, 8, 19} /\ access' \in {"done", "error"}
        /\ package0' # 0 => UNCHANGED content
        /\ UNCHANGED content \/
             /\ Served(request.device, real_sector)
             /\ content' = [content EXCEPT ![request.device][real_sector] = block[0]]
    BY <2>1 DEF IdeWrite
  <2>3. CASE package0' # 0
    <3>1. block' \in [0 .. BlockUnits - 1 -> Data]
      BY <2>1 DEF IInv, TypeOK
    <3> QED
      BY <1>6, <2>1, <2>2, <2>3, <3>1, FailIInv DEF WriteDrive
  <2>4. CASE package0' = 0
    <3>1. FinishUnit /\ UNCHANGED buffer
      BY <1>6, <2>4 DEF WriteDrive
    <3>2. /\ content = [d \in Devices |-> content[d]]
          /\ \A d \in Devices : content[d] \in [DOMAIN Media[d] -> Data]
          /\ buffer' \in [Places(request) -> Data \cup {Untouched}]
      BY <3>1 DEF IInv, TypeOK
    <3>3. block[0] \in Data
      BY StorageAssumption DEF IInv, TypeOK, ATAPIUnits
    <3>4. /\ content' = [d \in Devices |-> content'[d]]
          /\ \A d \in Devices : content'[d] \in [DOMAIN Media[d] -> Data]
      <4>1. CASE UNCHANGED content
        BY <3>2, <4>1
      <4>2. CASE content' = [content EXCEPT ![request.device][real_sector] = block[0]]
        <5>1. request.device \in Devices
          BY <2>1, HereFacts
        <5>2. /\ content' = [d \in Devices |->
                              IF d = request.device
                              THEN [content[d] EXCEPT ![real_sector] = block[0]]
                              ELSE content[d]]
          BY <3>2, <4>2
        <5>3. ASSUME NEW d \in Devices
              PROVE  content'[d] \in [DOMAIN Media[d] -> Data]
          BY <3>2, <3>3, <5>2, <5>3
        <5> QED
          BY <5>2, <5>3
      <4> QED
        BY <2>2, <4>1, <4>2
    <3> QED
      BY <2>1, <2>2, <3>1, <3>2, <3>4, FinishIInv
  <2> QED
    BY <2>3, <2>4
<1>7. CASE UNCHANGED vars
  <2>1. UNCHANGED <<sector, real_sector, place>>
    BY <1>7, SameUnit DEF vars, client
  <2>2. TypeOK'
    BY <1>7 DEF IInv, TypeOK, vars, client, Places
  <2>3. BlockHolds'
    BY <1>7, <2>1 DEF IInv, BlockHolds, vars, client
  <2> QED
    BY <1>7, <2>2, <2>3 DEF IInv, vars, client, Places
<1> QED
  BY <1>1, <1>2, <1>3, <1>4, <1>5, <1>6, <1>7 DEF Next, Step, Halted

\* Through whatever mixture of reads, writes and failures, on drives of both
\* kinds: a call has a block of zeros when it reads the drive, the client's
\* unit in it (or the zeros, if an ATA drive failed) when it copies, and moves
\* no unit beyond the last one of its request.
THEOREM BlockHoldsTheUnit == ASSUME RequestsFit PROVE Spec => []IInv
<1>1. IInv /\ LeakInv' /\ [Next]_vars => IInv'
  BY NextIInv
<1> QED
  BY <1>1, InitIInv, InitLeakInv, NextLeakInv, PTL DEF Spec

-----------------------------------------------------------------------------
\* The refinement: storage calls are calls of the abstract store, the copies
\* and writes that finish a unit are its moves, and the rest is internal.

\* The two modules count the units of a request alike.
LEMMA SameCount ==
  ASSUME NEW r
  PROVE  Store!Count(r) = Cardinality(DOMAIN r.data)
BY Zenon DEF Store!Count, Store!Cardinality, Cardinality

\* While a call runs it has a unit left to move.
LEMMA RunningCall ==
  ASSUME IInv, pc # "idle"
  PROVE  status = "running" /\ moved < Store!Count(request)
<1>1. status = "running"
  BY Zenon DEF IInv
<1>2. moved < Cardinality(DOMAIN request.data)
  BY Zenon DEF IInv, Places
<1> QED
  BY <1>1, <1>2, SameCount, Zenon

\* The end of an iteration counts the unit and, after the last one, succeeds.
LEMMA FinishMoves ==
  ASSUME FinishUnit, status = "running"
  PROVE  /\ moved' = moved + 1 /\ UNCHANGED request
         /\ status' = IF moved + 1 = Store!Count(request) THEN "success" ELSE "running"
<1>1. /\ moved' = moved + 1 /\ UNCHANGED request
      /\ IF moved + 1 = Cardinality(DOMAIN request.data)
         THEN pc' = "idle" /\ status' = "success"
         ELSE pc' = "kmalloc" /\ status' = status
  BY Zenon DEF FinishUnit
<1>2. status' = IF moved + 1 = Cardinality(DOMAIN request.data)
                THEN "success" ELSE "running"
  BY <1>1, Zenon
<1> QED
  BY <1>1, <1>2, SameCount, Zenon

\* A unit that read_sector copies out is one move of the store.
LEMMA CopyOutIsMove ==
  ASSUME RequestsFit, IInv, CopyOut
  PROVE  Store!Move
<1>1. /\ pc = "memory_copy" /\ request.kind = "read" /\ FinishUnit
      /\ buffer' = [buffer EXCEPT ![moved] = block[place]]
      /\ UNCHANGED content
  BY DEF CopyOut
<1>2. /\ request.device \in Devices /\ moved \in Nat
      /\ moved + 1 <= Cardinality(DOMAIN request.data) /\ request \in Requests
      /\ real_sector \in Nat
      /\ place \in 0 .. UnitsPerSector(request.device) - 1
      /\ sector = real_sector * UnitsPerSector(request.device) + place
  BY <1>1, HereFacts
<1>3. Cardinality(DOMAIN request.data) \in Nat
  BY <1>2, RequestFacts
<1>4. status = "running" /\ moved < Store!Count(request)
  BY <1>1, <1>2, RunningCall
<1>5. Store!Here \in DOMAIN content[request.device] /\ Store!Here = sector
  <2>1. real_sector < Size[request.device]
    BY <1>1 DEF IInv, BlockHolds
  <2>2. sector \in DOMAIN Media[request.device]
    BY <1>2, <2>1, UnitsOnMedium
  <2> QED
    BY <1>2, <2>2 DEF IInv, TypeOK, Store!Here, sector
<1>6. block[place] \in {content[request.device][sector]} \cup Store!IfLost(Zeros)
  BY <1>1, <1>2 DEF IInv, BlockHolds, Store!IfLost
<1>7. /\ moved' = moved + 1 /\ UNCHANGED request
      /\ status' = IF moved + 1 = Store!Count(request) THEN "success" ELSE "running"
  BY <1>1, <1>4, FinishMoves
<1> QED
  BY <1>1, <1>4, <1>5, <1>6, <1>7 DEF Store!Move

\* So is a unit that write_sector gives the drive, the whole sector of an ATA
\* drive; a drive that fails the write loses it silently.
LEMMA WriteIsMove ==
  ASSUME RequestsFit, IInv, WriteDrive, package0' = 0
  PROVE  Store!Move
<1> DEFINE d == request.device
<1>1. /\ pc = "ide_write_sectors" /\ request.kind = "write"
      /\ IdeWrite(d, real_sector) /\ FinishUnit /\ UNCHANGED buffer
  BY DEF WriteDrive, IInv, BlockHolds
<1>2. /\ d \in Devices /\ moved \in Nat
      /\ moved + 1 <= Cardinality(DOMAIN request.data) /\ request \in Requests
      /\ real_sector \in Nat
      /\ place \in 0 .. UnitsPerSector(d) - 1
      /\ sector = real_sector * UnitsPerSector(d) + place
  BY <1>1, HereFacts
<1>3. Cardinality(DOMAIN request.data) \in Nat
  BY <1>2, RequestFacts
<1>4. status = "running" /\ moved < Store!Count(request)
  BY <1>1, <1>2, RunningCall
<1>5. /\ Type[d] = "ATA"
      /\ \/ Served(d, real_sector) /\ content' = [content EXCEPT ![d][real_sector] = block[0]]
         \/ Refused(d, real_sector) /\ UNCHANGED content
  BY <1>1 DEF IdeWrite
<1>6. place = 0 /\ sector = real_sector
  BY <1>2, <1>5 DEF UnitsPerSector
<1>7. real_sector < Size[d] /\ block[0] = request.data[moved]
  BY <1>1, <1>6 DEF IInv, BlockHolds
<1>8. Store!Here = sector /\ Store!Here \in DOMAIN content[d]
  <2>1. sector \in DOMAIN Media[d]
    BY <1>2, <1>7, UnitsOnMedium
  <2> QED
    BY <1>2, <2>1 DEF IInv, TypeOK, Store!Here, sector
<1>9. PICK new \in {request.data[moved]} \cup Store!IfLost(content[d][Store!Here]) :
        content' = [content EXCEPT ![d][Store!Here] = new]
  <2>1. CASE content' = [content EXCEPT ![d][real_sector] = block[0]]
    BY <1>6, <1>7, <1>8, <2>1
  <2>2. CASE Refused(d, real_sector) /\ UNCHANGED content
    <3>1. Size[d] \in Nat
      BY <1>2, StorageAssumption
    <3>2. content[d][Store!Here] \in Store!IfLost(content[d][Store!Here])
      BY <1>2, <1>5, <1>7, <2>2, <3>1 DEF Refused, Store!IfLost
    <3>3. content' = [content EXCEPT ![d][Store!Here] = content[d][Store!Here]]
      BY <1>2, <1>8, <2>2 DEF IInv, TypeOK
    <3> QED
      BY <3>2, <3>3
  <2> QED
    BY <1>5, <2>1, <2>2
<1>10. /\ moved' = moved + 1 /\ UNCHANGED request
       /\ status' = IF moved + 1 = Store!Count(request) THEN "success" ELSE "running"
  BY <1>1, <1>4, FinishMoves
<1> QED
  BY <1>1, <1>4, <1>8, <1>9, <1>10 DEF Store!Move

\* Every step of the storage layer is a step of the abstract store.
LEMMA StepRefines ==
  ASSUME RequestsFit, IInv, [Next]_vars
  PROVE  [Store!Next]_(Store!vars)
<1>1. ASSUME NEW r \in Requests, Call(r) PROVE Store!Next
  <2>1. status # "running"
    BY <1>1, Zenon DEF Call, IInv
  <2> QED
    BY <1>1, <2>1 DEF Call, Store!Call, Store!Blank, Store!Next
<1>2. CASE UNCHANGED <<content, client>>
  BY <1>2 DEF client, Store!vars
<1>3. CASE ReadDrive \/ WriteDrive
  <2>1. CASE FailCall /\ UNCHANGED content
    <3>1. status = "running"
      BY <1>3, RunningCall DEF ReadDrive, WriteDrive
    <3> QED
      BY <2>1, <3>1 DEF FailCall, Store!Fail, Store!Next
  <2>2. CASE WriteDrive /\ package0' = 0
    BY <2>2, WriteIsMove DEF Store!Next
  <2> QED
    BY <1>2, <1>3, <2>1, <2>2 DEF ReadDrive, WriteDrive, IdeWrite
<1>4. CASE CopyOut
  BY <1>4, CopyOutIsMove DEF Store!Next
<1>5. CASE Allocate \/ CopyIn \/ Halted \/ UNCHANGED vars
  BY <1>2, <1>5 DEF Allocate, CopyIn, Halted, vars
<1> QED
  BY <1>1, <1>3, <1>4, <1>5 DEF Next, Step

\* read_sectors and write_sectors are a store of sectors: a call that returns 0
\* has moved exactly the units it names, one that returns 1 a prefix of them,
\* and only an ATA drive that fails loses a unit without a word.
THEOREM StorageIsAStore == ASSUME RequestsFit PROVE Spec => ImplementsStore
<1>1. Init => Store!Init
  BY DEF Init
<1>2. IInv /\ [Next]_vars => [Store!Next]_(Store!vars)
  BY StepRefines
<1> QED
  BY <1>1, <1>2, BlockHoldsTheUnit, PTL DEF Spec, ImplementsStore, Store!Spec
=============================================================================
