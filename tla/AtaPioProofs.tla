---------------------------- MODULE AtaPioProofs ----------------------------
(***************************************************************************)
(* Theorems about AtaPio.tla, for every width of the registers, every      *)
(* geometry, all sectors and counts, and whatever the disk does.           *)
(***************************************************************************)
EXTENDS AtaPio, TLAPS

\* Quotient and remainder, and that they are the only ones.
LEMMA Division ==
  ASSUME NEW n \in Nat, NEW b \in Nat \ {0}
  PROVE  n \div b \in Nat /\ n % b \in 0 .. b - 1 /\ n = (n \div b) * b + (n % b)
BY Z3

\* Quotient and remainder are the only ones.
LEMMA DivisionUnique ==
  ASSUME NEW q \in Nat, NEW b \in Nat \ {0}, NEW r \in 0 .. b - 1
  PROVE  (q * b + r) \div b = q /\ (q * b + r) % b = r
<1>1. q * b + r \in Nat
  BY Z3
<1> DEFINE n == q * b + r
<1>2. n \div b \in Nat /\ n % b \in 0 .. b - 1 /\ n = (n \div b) * b + (n % b)
  BY <1>1, Division
<1>3. (n \div b - q) * b = r - (n % b)
  BY <1>2, Z3
<1>4. r - (n % b) < b /\ r - (n % b) > -b
  BY <1>2
<1> HIDE DEF n
<1>5. n \div b = q
  BY <1>2, <1>3, <1>4, Z3
<1> QED
  BY <1>2, <1>3, <1>5, Z3 DEF n

\* Dividing twice is dividing by the product.
LEMMA DivideTwice ==
  ASSUME NEW n \in Nat, NEW b \in Nat \ {0}, NEW c \in Nat \ {0}
  PROVE  n \div (b * c) = (n \div b) \div c
<1> DEFINE q == n \div b
           p == q \div c
           r == (q % c) * b + (n % b)
<1>1. q \in Nat /\ n % b \in 0 .. b - 1 /\ n = q * b + (n % b)
  BY Division
<1>2. p \in Nat /\ q % c \in 0 .. c - 1 /\ q = p * c + (q % c)
  BY <1>1, Division
<1> HIDE DEF p, q
<1>3. b * c \in Nat \ {0}
  BY Z3
<1>4. n = p * (b * c) + r
  BY <1>1, <1>2, Z3
<1>5. r \in 0 .. b * c - 1
  <2>1. (q % c) * b <= (c - 1) * b /\ (q % c) * b \in Nat
    <3>1. \A m, o \in Nat : m <= o => m * b <= o * b /\ m * b \in Nat
      BY Z3
    <3>2. q % c \in Nat /\ c - 1 \in Nat /\ q % c <= c - 1
      BY <1>2
    <3> QED
      BY <3>1, <3>2
  <2>2. (c - 1) * b = b * c - b
    BY Z3
  <2> QED
    BY <1>1, <1>3, <2>1, <2>2
<1> HIDE DEF r
<1>6. n \div (b * c) = p
  BY <1>2, <1>3, <1>4, <1>5, DivisionUnique
<1> QED
  BY <1>6 DEF p, q

-----------------------------------------------------------------------------
\* A number of at most four bytes is the sum of its bytes, each in its place.
LEMMA BytesOf ==
  ASSUME NEW n \in Nat
  PROVE  /\ \A k \in 0 .. 3 : ByteOf(n, k) \in 0 .. Byte - 1
         /\ n = (((n \div (Byte * Byte * Byte)) * Byte + ByteOf(n, 2)) * Byte
                  + ByteOf(n, 1)) * Byte + ByteOf(n, 0)
         /\ n < Byte * Byte * Byte * Byte => n \div (Byte * Byte * Byte) < Byte
<1> DEFINE n1 == n \div Byte
           n2 == n1 \div Byte
           n3 == n2 \div Byte
<1>1. Byte \in Nat \ {0}
  BY AtaPioAssumption
<1>2. n1 \in Nat /\ n % Byte \in 0 .. Byte - 1 /\ n = n1 * Byte + (n % Byte)
  BY <1>1, Division
<1>3. n2 \in Nat /\ n1 % Byte \in 0 .. Byte - 1 /\ n1 = n2 * Byte + (n1 % Byte)
  BY <1>1, <1>2, Division
<1>4. n3 \in Nat /\ n2 % Byte \in 0 .. Byte - 1 /\ n2 = n3 * Byte + (n2 % Byte)
  BY <1>1, <1>3, Division
<1>5. Byte * Byte \in Nat \ {0}
  BY <1>1, Z3
<1>6. n \div (Byte * Byte) = n2 /\ n \div (Byte * Byte * Byte) = n3
  <2>1. n \div (Byte * Byte) = n2
    BY <1>1, DivideTwice
  <2>2. n \div (Byte * Byte * Byte) = (n \div (Byte * Byte)) \div Byte
    BY <1>1, <1>5, DivideTwice
  <2> QED
    BY <2>1, <2>2
<1>7. n3 % Byte \in 0 .. Byte - 1
  BY <1>1, <1>4, Division
<1>8. ByteOf(n, 0) = n % Byte /\ ByteOf(n, 1) = n1 % Byte
      /\ ByteOf(n, 2) = n2 % Byte /\ ByteOf(n, 3) = n3 % Byte
  BY <1>6 DEF ByteOf
<1>9. ASSUME n < Byte * Byte * Byte * Byte PROVE n3 < Byte
  <2> HIDE DEF n1, n2, n3
  <2>1. n3 >= Byte => n2 >= Byte * Byte
    BY <1>1, <1>4, Z3
  <2>2. n2 >= Byte * Byte => n1 >= Byte * Byte * Byte
    BY <1>1, <1>3, <1>5, Z3
  <2>3. n1 >= Byte * Byte * Byte => n >= Byte * Byte * Byte * Byte
    BY <1>1, <1>2, <1>5, Z3
  <2> QED
    BY <1>1, <1>4, <1>5, <1>9, <2>1, <2>2, <2>3, Z3
<1>10. \A k \in 0 .. 3 : ByteOf(n, k) \in 0 .. Byte - 1
  BY <1>2, <1>3, <1>4, <1>7, <1>8
<1> HIDE DEF n1, n2, n3
<1> QED
  BY <1>2, <1>3, <1>4, <1>6, <1>8, <1>9, <1>10

\* Cylinder, head and sector as ide_ata_access computes them from a number.
LEMMA Geometry ==
  ASSUME NEW n \in Nat, n < Byte * Byte * Heads * SectorsPerTrack
  PROVE  LET sect == (n % SectorsPerTrack) + 1
             track == n + 1 - sect
             cyl == track \div (Heads * SectorsPerTrack)
             head == (track % (Heads * SectorsPerTrack)) \div SectorsPerTrack
         IN /\ sect \in 1 .. SectorsPerTrack
            /\ cyl \in Nat /\ cyl < Byte * Byte
            /\ head \in 0 .. Heads - 1
            /\ n = (cyl * Heads + head) * SectorsPerTrack + sect - 1
<1> DEFINE t == n \div SectorsPerTrack
           r == n % SectorsPerTrack
           c == t \div Heads
           h == t % Heads
           track == n + 1 - (r + 1)
<1>1. /\ Byte \in Nat \ {0} /\ Heads \in Nat \ {0} /\ SectorsPerTrack \in Nat \ {0}
  BY AtaPioAssumption
<1>2. /\ t \in Nat /\ r \in 0 .. SectorsPerTrack - 1 /\ n = t * SectorsPerTrack + r
  BY <1>1, Division
<1>3. c \in Nat /\ h \in 0 .. Heads - 1 /\ t = c * Heads + h
  BY <1>1, <1>2, Division
<1> HIDE DEF c, h, t, r
<1>4. track = c * (Heads * SectorsPerTrack) + h * SectorsPerTrack
  BY <1>1, <1>2, <1>3, Z3
<1>5. Heads * SectorsPerTrack \in Nat \ {0}
  BY <1>1, Z3
<1>6. h * SectorsPerTrack \in 0 .. Heads * SectorsPerTrack - 1
  <2>1. (h + 1) * SectorsPerTrack <= Heads * SectorsPerTrack /\ h * SectorsPerTrack \in Nat
    <3>1. \A m, o, b \in Nat : m <= o => m * b <= o * b /\ m * b \in Nat
      BY Z3
    <3>2. h \in Nat /\ h + 1 \in Nat /\ h + 1 <= Heads
      BY <1>1, <1>3
    <3> QED
      BY <1>1, <3>1, <3>2
  <2>2. (h + 1) * SectorsPerTrack = h * SectorsPerTrack + SectorsPerTrack
    BY <1>1, <1>3, Z3
  <2> QED
    BY <1>1, <1>5, <2>1, <2>2
<1> HIDE DEF track
<1>7. /\ track \div (Heads * SectorsPerTrack) = c
      /\ track % (Heads * SectorsPerTrack) = h * SectorsPerTrack
  BY <1>3, <1>4, <1>5, <1>6, DivisionUnique
<1>8. (h * SectorsPerTrack) \div SectorsPerTrack = h
  <2>1. 0 \in 0 .. SectorsPerTrack - 1 /\ h \in Nat
    BY <1>1, <1>3
  <2>2. (h * SectorsPerTrack + 0) \div SectorsPerTrack = h
    BY <1>1, <2>1, DivisionUnique
  <2> QED
    BY <1>6, <2>2
<1>9. c < Byte * Byte
  <2>1. c >= Byte * Byte => t >= Byte * Byte * Heads
    BY <1>1, <1>3, Z3
  <2>2. t >= Byte * Byte * Heads => n >= Byte * Byte * Heads * SectorsPerTrack
    BY <1>1, <1>2, Z3
  <2>3. Byte * Byte \in Nat /\ Byte * Byte * Heads * SectorsPerTrack \in Int
    BY <1>1, Z3
  <2> QED
    BY <1>3, <2>1, <2>2, <2>3
<1>10. n = (c * Heads + h) * SectorsPerTrack + (r + 1) - 1
  BY <1>1, <1>2, <1>3, Z3
<1>11. r + 1 \in 1 .. SectorsPerTrack
  BY <1>1, <1>2
<1> QED
  BY <1>3, <1>7, <1>8, <1>9, <1>10, <1>11, Zenon DEF r, track

\* What is written to the registers fits them and names the sector, in each of
\* the three addressing modes.
LEMMA RegistersName ==
  ASSUME NEW n \in 0 .. Byte * Byte * Byte * Byte - 1, NEW count,
         lba28 \in BOOLEAN,
         lba_mode(n) = "CHS" => n < Byte * Byte * Heads * SectorsPerTrack
  PROVE  LET r == Registers(lba_mode(n), Encode(n), count)
         IN /\ Decode(r) = n /\ r.count = count
            /\ r.head \in 0 .. Nibble - 1
            /\ \A k \in DOMAIN r.io : r.io[k] \in 0 .. Byte - 1
<1> DEFINE r == Registers(lba_mode(n), Encode(n), count)
<1>1. /\ Byte \in Nat \ {0} /\ Nibble \in Nat \ {0} /\ Heads \in Nat \ {0}
      /\ SectorsPerTrack \in Nat \ {0} /\ SectorsPerTrack < Byte /\ Heads <= Nibble
  BY AtaPioAssumption
<1>2. n \in Nat /\ n < Byte * Byte * Byte * Byte
  <2>1. Byte * Byte * Byte * Byte \in Nat
    BY <1>1, Z3
  <2> QED
    BY <2>1
<1>3. Byte * Byte * Byte \in Nat \ {0}
  BY <1>1, Z3
<1> DEFINE top == n \div (Byte * Byte * Byte)
<1>4. /\ \A k \in 0 .. 3 : ByteOf(n, k) \in 0 .. Byte - 1
      /\ n = ((top * Byte + ByteOf(n, 2)) * Byte + ByteOf(n, 1)) * Byte + ByteOf(n, 0)
      /\ top \in Nat /\ top < Byte
  BY <1>1, <1>2, <1>3, BytesOf, Division
<1>5. CASE lba_mode(n) = "LBA48"
  <2>1. r = [mode |-> "LBA48", io |-> [k \in 0 .. 3 |-> ByteOf(n, k)], head |-> 0,
             count |-> count]
    BY <1>5 DEF Registers, Encode, Address
  <2>2. ByteOf(n, 3) = top
    <3>1. top % Byte = top
      BY <1>1, <1>4, SMT
    <3> QED
      BY <3>1 DEF ByteOf
  <2>3. Decode(r) = ((ByteOf(n, 3) * Byte + ByteOf(n, 2)) * Byte + ByteOf(n, 1)) * Byte
                      + ByteOf(n, 0)
    BY <2>1 DEF Decode
  <2>4. /\ r.count = count /\ r.head = 0
        /\ \A k \in DOMAIN r.io : k \in 0 .. 3 /\ r.io[k] = ByteOf(n, k)
    BY <2>1
  <2> HIDE DEF r
  <2> QED
    BY <1>1, <1>4, <2>2, <2>3, <2>4 DEF r
<1>6. CASE lba_mode(n) = "LBA28"
  <2>1. r = [mode |-> "LBA28", io |-> [k \in 0 .. 2 |-> ByteOf(n, k)],
             head |-> top % Nibble, count |-> count]
    BY <1>6 DEF Registers, Encode, Address
  <2>2. top < Nibble
    <3>1. n < Byte * Byte * Byte * Nibble
      <4>1. Lba48From \in Nat
        BY <1>1, <1>3, Z3 DEF Lba48From
      <4> QED
        BY <1>2, <1>6, <4>1 DEF lba_mode, Lba48From
    <3>2. n % (Byte * Byte * Byte) \in Nat
          /\ n = top * (Byte * Byte * Byte) + (n % (Byte * Byte * Byte))
      <4>1. \A b \in Nat \ {0} : n % b \in Nat /\ n = (n \div b) * b + (n % b)
        BY <1>2, Division
      <4> QED
        BY <1>3, <4>1, Zenon
    <3>3. top >= Nibble => top * (Byte * Byte * Byte) >= Byte * Byte * Byte * Nibble
      BY <1>1, <1>3, <1>4, Z3
    <3>4. top * (Byte * Byte * Byte) \in Nat /\ Byte * Byte * Byte * Nibble \in Nat
      BY <1>1, <1>3, <1>4, Z3
    <3> QED
      BY <1>1, <1>2, <1>4, <3>1, <3>2, <3>3, <3>4
  <2>3. top % Nibble = top
    BY <1>1, <1>4, <2>2, SMT
  <2>4. Decode(r) = (((top % Nibble) * Byte + ByteOf(n, 2)) * Byte + ByteOf(n, 1)) * Byte
                      + ByteOf(n, 0)
    BY <2>1 DEF Decode
  <2>5. /\ r.count = count /\ r.head = top % Nibble
        /\ \A k \in DOMAIN r.io : k \in 0 .. 3 /\ r.io[k] = ByteOf(n, k)
    BY <2>1
  <2> HIDE DEF r, top
  <2> QED
    BY <1>1, <1>4, <2>2, <2>3, <2>4, <2>5 DEF r
<1>7. CASE lba_mode(n) = "CHS"
  <2> DEFINE sect == (n % SectorsPerTrack) + 1
             track == n + 1 - sect
             cyl == track \div (Heads * SectorsPerTrack)
             head == (track % (Heads * SectorsPerTrack)) \div SectorsPerTrack
  <2>1. /\ sect \in 1 .. SectorsPerTrack
        /\ cyl \in Nat /\ cyl < Byte * Byte
        /\ head \in 0 .. Heads - 1
        /\ n = (cyl * Heads + head) * SectorsPerTrack + sect - 1
    BY <1>2, <1>7, Geometry
  <2>2. r = [mode |-> "CHS",
             io |-> [k \in 0 .. 2 |-> IF k = 0 THEN sect ELSE ByteOf(cyl, k - 1)],
             head |-> head, count |-> count]
    BY <1>7 DEF Registers, Encode, Address
  <2> HIDE DEF sect, track, cyl, head
  <2>3. /\ ByteOf(cyl, 0) \in 0 .. Byte - 1 /\ ByteOf(cyl, 1) \in 0 .. Byte - 1
        /\ cyl = ByteOf(cyl, 1) * Byte + ByteOf(cyl, 0)
    <3> DEFINE q == cyl \div Byte
    <3>1. q \in Nat /\ cyl % Byte \in 0 .. Byte - 1 /\ cyl = q * Byte + (cyl % Byte)
      BY <1>1, <2>1, Division
    <3>2. ByteOf(cyl, 0) = cyl % Byte /\ ByteOf(cyl, 1) = q % Byte
      BY DEF ByteOf
    <3> HIDE DEF q
    <3>3. q < Byte
      <4>1. q >= Byte => cyl >= Byte * Byte
        BY <1>1, <3>1, Z3
      <4>2. Byte * Byte \in Nat
        BY <1>1, Z3
      <4> QED
        BY <1>1, <2>1, <3>1, <4>1, <4>2
    <3>4. q % Byte = q
      BY <1>1, <3>1, <3>3, SMT
    <3> QED
      BY <1>1, <3>1, <3>2, <3>3, <3>4
  <2>4. r.io = [k \in 0 .. 2 |-> IF k = 0 THEN sect ELSE ByteOf(cyl, k - 1)]
        /\ r.mode = "CHS" /\ r.head = head /\ r.count = count
    BY <2>2
  <2> HIDE DEF r
  <2>5. r.io[0] = sect /\ r.io[1] = ByteOf(cyl, 0) /\ r.io[2] = ByteOf(cyl, 1)
        /\ DOMAIN r.io = 0 .. 2
    BY <2>4
  <2>6. Decode(r) = (cyl * Heads + head) * SectorsPerTrack + sect - 1
    BY <2>3, <2>4, <2>5 DEF Decode
  <2>7. \A k \in DOMAIN r.io : r.io[k] \in 0 .. Byte - 1
    <3>1. sect \in 0 .. Byte - 1
      BY <1>1, <2>1
    <3>2. \A k \in 0 .. 2 : k = 0 \/ k = 1 \/ k = 2
      OBVIOUS
    <3> QED
      BY <2>3, <2>5, <3>1, <3>2
  <2> QED
    BY <1>1, <2>1, <2>4, <2>6, <2>7 DEF r
<1>8. lba_mode(n) \in {"LBA48", "LBA28", "CHS"}
  BY DEF lba_mode
<1> QED
  BY <1>5, <1>6, <1>7, <1>8

-----------------------------------------------------------------------------
\* What a step that is not Select leaves of the registers.
LEMMA SameRegisters ==
  ASSUME TypeOK, UNCHANGED registers
  PROVE  /\ registers'.head \in 0 .. Nibble - 1
         /\ \A k \in DOMAIN registers'.io : registers'.io[k] \in 0 .. Byte - 1
         /\ Decode(registers)' = Decode(registers)
BY DEF TypeOK, Decode

\* Initially no call is running and the disk is ready.
LEMMA InitIInv == Init => IInv
<1> SUFFICES ASSUME Init PROVE IInv
  OBVIOUS
<1>1. /\ registers.head = 0 /\ registers.io = [k \in 0 .. 2 |-> 0]
      /\ Nibble \in Nat \ {0} /\ Byte \in Nat \ {0}
  BY AtaPioAssumption DEF Init
<1>2. edi \in Seq(Nat \cup {Garbage})
  BY DEF Init
<1>3. /\ registers.head \in 0 .. Nibble - 1
      /\ \A k \in DOMAIN registers.io : registers.io[k] \in 0 .. Byte - 1
  BY <1>1
<1>4. i \in 0 .. numsects /\ served \in Nat /\ result \in 0 .. 3 /\ cache \cap medium = {}
  BY DEF Init
<1>5. TypeOK
  BY <1>2, <1>3, <1>4, Zenon DEF Init, TypeOK
<1>6. AddressesTheSector /\ CommandsWhenExpected /\ Prepared /\ Reads /\ Writes /\ Keeps
  BY DEF Init, AddressesTheSector, CommandsWhenExpected, Prepared, Reads, Writes, Keeps,
         BSY, DRQ
<1> QED
  BY <1>5, <1>6 DEF IInv

\* A new call finds the disk quiet, whatever became of the one before.
LEMMA BeginIInv ==
  ASSUME IInv, NEW d \in {"read", "write"}, NEW n \in Lbas, NEW count \in Counts,
         Begin(d, n, count)
  PROVE  IInv'
<1>1. /\ pc = "idle" /\ pc' = "select" /\ direction' = d /\ lba' = n /\ numsects' = count
      /\ i' = 0 /\ edi' = <<>> /\ faulted' = FALSE /\ flushed' = FALSE
      /\ UNCHANGED <<result, lba28, registers, drive, served, cache, medium>>
      /\ lba_mode(n) = "CHS" => n < Byte * Byte * Heads * SectorsPerTrack
  BY DEF Begin, disk
<1>2. count \in Nat \ {0}
  BY AtaPioAssumption
<1>3. edi' \in Seq(Nat \cup {Garbage})
  BY <1>1
<1>4. TypeOK'
  <2>1. /\ i' \in 0 .. numsects' /\ cache' \cap medium' = {} /\ served' \in Nat
        /\ result' \in 0 .. 3
    BY <1>1, <1>2 DEF IInv, TypeOK
  <2>2. /\ registers'.head \in 0 .. Nibble - 1
        /\ \A k \in DOMAIN registers'.io : registers'.io[k] \in 0 .. Byte - 1
    BY <1>1, SameRegisters DEF IInv
  <2>3. /\ pc' = "select" /\ direction' \in {"read", "write"}
        /\ lba' \in Lbas \cup {0} /\ numsects' \in Counts \cup {0}
    BY <1>1, Zenon
  <2>4. /\ lba28' \in BOOLEAN /\ faulted' \in BOOLEAN /\ flushed' \in BOOLEAN
        /\ drive' \in {"ready", "seeking", "storing", "flushing", "has_data", "wants_data",
                       "error", "fault"}
    BY <1>1, Zenon DEF IInv, TypeOK
  <2> QED
    BY <1>3, <2>1, <2>2, <2>3, <2>4, Zenon DEF TypeOK
<1>5. lba_mode(lba)' = lba_mode(n)
  BY <1>1 DEF lba_mode
<1>6. Prepared'
  BY <1>1, <1>2, <1>5 DEF IInv, Prepared
<1>7. AddressesTheSector' /\ CommandsWhenExpected' /\ Reads' /\ Writes' /\ Keeps'
  BY <1>1 DEF AddressesTheSector, CommandsWhenExpected, Reads, Writes, Keeps
<1> QED
  BY <1>4, <1>6, <1>7 DEF IInv

\* The registers name the sector, and a disk that is not busy is quiet.
LEMMA SelectIInv ==
  ASSUME IInv, Select
  PROVE  IInv'
<1>1. /\ pc = "select" /\ pc' = "command"
      /\ registers' = Registers(lba_mode(lba), Encode(lba), numsects)
      /\ UNCHANGED <<direction, lba, numsects, lba28, i, edi, result, drive, served,
                     cache, medium, faulted, flushed>>
  BY DEF Select, call, disk, history
<1>2. lba \in 0 .. Byte * Byte * Byte * Byte - 1
  <2>1. \A b \in Nat \ {0} : b * b * b * b \in Nat \ {0}
    BY Z3
  <2>2. 0 \in 0 .. Byte * Byte * Byte * Byte - 1
    BY <2>1, AtaPioAssumption
  <2> QED
    BY <2>2, AtaPioAssumption DEF IInv, TypeOK
<1>3. lba_mode(lba) = "CHS" => lba < Byte * Byte * Heads * SectorsPerTrack
  BY <1>1 DEF IInv, Prepared
<1>4. lba28 \in BOOLEAN
  BY DEF IInv, TypeOK
<1>5. /\ Decode(registers') = lba /\ registers'.count = numsects
      /\ registers'.head \in 0 .. Nibble - 1
      /\ \A k \in DOMAIN registers'.io : registers'.io[k] \in 0 .. Byte - 1
  BY <1>1, <1>2, <1>3, <1>4, RegistersName
<1>6. TypeOK'
  BY <1>1, <1>5 DEF IInv, TypeOK
<1>7. AddressesTheSector'
  BY <1>1, <1>5 DEF AddressesTheSector, Decode
<1>8. CommandsWhenExpected' /\ Prepared' /\ Reads' /\ Writes' /\ Keeps'
  BY <1>1, <1>5 DEF IInv, CommandsWhenExpected, Prepared, Reads, Writes, Keeps, BSY, DRQ
<1> QED
  BY <1>6, <1>7, <1>8 DEF IInv

\* The transfer begins with nothing served.
LEMMA CommandIInv ==
  ASSUME IInv, Command
  PROVE  IInv'
<1>1. /\ pc = "command" /\ pc' = "poll" /\ served' = 0
      /\ drive' \in IF direction = "read" THEN {"seeking"} ELSE {"storing", "wants_data"}
      /\ UNCHANGED <<direction, lba, numsects, lba28, i, edi, result, registers,
                     cache, medium, faulted, flushed>>
  BY DEF Command, call, history
<1>2. /\ i = 0 /\ edi = <<>> /\ ~faulted /\ ~flushed /\ registers.count = numsects
      /\ i < numsects /\ direction \in {"read", "write"} /\ numsects \in Nat
  <2>1. direction \in {"read", "write"} /\ numsects \in Nat
    BY AtaPioAssumption DEF IInv, TypeOK
  <2> QED
    BY <1>1, <2>1 DEF IInv, Prepared
<1>3. TypeOK'
  BY <1>1, <1>2, SameRegisters DEF IInv, TypeOK
<1>4. AddressesTheSector'
  BY <1>1, SameRegisters DEF IInv, AddressesTheSector
<1>5. Prepared' /\ CommandsWhenExpected'
  BY <1>1, <1>2 DEF IInv, Prepared, CommandsWhenExpected
<1>6. Reads'
  BY <1>1, <1>2 DEF Reads
<1>7. Writes' /\ Keeps'
  BY <1>1, <1>2 DEF Writes, Keeps, Taken
<1> QED
  BY <1>3, <1>4, <1>5, <1>6, <1>7 DEF IInv

\* A poll finds data, or an error that ends the call; the disk is quiet then.
LEMMA PollReadIInv ==
  ASSUME IInv, PollRead
  PROVE  IInv'
<1>1. /\ pc = "poll" /\ direction = "read" /\ ~BSY
      /\ UNCHANGED <<direction, lba, numsects, lba28, i, edi, registers, drive, served,
                     cache, medium, faulted, flushed>>
  BY DEF PollRead, call, disk, history
<1>2. drive \in {"has_data", "ready", "error", "fault"}
  BY <1>1 DEF IInv, Reads, BSY
<1>3. /\ pc' \in {"idle", "transfer"} /\ result' \in 0 .. 3
      /\ pc' = "transfer" <=> drive = "has_data"
  BY <1>1, <1>2 DEF PollRead, Leave, DRQ, IInv, TypeOK
<1>4. TypeOK'
  BY <1>1, <1>3, SameRegisters DEF IInv, TypeOK
<1>5. AddressesTheSector'
  BY <1>1, <1>3, SameRegisters DEF IInv, AddressesTheSector
<1>6. CommandsWhenExpected' /\ Prepared' /\ Reads' /\ Writes' /\ Keeps'
  BY <1>1, <1>2, <1>3 DEF IInv, CommandsWhenExpected, Prepared, Reads, Writes, Keeps
<1> QED
  BY <1>4, <1>5, <1>6 DEF IInv

\* A poll between the sectors of a write waits until the disk wants the next
\* one, or has failed.
LEMMA PollWriteIInv ==
  ASSUME IInv, PollWrite
  PROVE  IInv'
<1>1. /\ pc = "poll" /\ direction = "write" /\ ~BSY /\ pc' = "transfer"
      /\ UNCHANGED <<direction, lba, numsects, lba28, i, edi, result, registers, drive,
                     served, cache, medium, faulted, flushed>>
  BY DEF PollWrite, call, disk, history
<1>2. drive \notin {"storing", "flushing"}
  BY <1>1 DEF BSY
<1>3. TypeOK'
  BY <1>1, SameRegisters DEF IInv, TypeOK
<1>4. AddressesTheSector'
  BY <1>1, SameRegisters DEF IInv, AddressesTheSector
<1>5. CommandsWhenExpected' /\ Prepared' /\ Reads'
  BY <1>1 DEF IInv, CommandsWhenExpected, Prepared, Reads
<1>6. Writes' /\ Keeps'
  BY <1>1, <1>2 DEF IInv, Writes, Keeps, Taken
<1> QED
  BY <1>3, <1>4, <1>5, <1>6 DEF IInv

\* Appending the sector that comes next to those received.
LEMMA AppendNext ==
  ASSUME NEW a \in Nat, NEW n \in Nat
  PROVE  Append([k \in 1 .. n |-> a + k - 1], a + n) = [k \in 1 .. n + 1 |-> a + k - 1]
<1> DEFINE s == [k \in 1 .. n |-> a + k - 1]
           t == [k \in 1 .. n + 1 |-> a + k - 1]
<1>1. s \in Seq(Int) /\ Len(s) = n
  BY SMT
<1>2. t \in Seq(Int) /\ Len(t) = n + 1
  BY SMT
<1>3. Append(s, a + n) \in Seq(Int) /\ Len(Append(s, a + n)) = n + 1
  BY <1>1, SMT
<1>4. ASSUME NEW k \in 1 .. n + 1 PROVE Append(s, a + n)[k] = t[k]
  BY <1>1, SMT
<1> QED
  BY <1>2, <1>3, <1>4, SMT

\* Numbers of sectors are natural numbers.
LEMMA NumbersFact ==
  ASSUME TypeOK
  PROVE  lba \in Nat /\ numsects \in Nat /\ i \in Nat
<1>1. Byte * Byte * Byte * Byte \in Nat
  <2>1. \A b \in Nat : b * b * b * b \in Nat
    BY Z3
  <2> QED
    BY <2>1, AtaPioAssumption
<1> QED
  BY <1>1, AtaPioAssumption DEF TypeOK

\* A read takes the sector the disk is at, and leaves it quiet after the last.
LEMMA ReceiveIInv ==
  ASSUME IInv, Receive
  PROVE  IInv'
<1>1. /\ pc = "transfer" /\ direction = "read" /\ drive = "has_data" /\ served = i
      /\ edi = [k \in 1 .. i |-> lba + k - 1] /\ Here = lba + i
      /\ i < numsects /\ registers.count = numsects
      /\ lba \in Nat /\ numsects \in Nat /\ i \in Nat /\ DRQ
  BY NumbersFact DEF Receive, IInv, Reads, Prepared, AddressesTheSector, Here, DRQ
<1>2. /\ edi' = Append(edi, lba + i) /\ i' = i + 1 /\ served' = i + 1
      /\ drive' = IF i + 1 = numsects THEN "ready" ELSE "seeking"
      /\ IF i + 1 = numsects THEN pc' = "idle" /\ result' = 0
                             ELSE pc' = "poll" /\ result' = result
      /\ UNCHANGED <<direction, lba, numsects, lba28, registers, cache, medium,
                     faulted, flushed>>
  BY <1>1 DEF Receive, Leave, call, history
<1>3. edi' = [k \in 1 .. i + 1 |-> lba + k - 1]
  BY <1>1, <1>2, AppendNext
<1>4. edi' \in Seq(Nat \cup {Garbage})
  <2>1. lba + i \in Nat \cup {Garbage} /\ edi \in Seq(Nat \cup {Garbage})
    BY <1>1 DEF IInv, TypeOK
  <2> QED
    BY <1>2, <2>1
<1>5. /\ pc' \in {"idle", "poll"} /\ result' \in 0 .. 3
      /\ drive' \in {"ready", "seeking"} /\ pc' = "idle" => drive' = "ready"
      /\ i' \in 0 .. numsects /\ served' \in Nat /\ served' <= registers.count
      /\ pc' = "poll" => i' < numsects
  BY <1>1, <1>2 DEF IInv, TypeOK
<1>6. TypeOK'
  BY <1>2, <1>4, <1>5, SameRegisters DEF IInv, TypeOK
<1>7. AddressesTheSector'
  BY <1>1, <1>2, <1>5, SameRegisters DEF IInv, AddressesTheSector
<1>8. CommandsWhenExpected' /\ Prepared' /\ Writes' /\ Keeps'
  BY <1>1, <1>2, <1>5 DEF IInv, CommandsWhenExpected, Prepared, Writes, Keeps
<1>9. Reads'
  BY <1>1, <1>2, <1>3, <1>5 DEF Reads
<1> QED
  BY <1>6, <1>7, <1>8, <1>9 DEF IInv

\* A write sends a sector that the disk wants, unless the disk has failed.
LEMMA SendIInv ==
  ASSUME IInv, Send
  PROVE  IInv'
<1>1. /\ pc = "transfer" /\ direction = "write" /\ Here = lba + served
      /\ i < numsects /\ registers.count = numsects /\ ~flushed
      /\ lba \in Nat /\ numsects \in Nat /\ i \in Nat /\ served \in Nat
      /\ i' = i + 1 /\ pc' = IF i + 1 = numsects THEN "flush" ELSE "poll"
      /\ UNCHANGED <<direction, lba, numsects, lba28, edi, result, registers,
                     faulted, flushed>>
  BY NumbersFact DEF Send, IInv, TypeOK, Prepared, AddressesTheSector, Here, call, history
<1>2. /\ pc' \in {"flush", "poll"} /\ i' \in 0 .. numsects
      /\ pc' = "poll" => i' < numsects
      /\ pc' = "flush" => i' = numsects
  BY <1>1
<1>3. CASE DRQ
  <2>1. /\ drive = "wants_data" /\ ~faulted /\ served = i
    BY <1>1, <1>3 DEF IInv, Writes, DRQ
  <2>2. /\ drive' = "storing" /\ served' = i + 1
        /\ cache' = cache \cup {lba + i} /\ medium' = medium \ {lba + i}
    BY <1>1, <1>3, <2>1 DEF Send
  <2>3. served' \in Nat /\ served' <= registers.count /\ cache' \cap medium' = {}
    BY <1>1, <2>1, <2>2 DEF IInv, TypeOK
  <2>4. TypeOK'
    BY <1>1, <1>2, <2>2, <2>3, SameRegisters DEF IInv, TypeOK
  <2>5. Taken' = Taken \cup {lba + i}
    BY <1>1 DEF Taken
  <2>6. Keeps'
    BY <1>1, <1>2, <2>1, <2>2, <2>5 DEF IInv, Keeps
  <2>7. Writes'
    BY <1>1, <1>2, <2>1, <2>2 DEF IInv, Writes
  <2>8. CommandsWhenExpected' /\ Prepared' /\ Reads'
    BY <1>1, <1>2, <2>1 DEF IInv, CommandsWhenExpected, Prepared, Reads
  <2>9. AddressesTheSector'
    BY <1>1, <1>2, SameRegisters DEF IInv, AddressesTheSector
  <2> QED
    BY <2>4, <2>6, <2>7, <2>8, <2>9 DEF IInv
<1>4. CASE ~DRQ
  <2>1. faulted /\ drive \in {"error", "fault"}
    BY <1>1, <1>4 DEF IInv, Writes, DRQ
  <2>2. UNCHANGED <<drive, served, cache, medium>>
    BY <1>4 DEF Send, disk
  <2>3. TypeOK'
    BY <1>1, <1>2, <2>2, SameRegisters DEF IInv, TypeOK
  <2>4. CommandsWhenExpected' /\ Prepared' /\ Reads' /\ Writes' /\ Keeps'
    BY <1>1, <1>2, <2>1, <2>2 DEF IInv, CommandsWhenExpected, Prepared, Reads, Writes, Keeps
  <2>5. AddressesTheSector'
    BY <1>1, <1>2, SameRegisters DEF IInv, AddressesTheSector
  <2> QED
    BY <2>3, <2>4, <2>5 DEF IInv
<1> QED
  BY <1>3, <1>4

\* The command to flush is taken, or the disk is still storing and ignores it.
LEMMA FlushIInv ==
  ASSUME IInv, Flush
  PROVE  IInv'
<1>1. /\ pc = "flush" /\ pc' = "poll_flush"
      /\ \/ drive' = "flushing" /\ flushed' = TRUE
         \/ (BSY \/ DRQ) /\ UNCHANGED <<drive, flushed>>
      /\ UNCHANGED <<direction, lba, numsects, lba28, i, edi, result, registers, served,
                     cache, medium, faulted>>
  BY DEF Flush, call
<1>2. /\ direction = "write" /\ i = numsects /\ ~flushed /\ registers.count = numsects
      /\ drive \in {"storing", "wants_data", "ready", "error", "fault"}
      /\ drive \in {"error", "fault"} <=> faulted
      /\ numsects \in Nat
  BY <1>1, NumbersFact DEF IInv, Prepared, Writes
<1>3. TypeOK'
  BY <1>1, SameRegisters DEF IInv, TypeOK
<1>4. CommandsWhenExpected' /\ AddressesTheSector' /\ Prepared' /\ Reads'
  BY <1>1, <1>2 DEF CommandsWhenExpected, AddressesTheSector, Prepared, Reads
<1>5. Writes'
  BY <1>1, <1>2 DEF IInv, Writes, BSY, DRQ
<1>6. Keeps'
  BY <1>1, <1>2 DEF IInv, Keeps, Taken
<1> QED
  BY <1>3, <1>4, <1>5, <1>6 DEF IInv

\* A write returns when the disk is not busy: it has then flushed, or failed,
\* or never took the command.
LEMMA PollFlushIInv ==
  ASSUME IInv, PollFlush
  PROVE  IInv'
<1>1. /\ pc = "poll_flush" /\ ~BSY /\ pc' = "idle" /\ result' = 0
      /\ UNCHANGED <<direction, lba, numsects, lba28, i, edi, registers, drive, served,
                     cache, medium, faulted, flushed>>
  BY DEF PollFlush, Leave, call, disk, history
<1>2. drive \in {"ready", "error", "fault"}
  <2>1. direction = "write" /\ i = numsects /\ numsects \in Nat
    BY <1>1, NumbersFact DEF IInv, Prepared
  <2> QED
    BY <1>1, <2>1 DEF IInv, Writes, BSY
<1>3. TypeOK'
  BY <1>1, SameRegisters DEF IInv, TypeOK
<1>4. CommandsWhenExpected' /\ AddressesTheSector' /\ Prepared' /\ Reads' /\ Writes' /\ Keeps'
  BY <1>1, <1>2 DEF CommandsWhenExpected, AddressesTheSector, Prepared, Reads, Writes, Keeps
<1> QED
  BY <1>3, <1>4 DEF IInv

\* The disk on its own moves on, or fails, only within a command.
LEMMA WorkingIInv ==
  ASSUME IInv, Working
  PROVE  IInv'
<1>1. BSY /\ UNCHANGED <<thread, registers, served>>
  BY DEF Working, Finds, Stores, Flushes, Fails, BSY
<1>2. /\ UNCHANGED <<pc, direction, lba, numsects, lba28, i, edi, result, registers, served>>
  BY <1>1 DEF thread, call
<1>3. pc \in {"poll", "transfer", "flush", "poll_flush"} /\ direction \in {"read", "write"}
  BY <1>1 DEF IInv, TypeOK, Prepared, BSY
<1>4. /\ registers.count = numsects /\ numsects \in Nat
      /\ pc \in {"flush", "poll_flush"} => direction = "write" /\ i = numsects
  BY <1>3, NumbersFact DEF IInv, Prepared
<1>5. AddressesTheSector' /\ CommandsWhenExpected'
  BY <1>2, <1>3, SameRegisters DEF IInv, AddressesTheSector, CommandsWhenExpected
<1>6. Taken' = Taken
  BY <1>2 DEF Taken
<1>7. CASE Finds
  <2>1. /\ drive = "seeking" /\ drive' \in {"has_data", "ready"}
        /\ UNCHANGED <<cache, medium, faulted, flushed>>
    BY <1>7 DEF Finds, history
  <2>2. direction = "read" /\ pc = "poll"
    BY <1>3, <1>4, <2>1 DEF IInv, Reads, Writes
  <2>3. TypeOK'
    BY <1>2, <2>1, SameRegisters DEF IInv, TypeOK
  <2>4. Prepared' /\ Reads' /\ Writes' /\ Keeps'
    BY <1>2, <2>1, <2>2 DEF IInv, Prepared, Reads, Writes, Keeps, lba_mode
  <2> QED
    BY <1>5, <2>3, <2>4 DEF IInv
<1>8. CASE Stores
  <2>1. /\ drive = "storing"
        /\ drive' = IF served = registers.count THEN "ready" ELSE "wants_data"
        /\ UNCHANGED <<cache, medium, faulted, flushed>>
    BY <1>8 DEF Stores, history
  <2>2. direction = "write" /\ ~faulted /\ served = i /\ pc # "transfer" /\ i \in Nat
        /\ i <= numsects
    BY <1>3, <1>4, <2>1, NumbersFact DEF IInv, Reads, Writes, TypeOK
  <2>3. TypeOK'
    BY <1>2, <2>1, SameRegisters DEF IInv, TypeOK
  <2>4. Prepared' /\ Reads'
    BY <1>2, <1>3, <2>1, <2>2 DEF IInv, Prepared, Reads, lba_mode
  <2>5. Writes'
    BY <1>2, <1>3, <1>4, <2>1, <2>2 DEF IInv, Writes
  <2>6. Keeps'
    <3>1. ~flushed \/ pc # "poll_flush" \/ Taken \subseteq medium
      BY <2>1, <2>2 DEF IInv, Keeps
    <3> QED
      BY <1>2, <1>6, <2>1, <2>2, <3>1 DEF IInv, Keeps
  <2> QED
    BY <1>5, <2>3, <2>4, <2>5, <2>6 DEF IInv
<1>9. CASE Flushes
  <2>1. /\ drive = "flushing" /\ drive' = "ready"
        /\ medium' = medium \cup cache /\ cache' = {}
        /\ UNCHANGED <<faulted, flushed>>
    BY <1>9 DEF Flushes, history
  <2>2. direction = "write" /\ pc = "poll_flush"
    BY <1>3, <1>4, <2>1 DEF IInv, Reads, Writes
  <2>3. TypeOK'
    BY <1>2, <2>1, SameRegisters DEF IInv, TypeOK
  <2>4. Prepared' /\ Reads'
    BY <1>2, <2>1, <2>2 DEF IInv, Prepared, Reads, lba_mode
  <2>5. Writes'
    BY <1>2, <1>4, <2>1, <2>2 DEF IInv, Writes
  <2>6. Keeps'
    BY <1>2, <1>6, <2>1, <2>2 DEF IInv, Keeps
  <2> QED
    BY <1>5, <2>3, <2>4, <2>5, <2>6 DEF IInv
<1>10. CASE Fails
  <2>1. /\ drive' \in {"error", "fault"} /\ faulted' = TRUE
        /\ UNCHANGED <<cache, medium, flushed>>
    BY <1>10 DEF Fails
  <2>2. pc # "transfer"
    BY <1>1, <1>3 DEF IInv, Reads, Writes, BSY
  <2>3. TypeOK'
    BY <1>2, <2>1, SameRegisters DEF IInv, TypeOK
  <2>4. Prepared' /\ Reads' /\ Writes' /\ Keeps'
    BY <1>2, <1>3, <2>1, <2>2 DEF IInv, Prepared, Reads, Writes, Keeps, lba_mode
  <2> QED
    BY <1>5, <2>3, <2>4 DEF IInv
<1> QED
  BY <1>7, <1>8, <1>9, <1>10 DEF Working

\* Emptying the cache loses nothing.
LEMMA DestagesIInv ==
  ASSUME IInv, Destages
  PROVE  IInv'
<1>1. /\ UNCHANGED <<pc, direction, lba, numsects, lba28, i, edi, result, registers,
                     drive, served, faulted, flushed>>
      /\ cache' \cup medium' = cache \cup medium /\ medium \subseteq medium'
      /\ cache' \cap medium' = {}
  BY DEF Destages, thread, call, history, IInv, TypeOK
<1>2. TypeOK'
  BY <1>1, SameRegisters DEF IInv, TypeOK
<1>3. AddressesTheSector' /\ CommandsWhenExpected' /\ Prepared' /\ Reads' /\ Writes'
  BY <1>1, SameRegisters DEF IInv, AddressesTheSector, CommandsWhenExpected, Prepared,
     Reads, Writes, BSY, DRQ, lba_mode
<1>4. Keeps'
  BY <1>1 DEF IInv, Keeps, Taken
<1> QED
  BY <1>2, <1>3, <1>4 DEF IInv

\* Every step of the thread and of the disk keeps the invariant.
LEMMA NextIInv == IInv /\ [Next]_vars => IInv'
<1> SUFFICES ASSUME IInv, [Next]_vars PROVE IInv'
  OBVIOUS
<1>1. CASE Running
  BY <1>1, SelectIInv, CommandIInv, PollReadIInv, PollWriteIInv, ReceiveIInv, SendIInv,
     FlushIInv, PollFlushIInv DEF Running
<1>2. CASE UNCHANGED vars
  <2>1. UNCHANGED <<pc, direction, lba, numsects, lba28, i, edi, result, registers,
                    drive, served, cache, medium, faulted, flushed>>
    BY <1>2 DEF vars, thread, call, disk, history
  <2>2. TypeOK'
    BY <2>1, SameRegisters DEF IInv, TypeOK
  <2>3. AddressesTheSector' /\ CommandsWhenExpected' /\ Prepared' /\ Reads' /\ Writes'
    BY <2>1, SameRegisters DEF IInv, AddressesTheSector, CommandsWhenExpected, Prepared,
       Reads, Writes, BSY, DRQ, lba_mode
  <2>4. Keeps'
    BY <2>1 DEF IInv, Keeps, Taken
  <2> QED
    BY <2>2, <2>3, <2>4 DEF IInv
<1> QED
  BY <1>1, <1>2, BeginIInv, WorkingIInv, DestagesIInv DEF Next

\* Registers, thread and disk agree throughout every call: the registers name
\* the sector asked for in all three addressing modes, and no command is sent
\* to a disk that is busy or still has data.
THEOREM ThreadAndDiskAgree == Spec => []IInv
BY InitIInv, NextIInv, PTL DEF Spec

\* A read that returns 0 has received the sectors asked for, in order, whatever
\* errors the disk had: the step that returns 0 is the one that takes the last.
THEOREM ReadsReceiveTheSectors == Spec => []ReadsAreRight
<1>1. Init => ReadsAreRight
  BY DEF Init, ReadsAreRight
<1>2. IInv /\ ReadsAreRight /\ [Next]_vars => ReadsAreRight'
  <2> SUFFICES ASSUME IInv, ReadsAreRight, [Next]_vars PROVE ReadsAreRight'
    OBVIOUS
  <2>1. CASE pc' # "idle"
    BY <2>1 DEF ReadsAreRight
  <2>2. CASE PollRead
    <3>1. result' # 0 \/ pc' = "transfer"
      BY <2>2 DEF PollRead, Leave, DRQ
    <3> QED
      BY <3>1 DEF ReadsAreRight
  <2>3. CASE Receive
    <3>1. /\ edi = [k \in 1 .. i |-> lba + k - 1] /\ drive = "has_data" /\ served = i
          /\ Here = lba + i /\ lba \in Nat /\ i \in Nat
      BY <2>3, NumbersFact DEF Receive, IInv, Reads, AddressesTheSector, Here
    <3>2. /\ edi' = Append(edi, lba + i) /\ UNCHANGED <<lba, numsects>>
          /\ pc' = "idle" => i + 1 = numsects
      BY <2>3, <3>1 DEF Receive, DRQ, call
    <3>3. edi' = [k \in 1 .. i + 1 |-> lba + k - 1]
      BY <3>1, <3>2, AppendNext
    <3> QED
      BY <3>2, <3>3 DEF ReadsAreRight
  <2>4. CASE PollFlush
    BY <2>4 DEF PollFlush, IInv, Prepared, ReadsAreRight, call
  <2>5. CASE UNCHANGED thread
    BY <2>5 DEF thread, call, ReadsAreRight
  <2>6. pc' # "idle" \/ PollRead \/ Receive \/ PollFlush \/ UNCHANGED thread
    BY DEF Next, Running, Working, Begin, Select, Command, PollWrite, Send, Flush,
           Finds, Stores, Flushes, Fails, Destages, vars
  <2> QED
    BY <2>1, <2>2, <2>3, <2>4, <2>5, <2>6
<1> QED
  BY <1>1, <1>2, InitIInv, NextIInv, PTL DEF Spec

\* A write that returns without the disk having failed has left it all the
\* sectors; they are on the medium if the disk took the command to flush.
THEOREM WritesReachTheDisk == Spec => []WritesKept
<1>1. Init => WritesKept
  BY DEF Init, WritesKept
<1>2. IInv /\ WritesKept /\ [Next]_vars => WritesKept'
  <2> SUFFICES ASSUME IInv, WritesKept, [Next]_vars PROVE WritesKept'
    OBVIOUS
  <2>1. CASE pc' # "idle" \/ direction' = "read"
    BY <2>1 DEF WritesKept
  <2>2. CASE PollFlush
    <3>1. /\ pc = "poll_flush" /\ drive # "flushing"
          /\ UNCHANGED <<direction, lba, numsects, cache, medium, faulted, flushed>>
      BY <2>2 DEF PollFlush, BSY, call, disk, history
    <3>2. Sectors = Taken
      BY <3>1 DEF IInv, Prepared, Sectors, Taken
    <3>3. Sectors' = Sectors
      BY <3>1 DEF Sectors
    <3>4. direction = "write" /\ ~faulted =>
            Sectors \subseteq IF flushed THEN medium ELSE cache \cup medium
      BY <3>1, <3>2 DEF IInv, Keeps
    <3> QED
      BY <3>1, <3>3, <3>4 DEF WritesKept
  <2>3. CASE /\ UNCHANGED <<pc, direction, lba, numsects, faulted, flushed>>
             /\ cache \cup medium \subseteq cache' \cup medium' /\ medium \subseteq medium'
    BY <2>3 DEF WritesKept, Sectors
  <2>4. CASE Working
    <3>1. pc # "idle" /\ pc' = pc
      BY <2>4 DEF Working, Finds, Stores, Flushes, Fails, thread, BSY, IInv, Prepared
    <3> QED
      BY <3>1 DEF WritesKept
  <2>5. Destages => /\ UNCHANGED <<pc, direction, lba, numsects, faulted, flushed>>
                    /\ cache \cup medium \subseteq cache' \cup medium'
                    /\ medium \subseteq medium'
    BY DEF Destages, thread, call, history
  <2>6. \/ pc' # "idle" \/ direction' = "read" \/ PollFlush \/ Working \/ Destages
        \/ UNCHANGED vars
    BY DEF Next, Running, Begin, Select, Command, PollRead, PollWrite, Receive, Send,
           Flush, call
  <2>7. CASE UNCHANGED vars
    BY <2>3, <2>7 DEF vars, thread, call, disk, history
  <2> QED
    BY <2>1, <2>2, <2>3, <2>4, <2>5, <2>6, <2>7
<1> QED
  BY <1>1, <1>2, InitIInv, NextIInv, PTL DEF Spec
=============================================================================
