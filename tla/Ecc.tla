---------------------------------- MODULE Ecc ----------------------------------
(****************************************************************************)
(* The P and Q parity of a raw CD sector (libchdr_cdrom.c) and the CRC-16   *)
(* of a decoded hunk (libchdr_chd.c), over bits: a byte is the set of the   *)
(* positions of its one bits, a 32-bit word likewise, so that xor is the    *)
(* symmetric difference and a shift adds to every position.                 *)
(*                                                                          *)
(* The geometry is a parameter.  The code has 86 P rows of 24 bytes, and    *)
(* the rest follows from these two numbers: 43 bytes to a Q row, 52 Q rows, *)
(* the offsets of the two parities and the length of a sector.              *)
(****************************************************************************)
EXTENDS Integers, Sequences, SequencesExt

CONSTANTS
  SYNC_NUM_BYTES,   \* 12: bytes of the sync header
  ECC_P_NUM_BYTES,  \* 86: P rows
  ECC_P_COMP        \* 24: bytes to a P row

\* The sector is made of two planes of bytes, the first four are its header,
\* and the last group of four P rows is not whole.
ASSUME EccAssumption ==
  /\ SYNC_NUM_BYTES \in Nat /\ ECC_P_NUM_BYTES \in Nat /\ ECC_P_COMP \in Nat
  /\ SYNC_NUM_BYTES > 1 /\ ECC_P_COMP > 0
  /\ ECC_P_NUM_BYTES > 4 /\ ECC_P_NUM_BYTES % 4 = 2

MODE_OFFSET     == SYNC_NUM_BYTES + 3
ECC_P_OFFSET    == SYNC_NUM_BYTES + ECC_P_NUM_BYTES * ECC_P_COMP
ECC_Q_COMP      == ECC_P_NUM_BYTES \div 2
ECC_Q_NUM_BYTES == 2 * (ECC_P_COMP + 2)
ECC_Q_OFFSET    == ECC_P_OFFSET + 2 * ECC_P_NUM_BYTES
CD_MAX_SECTOR_DATA == ECC_Q_OFFSET + 2 * ECC_Q_NUM_BYTES

-----------------------------------------------------------------------------
(* Bits. *)
Byte == SUBSET (0 .. 7)
Xor(a, b) == (a \ b) \cup (b \ a)
Weights == <<1, 2, 4, 8, 16, 32, 64, 128>>
Bits(n) == {k \in 0 .. 7 : (n \div Weights[k + 1]) % 2 = 1}
Shifted(w, k) == {b + k : b \in w}

\* The byte in lane k of a word, and the word of four bytes.
Lane(w, k) == Shifted(w, -(8 * k)) \cap (0 .. 7)
Word(bytes) == UNION {Shifted(bytes[k], 8 * k) : k \in 0 .. 3}

-----------------------------------------------------------------------------
(* The field GF(2^8) of polynomial 0x11d, and the rows of the two parities. *)
ecc_xtime(x) == Xor(Shifted(x, 1) \cap (0 .. 7), IF 7 \in x THEN {0, 2, 3, 4} ELSE {})
ecclow == [x \in Byte |-> ecc_xtime(x)]
ecchigh == [x \in Byte |-> CHOOSE y \in Byte : Xor(ecclow[y], y) = x]

poffsets == [row \in 0 .. ECC_P_NUM_BYTES - 1 |->
               [c \in 1 .. ECC_P_COMP |-> row + ECC_P_NUM_BYTES * (c - 1)]]
qoffsets == [row \in 0 .. ECC_Q_NUM_BYTES - 1 |->
               [c \in 1 .. ECC_Q_COMP |->
                  (ECC_P_NUM_BYTES * (row \div 2) + (row % 2)
                     + (ECC_P_NUM_BYTES + 2) * (c - 1))
                  % (ECC_P_NUM_BYTES * (ECC_P_COMP + 2))]]

\* All bytes, or words, of a row xored together.
XorOf(terms) ==
  LET sum[c \in 0 .. Len(terms)] == IF c = 0 THEN {} ELSE Xor(sum[c - 1], terms[c])
  IN  sum[Len(terms)]

\* The two parity bytes of a row.  A sector of mode 2 counts its header as 0.
ecc_compute_bytes(sector, row) ==
  LET mode2 == sector[MODE_OFFSET] = Bits(2)
      bytes == [c \in 1 .. Len(row) |-> IF mode2 /\ row[c] < 4
                                         THEN {} ELSE sector[SYNC_NUM_BYTES + row[c]]]
      low[c \in 0 .. Len(row)] == IF c = 0 THEN {} ELSE ecclow[Xor(low[c - 1], bytes[c])]
      sum == XorOf(bytes)
      v1  == ecchigh[Xor(ecclow[low[Len(row)]], sum)]
  IN <<v1, Xor(sum, v1)>>

-----------------------------------------------------------------------------
(* Four P rows at a time in one 32-bit word. *)
ecc_xtime4_NoMask(t) ==
  Xor(Shifted(t, 1) \cap (0 .. 31),
      UNION {Shifted({0, 2, 3, 4}, b - 7) : b \in t \cap {7, 15, 23, 31}})
ecc_xtime4(t) ==
  Xor(Shifted(t, 1) \cap {b \in 0 .. 31 : b % 8 # 0},
      UNION {Shifted({0, 2, 3, 4}, b - 7) : b \in t \cap {7, 15, 23, 31}})

SwarGroup(sector, row) ==
  LET mode2 == sector[MODE_OFFSET] = Bits(2)
      words == [c \in 1 .. ECC_P_COMP |->
                  IF mode2 /\ row = 0 /\ c = 1 THEN {}
                  ELSE Word([k \in 0 .. 3 |-> sector[SYNC_NUM_BYTES + row + k
                                                       + ECC_P_NUM_BYTES * (c - 1)]])]
      low[c \in 0 .. ECC_P_COMP] == IF c = 0 THEN {} ELSE ecc_xtime4(Xor(low[c - 1], words[c]))
      sum == XorOf(words)
      v1  == Word([k \in 0 .. 3 |-> ecchigh[Xor(ecc_xtime(Lane(low[ECC_P_COMP], k)), Lane(sum, k))]])
      v2  == Xor(sum, v1)
      at  == ECC_P_OFFSET + row
  IN [i \in DOMAIN sector \cup (at .. at + 3)
              \cup (at + ECC_P_NUM_BYTES .. at + ECC_P_NUM_BYTES + 3) |->
        IF i \in at .. at + 3 THEN Lane(v1, i - at)
        ELSE IF i \in at + ECC_P_NUM_BYTES .. at + ECC_P_NUM_BYTES + 3
             THEN Lane(v2, i - ECC_P_NUM_BYTES - at)
             ELSE sector[i]]

ScalarRow(sector, row, offset, numbytes, at) ==
  LET v == ecc_compute_bytes(sector, row)
  IN [i \in DOMAIN sector \cup {offset + at, offset + numbytes + at} |->
        IF i = offset + at THEN v[1] ELSE IF i = offset + numbytes + at THEN v[2] ELSE sector[i]]

\* The first rows four at a time, the others one by one.
ecc_p_generate_swar(sector) ==
  LET groups == ECC_P_NUM_BYTES \div 4
      packed[g \in 0 .. groups] ==
        IF g = 0 THEN sector ELSE SwarGroup(packed[g - 1], 4 * (g - 1))
      others == ECC_P_NUM_BYTES % 4
      done[r \in 0 .. others] ==
        IF r = 0 THEN packed[groups]
        ELSE LET row == 4 * groups + r - 1
             IN  ScalarRow(done[r - 1], poffsets[row], ECC_P_OFFSET, ECC_P_NUM_BYTES, row)
  IN done[others]

ecc_generate(sector) ==
  LET done[r \in 0 .. ECC_Q_NUM_BYTES] ==
        IF r = 0 THEN ecc_p_generate_swar(sector)
        ELSE ScalarRow(done[r - 1], qoffsets[r - 1], ECC_Q_OFFSET, ECC_Q_NUM_BYTES, r - 1)
  IN done[ECC_Q_NUM_BYTES]

\* Does every row of the sector have the parity it should have?
ParityAt(sector, offset, numbytes, r) == <<sector[offset + r], sector[offset + numbytes + r]>>
ecc_verify(sector) ==
  /\ \A r \in DOMAIN poffsets :
       ParityAt(sector, ECC_P_OFFSET, ECC_P_NUM_BYTES, r) = ecc_compute_bytes(sector, poffsets[r])
  /\ \A r \in DOMAIN qoffsets :
       ParityAt(sector, ECC_Q_OFFSET, ECC_Q_NUM_BYTES, r) = ecc_compute_bytes(sector, qoffsets[r])

-----------------------------------------------------------------------------
(* CRC-16 with polynomial 0x1021: the shift register, one bit at a time, is *)
(* the reference; the code folds four bytes at a time through four tables.  *)
Register(crc) == Xor(Shifted(crc, 1) \cap (0 .. 15), IF 15 \in crc THEN {0, 5, 12} ELSE {})
Crc16(crc, bytes) ==
  LET after[k \in 0 .. 8 * Len(bytes)] ==
        IF k = 0 THEN crc
        ELSE IF k % 8 = 1 THEN Register(Xor(after[k - 1], Shifted(bytes[(k + 7) \div 8], 8)))
        ELSE Register(after[k - 1])
  IN after[8 * Len(bytes)]

High(crc) == Shifted(crc, -8) \cap (0 .. 7)
Low(crc) == crc \cap (0 .. 7)
s_table  == [b \in Byte |-> Crc16({}, <<b>>)]
Advanced(crc, b) == Xor(Shifted(Low(crc), 8), s_table[Xor(High(crc), b)])
s_table1 == [b \in Byte |-> Advanced(s_table[b], {})]
s_table2 == [b \in Byte |-> Advanced(s_table1[b], {})]
s_table3 == [b \in Byte |-> Advanced(s_table2[b], {})]

\* Four bytes at once while there are four, then one at a time.
Fours(bytes) == [i \in 1 .. Len(bytes) \div 4 |-> SubSeq(bytes, 4 * i - 3, 4 * i)]
Ones(bytes) == [i \in 1 .. Len(bytes) % 4 |-> <<bytes[4 * (Len(bytes) \div 4) + i]>>]
FoldedByte(crc, s) ==
  IF Len(s) = 1 THEN Advanced(crc, s[1])
  ELSE Xor(Xor(s_table3[Xor(High(crc), s[1])], s_table2[Xor(Low(crc), s[2])]),
           Xor(s_table1[s[3]], s_table[s[4]]))

crc16_update(crc, bytes) ==
  LET pieces == Fours(bytes) \o Ones(bytes)
      folded[i \in 0 .. Len(pieces)] ==
        IF i = 0 THEN crc ELSE FoldedByte(folded[i - 1], pieces[i])
  IN folded[Len(pieces)]

chd_crc16(bytes) == crc16_update(0 .. 15, bytes)
=============================================================================
