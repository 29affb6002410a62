-------------------------- MODULE FileSystemProofs --------------------------
(***************************************************************************)
(* Proofs about FileSystem, for any host directory, any sizes of blocks,   *)
(* words and sectors, any calls and any loss of power: no two pointers     *)
(* ever share a block, nothing is written over the superblock, every path  *)
(* leads where it did on the host, and every step is one of FileStore.     *)
(*                                                                         *)
(* IInv has two halves.  BuilderOK says how much of the host directory is  *)
(* in the image: the disk does not tell which cells of it are for which    *)
(* host entry, so for every node there are "ghosts", the entries it stands *)
(* for and the cells it is to hold, and a step of the builder chooses the  *)
(* next ones.  KernelOK says that the disk is sound, that it holds the     *)
(* tree, and that the pending sector writes of the call lead, one after    *)
(* the other, from one such disk to the next (Leads): so it does not       *)
(* matter between which two of them the power goes.                        *)
(*                                                                         *)
(* An image that did not fit is promised nothing (Fits): what has failed   *)
(* in the builder stays failed (After), and the rest is proved of the      *)
(* steps that do not fail.                                                 *)
(***************************************************************************)
EXTENDS FileSystem, WellFoundedInduction, SequenceTheorems, TLAPS

\* A set of numbers that is not empty has a least one.
LEMMA LeastOf ==
  ASSUME NEW S, S \subseteq Nat, S # {}
  PROVE  \E m \in S : \A k \in S : m <= k
<1>1. \E m \in S : \A k \in S : ~(<<k, m>> \in OpToRel(<, Nat))
  BY WFMin, NatLessThanWellFounded
<1>2. ASSUME NEW i \in Nat, NEW j \in Nat, j < i PROVE <<j, i>> \in OpToRel(<, Nat)
  BY <1>2 DEF OpToRel
<1>3. \A i, j \in S : i <= j \/ j < i
  OBVIOUS
<1> QED BY <1>1, <1>2, <1>3

\* Min is the least element.
LEMMA MinIs ==
  ASSUME NEW S, S \subseteq Nat, S # {}
  PROVE  Min(S) \in S /\ \A k \in S : Min(S) <= k
BY LeastOf DEF Min

-----------------------------------------------------------------------------
(* Numbers *)

IsPower(F, n) == F = [k \in 0 .. n |-> IF k = 0 THEN 1 ELSE 2 * F[k - 1]]

\* The powers of two are what their definition says.
LEMMA PowersUpTo ==
  ASSUME NEW n \in Nat
  PROVE  \E F : IsPower(F, n)
<1> DEFINE Bad == {m \in Nat : ~ \E F : IsPower(F, m)}
<1> SUFFICES ASSUME Bad # {} PROVE FALSE
  OBVIOUS
<1>1. PICK m \in Bad : \A j \in Bad : m <= j
  BY LeastOf
<1>2. m # 0
  <2>1. IsPower([k \in 0 .. 0 |-> 1], 0)
    BY DEF IsPower
  <2> QED BY <1>1, <2>1
<1>3. m - 1 \in Nat /\ m - 1 \notin Bad
  BY <1>1, <1>2
<1>4. PICK F : IsPower(F, m - 1)
  BY <1>3
<1> DEFINE G == [k \in 0 .. m |-> IF k < m THEN F[k] ELSE 2 * F[m - 1]]
<1>5. \A k \in 0 .. m : G[k] = IF k = 0 THEN 1 ELSE 2 * G[k - 1]
  BY <1>2, <1>4 DEF IsPower
<1>6. IsPower(G, m)
  BY <1>5 DEF IsPower
<1> QED BY <1>1, <1>6

\* Power as the recursive function that it is.
LEMMA PowerIs ==
  /\ Power = [k \in 0 .. WordBits |-> IF k = 0 THEN 1 ELSE 2 * Power[k - 1]]
<1>1. WordBits \in Nat
  BY BobFSAssumption
<1>2. PICK F : F = [k \in 0 .. WordBits |-> IF k = 0 THEN 1 ELSE 2 * F[k - 1]]
  BY <1>1, PowersUpTo DEF IsPower
<1> QED BY <1>2 DEF Power

\* The powers of two one by one.
LEMMA PowerStep ==
  /\ Power[0] = 1
  /\ \A k \in 1 .. WordBits : Power[k] = 2 * Power[k - 1]
  /\ \A k \in 0 .. WordBits : Power[k] \in Nat /\ Power[k] > 0
<1> USE BobFSAssumption
<1>1. Power[0] = 1 /\ \A k \in 1 .. WordBits : Power[k] = 2 * Power[k - 1]
  BY PowerIs
<1> DEFINE Bad == {m \in 0 .. WordBits : ~(Power[m] \in Nat /\ Power[m] > 0)}
<1>2. ASSUME Bad # {} PROVE FALSE
  <2>0. Bad \subseteq Nat
    OBVIOUS
  <2>1. PICK m \in Bad : \A j \in Bad : m <= j
    BY <1>2, <2>0, LeastOf
  <2>2. m # 0
    BY <1>1, <2>1
  <2>3. m - 1 \notin Bad /\ m - 1 \in 0 .. WordBits
    BY <2>1, <2>2
  <2> QED BY <1>1, <2>1, <2>2, <2>3
<1> QED BY <1>1, <1>2

\* Division by b: the quotient and the rest are the only ones.
LEMMA DivIs ==
  ASSUME NEW q \in Nat, NEW b \in Nat, NEW r \in 0 .. b - 1
  PROVE  (q * b + r) \div b = q /\ (q * b + r) % b = r
OBVIOUS

\* Quotient and remainder.
LEMMA DivMod ==
  ASSUME NEW a \in Nat, NEW b \in Nat, b > 0
  PROVE  /\ a \div b \in Nat /\ a % b \in 0 .. b - 1
         /\ a = (a \div b) * b + (a % b)
OBVIOUS

\* A multiple of b more.
LEMMA DivAdd ==
  ASSUME NEW a \in Nat, NEW b \in Nat, NEW m \in Nat, b > 0
  PROVE  (a + m * b) \div b = a \div b + m
<1>1. PICK q \in Nat, r \in 0 .. b - 1 : a = q * b + r /\ a \div b = q
  BY DivMod
<1>2. a + m * b = (q + m) * b + r
  BY <1>1
<1>3. (q + m) \in Nat
  OBVIOUS
<1> QED BY <1>1, <1>2, <1>3, DivIs

\* Power[r] is an even multiple of Power[q] for q < r.
LEMMA PowerMultiple ==
  ASSUME NEW q \in 0 .. WordBits, NEW d \in Nat, q + d <= WordBits
  PROVE  \E m \in Nat : m > 0 /\ Power[q + d] = m * Power[q]
<1> DEFINE Bad == {e \in Nat : q + e <= WordBits /\ ~ \E m \in Nat : m > 0 /\ Power[q + e] = m * Power[q]}
<1> SUFFICES ASSUME Bad # {} PROVE FALSE
  OBVIOUS
<1>0. Bad \subseteq Nat
  OBVIOUS
<1>1. PICK e \in Bad : \A j \in Bad : e <= j
  BY <1>0, LeastOf
<1>2. e # 0
  BY <1>1, PowerStep, BobFSAssumption
<1>3. e - 1 \in Nat /\ e - 1 \notin Bad /\ q + (e - 1) <= WordBits
  BY <1>1, <1>2, BobFSAssumption
<1>4. PICK m \in Nat : m > 0 /\ Power[q + (e - 1)] = m * Power[q]
  BY <1>3
<1>5. Power[q + e] = 2 * Power[q + (e - 1)]
  <2>1. q + e \in 1 .. WordBits /\ (q + e) - 1 = q + (e - 1)
    BY <1>1, <1>2, BobFSAssumption
  <2> QED BY <2>1, PowerStep
<1>6. Power[q + e] = (2 * m) * Power[q] /\ 2 * m \in Nat /\ 2 * m > 0
  BY <1>4, <1>5, PowerStep
<1> QED BY <1>1, <1>6

\* A power of two is an even multiple of every lower one.
LEMMA PowerEven ==
  ASSUME NEW q \in 0 .. WordBits, NEW r \in 0 .. WordBits, q < r
  PROVE  \E m \in Nat : m > 0 /\ Power[r] = (2 * m) * Power[q]
<1>1. r - 1 - q \in Nat /\ q + (r - 1 - q) = r - 1 /\ r - 1 <= WordBits /\ r \in 1 .. WordBits
  BY BobFSAssumption
<1>2. PICK m \in Nat : m > 0 /\ Power[r - 1] = m * Power[q]
  BY <1>1, PowerMultiple, ZenonT(30)
<1>3. Power[r] = 2 * (m * Power[q])
  BY <1>1, <1>2, PowerStep
<1> QED BY <1>2, <1>3, PowerStep

Bit(w, q) == (w \div Power[q]) % 2

\* Adding Power[r] to a word in which bit r is clear sets that bit and no other one.
LEMMA SetBit ==
  ASSUME NEW w \in Nat, NEW r \in 0 .. WordBits - 1, Bit(w, r) # 1,
         NEW q \in 0 .. WordBits - 1
  PROVE  Bit(w + Power[r], q) = IF q = r THEN 1 ELSE Bit(w, q)
<1> USE BobFSAssumption
<1>0. /\ q \in 0 .. WordBits /\ r \in 0 .. WordBits
      /\ Power[q] \in Nat /\ Power[q] > 0 /\ Power[r] \in Nat /\ Power[r] > 0
  BY PowerStep
<1>1. CASE q = r
  <2>1. (w + 1 * Power[r]) \div Power[r] = w \div Power[r] + 1
    BY <1>0, DivAdd
  <2>2. w \div Power[r] \in Nat
    BY <1>0, DivMod
  <2>3. \A x \in Nat : x % 2 # 1 => (x + 1) % 2 = 1
    OBVIOUS
  <2>4. Bit(w + Power[r], r) = (w \div Power[r] + 1) % 2
    BY <1>0, <2>1 DEF Bit
  <2>5. Bit(w + Power[r], r) = 1
    BY <2>2, <2>3, <2>4 DEF Bit
  <2> QED BY <1>1, <2>5
<1>2. CASE q < r
  <2>1. PICK m \in Nat : Power[r] = (2 * m) * Power[q]
    BY <1>0, <1>2, PowerEven
  <2>2. (w + (2 * m) * Power[q]) \div Power[q] = w \div Power[q] + 2 * m
    BY <1>0, DivAdd
  <2>3. w \div Power[q] \in Nat
    BY <1>0, DivMod
  <2>4. \A x \in Nat : (x + 2 * m) % 2 = x % 2
    OBVIOUS
  <2> QED BY <1>2, <2>1, <2>2, <2>3, <2>4 DEF Bit
<1>3. CASE q > r
  <2>1. PICK m \in Nat : m > 0 /\ Power[q] = (2 * m) * Power[r]
    BY <1>0, <1>3, PowerEven
  <2>2. PICK A \in Nat, B \in 0 .. Power[q] - 1 : w = A * Power[q] + B /\ w \div Power[q] = A
    BY <1>0, DivMod
  <2>3. PICK e \in Nat, c \in 0 .. Power[r] - 1 : B = e * Power[r] + c /\ B \div Power[r] = e
    <3>1. B \in Nat
      BY <1>0
    <3> QED BY <1>0, <3>1, DivMod
  <2>4. w = ((2 * m) * A + e) * Power[r] + c
    BY <1>0, <2>1, <2>2, <2>3
  <2>5. w \div Power[r] = (2 * m) * A + e
    <3>1. (2 * m) * A + e \in Nat
      OBVIOUS
    <3> QED BY <1>0, <2>4, <3>1, DivIs
  <2>6. ((2 * m) * A + e) % 2 = 0
    <3>1. (2 * m) * A + e \in Nat
      OBVIOUS
    <3> QED BY <2>5, <3>1 DEF Bit
  <2>7. e % 2 = 0
    <3>1. (2 * m) * A + e = e + 2 * (m * A) /\ m * A \in Nat
      OBVIOUS
    <3>2. \A x \in Nat : (e + 2 * x) % 2 = e % 2
      OBVIOUS
    <3> QED BY <2>6, <3>1, <3>2
  <2>8. e < 2 * m
    <3>1. SUFFICES ASSUME e >= 2 * m PROVE FALSE
      OBVIOUS
    <3>2. e * Power[r] >= (2 * m) * Power[r]
      BY <1>0, <3>1
    <3> QED BY <1>0, <2>1, <2>2, <2>3, <3>2
  <2>9. e + 2 <= 2 * m
    BY <2>7, <2>8
  <2>10. (e + 2) * Power[r] <= (2 * m) * Power[r]
    BY <1>0, <2>9
  <2>11. B + Power[r] < Power[q]
    BY <1>0, <2>1, <2>3, <2>10
  <2>12. (w + Power[r]) \div Power[q] = A
    <3>1. w + Power[r] = A * Power[q] + (B + Power[r]) /\ B + Power[r] \in 0 .. Power[q] - 1
      BY <1>0, <2>2, <2>11
    <3>2. \A z \in 0 .. Power[q] - 1 : (A * Power[q] + z) \div Power[q] = A
      BY <1>0, DivIs
    <3> QED BY <3>1, <3>2
  <2> QED BY <1>3, <2>2, <2>12 DEF Bit
<1> QED BY <1>1, <1>2, <1>3

-----------------------------------------------------------------------------
(* Where things are on the disk *)

FirstBlock == DataBase \div BlockSize

\* The blocks of the superblock, the two bitmaps, the inodes and the data follow each other.
LEMMA Layout ==
  /\ BlockSize \in Nat /\ BlockSize >= 3 /\ WordBits \in Nat /\ WordBits > 0
  /\ Bits \in Nat /\ Bits > 0 /\ Bits = BlockSize * WordBits
  /\ FirstBlock \in Nat /\ FirstBlock > 0 /\ DataBase = FirstBlock * BlockSize
  /\ DataBitmapBase = BlockSize /\ InodeBitmapBase = 2 * BlockSize /\ InodeBase = 3 * BlockSize
  /\ DataBase = 3 * BlockSize + 5 * Bits /\ DataBase \in Nat
  /\ DiskSize = DataBase + Bits * BlockSize /\ DiskSize = (FirstBlock + Bits) * BlockSize
  /\ DiskSize \in Nat /\ DiskSize >= DataBase
  /\ RootInode \in Inodes
<1> USE BobFSAssumption
<1>1. BlockSize \in Nat /\ BlockSize >= 3 /\ WordBits \in Nat /\ WordBits > 0
  OBVIOUS
<1>2. Bits \in Nat /\ Bits > 0 /\ Bits = BlockSize * WordBits
  BY <1>1 DEF Bits
<1>3. DataBase = 3 * BlockSize + 5 * Bits /\ DataBase \in Nat
  BY <1>1, <1>2 DEF DataBase, InodeBase, NodeSize
<1>4. DataBase = (3 + 5 * WordBits) * BlockSize + 0
  BY <1>1, <1>2, <1>3
<1>5. FirstBlock = 3 + 5 * WordBits
  <2>1. 3 + 5 * WordBits \in Nat
    BY <1>1
  <2> QED BY <1>1, <1>4, <2>1, DivIs DEF FirstBlock
<1>6. FirstBlock \in Nat /\ FirstBlock > 0 /\ DataBase = FirstBlock * BlockSize
  BY <1>1, <1>4, <1>5
<1>7. /\ DiskSize = DataBase + Bits * BlockSize /\ DiskSize = (FirstBlock + Bits) * BlockSize
      /\ Bits * BlockSize \in Nat
  BY <1>1, <1>2, <1>6 DEF DiskSize
<1>8. DiskSize \in Nat /\ DiskSize >= DataBase
  BY <1>3, <1>7
<1> QED BY <1>1, <1>2, <1>3, <1>6, <1>7, <1>8
        DEF DataBitmapBase, InodeBitmapBase, InodeBase, Inodes

\* The cells of two blocks are apart.
LEMMA BlocksApart ==
  ASSUME NEW b \in Nat, NEW c \in Nat, NEW p \in 0 .. BlockSize - 1, NEW q \in 0 .. BlockSize - 1,
         b * BlockSize + p = c * BlockSize + q
  PROVE  b = c /\ p = q
<1>1. /\ (b * BlockSize + p) \div BlockSize = b
      /\ (b * BlockSize + p) % BlockSize = p
      /\ (c * BlockSize + q) \div BlockSize = c
      /\ (c * BlockSize + q) % BlockSize = q
  BY DivIs, Layout
<1> QED BY <1>1

\* A data block lies behind the inodes and before the end of the disk.
LEMMA BlockCell ==
  ASSUME NEW b \in Blocks, NEW p \in 0 .. BlockSize - 1
  PROVE  /\ b \in Nat /\ b # 0
         /\ b * BlockSize + p \in DataBase .. DiskSize - 1
<1>1. b \in Nat /\ b > 0 /\ FirstBlock <= b /\ b + 1 <= FirstBlock + Bits
  BY Layout DEF Blocks, FirstBlock
<1>2. FirstBlock * BlockSize <= b * BlockSize
  BY <1>1, Layout
<1>3. (b + 1) * BlockSize <= (FirstBlock + Bits) * BlockSize
  BY <1>1, Layout
<1> QED BY <1>1, <1>2, <1>3, Layout

\* A field of a node lies between the bitmaps and the blocks; no two are the same.
LEMMA FieldCell ==
  ASSUME NEW i \in Inodes, NEW f \in 0 .. 4
  PROVE  /\ FieldAt(i, f) \in InodeBase .. DataBase - 1
         /\ \A j \in Inodes, g \in 0 .. 4 : FieldAt(i, f) = FieldAt(j, g) => i = j /\ f = g
<1>1. \A j \in Inodes, g \in 0 .. 4 : FieldAt(j, g) = 3 * BlockSize + (j * 5 + g)
  BY Layout DEF FieldAt, NodeSize, Inodes
<1>2. \A j \in Inodes : j \in Nat /\ j + 1 <= Bits
  BY Layout DEF Inodes
<1>3. FieldAt(i, f) \in InodeBase .. DataBase - 1
  BY <1>1, <1>2, Layout
<1>4. ASSUME NEW j \in Inodes, NEW g \in 0 .. 4, FieldAt(i, f) = FieldAt(j, g)
      PROVE  i = j /\ f = g
  <2>1. i * 5 + f = j * 5 + g
    BY <1>1, <1>2, <1>4, Layout
  <2>2. i \in Nat /\ j \in Nat /\ f \in 0 .. 5 - 1 /\ g \in 0 .. 5 - 1
    BY <1>2
  <2>3. /\ (i * 5 + f) \div 5 = i /\ (i * 5 + f) % 5 = f
        /\ (j * 5 + g) \div 5 = j /\ (j * 5 + g) % 5 = g
    BY <2>2, DivIs
  <2> QED BY <2>1, <2>3
<1> QED BY <1>3, <1>4

\* A bit is in a word of its bitmap's block.
LEMMA WordCell ==
  ASSUME NEW k \in 0 .. Bits - 1
  PROVE  k \div WordBits \in 0 .. BlockSize - 1 /\ k % WordBits \in 0 .. WordBits - 1
<1>1. k \in Nat /\ k < BlockSize * WordBits
  BY Layout
<1>2. PICK q \in Nat, r \in 0 .. WordBits - 1 : k = q * WordBits + r /\ k \div WordBits = q /\ k % WordBits = r
  BY <1>1, DivMod, Layout
<1>3. q < BlockSize
  <2>1. SUFFICES ASSUME q >= BlockSize PROVE FALSE
    BY <1>2, Layout
  <2>2. q * WordBits \in Nat /\ BlockSize * WordBits \in Nat /\ q * WordBits >= BlockSize * WordBits
    BY <2>1, Layout
  <2> HIDE <2>1
  <2>3. k >= q * WordBits
    BY <1>2, <2>2, Layout
  <2> DEFINE a == q * WordBits
             c == BlockSize * WordBits
  <2>4. a \in Nat /\ c \in Nat /\ a >= c /\ k >= a /\ k \in Nat /\ k < c
    BY <1>1, <2>2, <2>3
  <2> HIDE DEF a, c
  <2> QED BY <2>4
<1> QED BY <1>2, <1>3, Layout

\* The word and the place in it tell two bits apart.
LEMMA WordsApart ==
  ASSUME NEW k \in 0 .. Bits - 1, NEW j \in 0 .. Bits - 1,
         k \div WordBits = j \div WordBits, k % WordBits = j % WordBits
  PROVE  k = j
<1>1. k \in Nat /\ j \in Nat
  OBVIOUS
<1> QED BY <1>1, DivMod, Layout

\* The offsets in files of up to 1 + BlockSize blocks.
LEMMA FileCell ==
  ASSUME NEW o \in Nat
  PROVE  /\ o \div BlockSize \in Nat /\ o % BlockSize \in 0 .. BlockSize - 1
         /\ o = (o \div BlockSize) * BlockSize + (o % BlockSize)
         /\ o \in FileCells <=> o \div BlockSize <= BlockSize
<1>1. /\ o \div BlockSize \in Nat /\ o % BlockSize \in 0 .. BlockSize - 1
      /\ o = (o \div BlockSize) * BlockSize + (o % BlockSize)
  BY DivMod, Layout
<1> DEFINE q == o \div BlockSize
<1>2. CASE q <= BlockSize
  <2>1. q * BlockSize <= BlockSize * BlockSize
    BY <1>1, <1>2, Layout
  <2> QED BY <1>1, <1>2, <2>1, Layout DEF FileCells
<1>3. CASE q >= BlockSize + 1
  <2>1. q * BlockSize >= (BlockSize + 1) * BlockSize
    BY <1>1, <1>3, Layout
  <2> QED BY <1>1, <1>3, <2>1, Layout DEF FileCells
<1> QED BY <1>1, <1>2, <1>3, Layout

-----------------------------------------------------------------------------
(* Disks *)

Cells == 0 .. DiskSize - 1
Img   == [Cells -> Nat]

\* What is written is there, and the rest is as it was.
LEMMA OverlayIs ==
  ASSUME NEW x \in Img, NEW at \in Nat, NEW cells \in Seq(Nat)
  PROVE  /\ Overlay(x, at, cells) \in Img
         /\ \A a \in Cells : Overlay(x, at, cells)[a] =
              IF a \in at .. at + Len(cells) - 1 THEN cells[a - at + 1] ELSE x[a]
<1>1. DOMAIN x = Cells
  BY DEF Img
<1>2. Len(cells) \in Nat
  OBVIOUS
<1>3. ASSUME NEW a \in Cells, a \in at .. at + Len(cells) - 1 PROVE cells[a - at + 1] \in Nat
  <2>1. a - at + 1 \in 1 .. Len(cells)
    BY <1>2, <1>3
  <2> QED BY <2>1
<1> QED BY <1>1, <1>3 DEF Overlay, Img

\* The disk with v in cell "at".
CellPut(x, at, v) == Overlay(x, at, <<v>>)

\* The same of one cell.
LEMMA OverlayCell ==
  ASSUME NEW x \in Img, NEW at, NEW v, at \in Nat, v \in Nat
  PROVE  /\ CellPut(x, at, v) \in Img
         /\ \A a \in Cells : CellPut(x, at, v)[a] = IF a = at THEN v ELSE x[a]
<1>1. <<v>> \in Seq(Nat) /\ Len(<<v>>) = 1 /\ <<v>>[1] = v
  OBVIOUS
<1>2. /\ Overlay(x, at, <<v>>) \in Img
      /\ \A a \in Cells : Overlay(x, at, <<v>>)[a] =
           IF a \in at .. at + Len(<<v>>) - 1 THEN <<v>>[a - at + 1] ELSE x[a]
  BY <1>1, OverlayIs
<1>3. ASSUME NEW a \in Cells
      PROVE  Overlay(x, at, <<v>>)[a] = IF a = at THEN v ELSE x[a]
  <2>1. a \in at .. at + 1 - 1 <=> a = at
    BY Layout DEF Cells
  <2>2. a = at => a - at + 1 = 1
    OBVIOUS
  <2> QED BY <1>1, <1>2, <2>1, <2>2
<1> QED BY <1>2, <1>3 DEF CellPut

\* A bit of a bitmap is a bit of one of its words.
LEMMA BitIs ==
  ASSUME NEW x, NEW base, NEW k
  PROVE  BitIsSet(x, base, k) <=> Bit(x[base + k \div WordBits], k % WordBits) = 1
BY DEF BitIsSet, Bit

\* Two disks with the same bitmap have the same bits.
LEMMA SameBits ==
  ASSUME NEW x, NEW y, NEW base,
         \A j \in 0 .. BlockSize - 1 : y[base + j] = x[base + j],
         NEW k \in 0 .. Bits - 1
  PROVE  BitIsSet(y, base, k) <=> BitIsSet(x, base, k)
BY WordCell DEF BitIsSet

\* Bitmap::find sets one bit.
LEMMA BitSet ==
  ASSUME NEW x \in Img, NEW base \in {DataBitmapBase, InodeBitmapBase},
         NEW k \in 0 .. Bits - 1, ~BitIsSet(x, base, k),
         NEW y, y = CellPut(x, base + k \div WordBits,
                            x[base + k \div WordBits] + Power[k % WordBits])
  PROVE  /\ y \in Img
         /\ \A j \in 0 .. Bits - 1 : BitIsSet(y, base, j) <=> BitIsSet(x, base, j) \/ j = k
         /\ \A a \in Cells : a \notin base .. base + BlockSize - 1 => y[a] = x[a]
<1> DEFINE w == base + k \div WordBits
           r == k % WordBits
<1>1. k \div WordBits \in 0 .. BlockSize - 1 /\ r \in 0 .. WordBits - 1
  BY WordCell
<1>2. base \in Nat /\ \A j \in 0 .. BlockSize - 1 : base + j \in Cells
  BY Layout DEF Cells
<1>3. w \in base .. base + BlockSize - 1 /\ w \in Cells /\ w \in Nat
  BY <1>1, <1>2, Layout
<1>4. x[w] \in Nat /\ Power[r] \in Nat /\ x[w] + Power[r] \in Nat
  BY <1>1, <1>3, PowerStep, Layout DEF Img
<1>5. y \in Img /\ \A a \in Cells : y[a] = IF a = w THEN x[w] + Power[r] ELSE x[a]
  <2> DEFINE v == x[w] + Power[r]
  <2>1. v \in Nat /\ y = CellPut(x, w, v)
    BY <1>4
  <2> HIDE DEF v, w
  <2>2. /\ CellPut(x, w, v) \in Img
        /\ \A a \in Cells : CellPut(x, w, v)[a] = IF a = w THEN v ELSE x[a]
    BY <1>3, <2>1, OverlayCell
  <2>3. y \in Img /\ \A a \in Cells : y[a] = IF a = w THEN v ELSE x[a]
    BY <2>1, <2>2
  <2> QED BY <2>3 DEF v
<1>6. ASSUME NEW j \in 0 .. Bits - 1
      PROVE  BitIsSet(y, base, j) <=> BitIsSet(x, base, j) \/ j = k
  <2>1. j \div WordBits \in 0 .. BlockSize - 1 /\ j % WordBits \in 0 .. WordBits - 1
    BY WordCell
  <2>2. base + j \div WordBits \in Cells
    BY <1>2, <2>1
  <2>3. CASE j \div WordBits = k \div WordBits
    <3>1. y[base + j \div WordBits] = x[w] + Power[r]
      BY <1>5, <2>2, <2>3
    <3>2. Bit(x[w], r) # 1
      BY BitIs
    <3>3. Bit(x[w] + Power[r], j % WordBits) = IF j % WordBits = r THEN 1 ELSE Bit(x[w], j % WordBits)
      BY <1>1, <1>4, <2>1, <3>2, SetBit
    <3>4. j % WordBits = r <=> j = k
      BY <2>3, WordsApart
    <3> QED BY <2>3, <3>1, <3>3, <3>4, BitIs
  <2>4. CASE j \div WordBits # k \div WordBits
    <3>1. base + j \div WordBits # w
      BY <1>1, <1>2, <2>1, <2>4, Layout
    <3>2. y[base + j \div WordBits] = x[base + j \div WordBits] /\ j # k
      BY <1>5, <2>2, <2>4, <3>1
    <3> QED BY <3>2, BitIs
  <2> QED BY <2>3, <2>4
<1> QED BY <1>3, <1>5, <1>6

-----------------------------------------------------------------------------
(* Nodes and their blocks *)

Nodes(x)  == {i \in Inodes : BitIsSet(x, InodeBitmapBase, i)}
Marked(x) == {b \in Blocks : BitIsSet(x, DataBitmapBase, b - FirstBlock)}

\* The places a node keeps block numbers in: the indirect field, the direct field, and
\* the entries of the indirect block.
Slots == -1 .. BlockSize

Ref(x, i, s) == IF s = -1 THEN Field(x, i, Indirect) ELSE BlockOf(x, i, s)

SlotAt(x, i, s) ==
  IF s = -1 THEN FieldAt(i, Indirect)
  ELSE IF s = 0 THEN FieldAt(i, Direct)
  ELSE Field(x, i, Indirect) * BlockSize + (s - 1)

\* Every block that is referred to is marked, and referred to once.
Sound(x) ==
  /\ x \in Img
  /\ \A i \in Nodes(x), s \in Slots : Ref(x, i, s) \in Marked(x) \cup {0}
  /\ \A i, j \in Nodes(x), s, t \in Slots :
       Ref(x, i, s) # 0 /\ Ref(x, i, s) = Ref(x, j, t) => i = j /\ s = t

SameRefs(x, y, i) == \A s \in Slots : Ref(y, i, s) = Ref(x, i, s)
SameFields(x, y, i) == \A f \in {Type, Links, Size} : Field(y, i, f) = Field(x, i, f)
SameCells(x, y, i) == \A o \in FileCells : CellOf(y, i, o) = CellOf(x, i, o)
SameBlock(x, y, b) == \A p \in 0 .. BlockSize - 1 : y[b * BlockSize + p] = x[b * BlockSize + p]

SameNode(x, y, i) == SameFields(x, y, i) /\ SameCells(x, y, i)

Fields == {Type, Links, Size, Direct, Indirect}

\* A field of an inode is a cell of the inodes' blocks.
LEMMA FieldIs ==
  ASSUME NEW x \in Img, NEW i \in Inodes, NEW f \in Fields
  PROVE  /\ f \in 0 .. 4 /\ FieldAt(i, f) \in Cells /\ FieldAt(i, f) \in InodeBase .. DataBase - 1
         /\ Field(x, i, f) = x[FieldAt(i, f)] /\ Field(x, i, f) \in Nat
<1>1. f \in 0 .. 4
  BY DEF Fields, Type, Links, Size, Direct, Indirect
<1>2. FieldAt(i, f) \in InodeBase .. DataBase - 1
  BY <1>1, FieldCell
<1>3. FieldAt(i, f) \in Cells
  BY <1>2, Layout DEF Cells
<1> QED BY <1>1, <1>2, <1>3 DEF Field, Img

\* The cell of a block.
LEMMA BlockIs ==
  ASSUME NEW x \in Img, NEW b \in Blocks, NEW p \in 0 .. BlockSize - 1
  PROVE  /\ b * BlockSize + p \in Cells /\ x[b * BlockSize + p] \in Nat
         /\ b * BlockSize + p >= DataBase
<1>1. b * BlockSize + p \in DataBase .. DiskSize - 1
  BY BlockCell
<1>2. b * BlockSize + p \in Cells
  BY <1>1, Layout DEF Cells
<1> QED BY <1>1, <1>2 DEF Img

\* The slots of an inode: its two pointers, and the entries of its indirect block.
LEMMA SlotIs ==
  /\ -1 \in Slots /\ 0 \in Slots
  /\ \A s \in Slots : s \in Int /\ (s # -1 => s \in 0 .. BlockSize)
  /\ \A s \in Slots : s # -1 /\ s # 0 => s - 1 \in 0 .. BlockSize - 1
  /\ \A k \in 0 .. BlockSize - 1 : k + 1 \in Slots /\ k + 1 # 0 /\ k + 1 # -1 /\ (k + 1) - 1 = k
BY Layout DEF Slots

\* What is referred to is a block.
LEMMA SoundRef ==
  ASSUME NEW x, Sound(x), NEW i \in Nodes(x), NEW s \in Slots
  PROVE  /\ x \in Img /\ i \in Inodes
         /\ Ref(x, i, s) # 0 => Ref(x, i, s) \in Blocks /\ Ref(x, i, s) \in Marked(x)
         /\ Ref(x, i, s) \in Nat
         /\ \A j \in Nodes(x), t \in Slots :
              Ref(x, i, s) # 0 /\ Ref(x, i, s) = Ref(x, j, t) => i = j /\ s = t
<1>1. Ref(x, i, s) \in Marked(x) \cup {0}
  BY DEF Sound
<1>2. Marked(x) \subseteq Blocks /\ \A b \in Blocks : b \in Nat
  BY Layout, SlotIs DEF Marked, Blocks, FirstBlock
<1> QED BY <1>1, <1>2 DEF Sound, Nodes

\* What is referred to from each of them.
LEMMA RefIs ==
  ASSUME NEW x, NEW i, NEW s \in Slots
  PROVE  /\ s = -1 => Ref(x, i, s) = Field(x, i, Indirect)
         /\ s = 0 => Ref(x, i, s) = Field(x, i, Direct)
         /\ s # -1 /\ s # 0 =>
              Ref(x, i, s) = IF Ref(x, i, -1) = 0 THEN 0
                             ELSE x[Ref(x, i, -1) * BlockSize + (s - 1)]
<1>1. -1 # 0
  OBVIOUS
<1>2. Field(x, i, Indirect) * BlockSize + s - 1 = Field(x, i, Indirect) * BlockSize + (s - 1)
  BY Layout, SlotIs
<1> QED BY <1>1, <1>2 DEF Ref, BlockOf

\* A cell of a file is a cell of one of its blocks, or zero.
LEMMA CellIs ==
  ASSUME NEW x, NEW i, NEW o \in FileCells
  PROVE  /\ o \div BlockSize \in Slots /\ o \div BlockSize \in 0 .. BlockSize
         /\ o % BlockSize \in 0 .. BlockSize - 1
         /\ CellOf(x, i, o) = IF Ref(x, i, o \div BlockSize) = 0 THEN 0
                              ELSE x[Ref(x, i, o \div BlockSize) * BlockSize + (o % BlockSize)]
<1>1. o \in Nat
  BY DEF FileCells
<1>2. o \div BlockSize \in 0 .. BlockSize /\ o % BlockSize \in 0 .. BlockSize - 1
  BY <1>1, FileCell, Layout
<1>3. o \div BlockSize \in Slots /\ o \div BlockSize # -1
  BY <1>2, Layout DEF Slots
<1>4. Ref(x, i, o \div BlockSize) = BlockOf(x, i, o \div BlockSize)
  BY <1>3 DEF Ref
<1> QED BY <1>2, <1>3, <1>4 DEF CellOf

-----------------------------------------------------------------------------
(* What a write leaves alone *)

\* The same pointers and the same indirect block: the same blocks.
LEMMA RefFrame ==
  ASSUME NEW x, NEW y, NEW i,
         Field(y, i, Direct) = Field(x, i, Direct), Field(y, i, Indirect) = Field(x, i, Indirect),
         Ref(x, i, -1) # 0 => SameBlock(x, y, Ref(x, i, -1))
  PROVE  SameRefs(x, y, i)
<1> SUFFICES ASSUME NEW s \in Slots PROVE Ref(y, i, s) = Ref(x, i, s)
  BY DEF SameRefs
<1>1. CASE s = -1 \/ s = 0
  BY <1>1, RefIs
<1>2. CASE s # -1 /\ s # 0
  <2>1. Ref(y, i, -1) = Ref(x, i, -1)
    BY RefIs, SlotIs
  <2>2. s - 1 \in 0 .. BlockSize - 1
    BY <1>2, SlotIs
  <2>3. Ref(x, i, -1) # 0 =>
          y[Ref(x, i, -1) * BlockSize + (s - 1)] = x[Ref(x, i, -1) * BlockSize + (s - 1)]
    BY <2>2 DEF SameBlock
  <2> QED BY <1>2, <2>1, <2>3, RefIs
<1> QED BY <1>1, <1>2

\* The same blocks with the same cells: the same file.
LEMMA CellsFrame ==
  ASSUME NEW x, NEW y, NEW i, SameRefs(x, y, i),
         \A s \in 0 .. BlockSize : Ref(x, i, s) # 0 => SameBlock(x, y, Ref(x, i, s))
  PROVE  SameCells(x, y, i)
<1> SUFFICES ASSUME NEW o \in FileCells PROVE CellOf(y, i, o) = CellOf(x, i, o)
  BY DEF SameCells
<1> DEFINE s == o \div BlockSize
           p == o % BlockSize
<1>1. s \in Slots /\ s \in 0 .. BlockSize /\ p \in 0 .. BlockSize - 1
  BY CellIs
<1>2. Ref(y, i, s) = Ref(x, i, s)
  BY <1>1 DEF SameRefs
<1>3. Ref(x, i, s) # 0 => y[Ref(x, i, s) * BlockSize + p] = x[Ref(x, i, s) * BlockSize + p]
  BY <1>1 DEF SameBlock
<1>4. CellOf(x, i, o) = IF Ref(x, i, s) = 0 THEN 0 ELSE x[Ref(x, i, s) * BlockSize + p]
  BY CellIs
<1>5. CellOf(y, i, o) = IF Ref(y, i, s) = 0 THEN 0 ELSE y[Ref(y, i, s) * BlockSize + p]
  BY CellIs
<1> QED BY <1>2, <1>3, <1>4, <1>5

\* A node whose fields and blocks are left alone is the same.
LEMMA NodeFrame ==
  ASSUME NEW x, NEW y, NEW i,
         \A f \in Fields : Field(y, i, f) = Field(x, i, f),
         \A s \in Slots : Ref(x, i, s) # 0 => SameBlock(x, y, Ref(x, i, s))
  PROVE  SameRefs(x, y, i) /\ SameNode(x, y, i)
<1>1. SameRefs(x, y, i)
  BY RefFrame, SlotIs DEF Fields
<1>2. SameCells(x, y, i)
  BY <1>1, CellsFrame, Layout DEF Slots
<1> QED BY <1>1, <1>2 DEF SameNode, SameFields, Fields

\* The same nodes with the same blocks, that are still marked.
LEMMA SoundFrame ==
  ASSUME NEW x, NEW y, Sound(x), y \in Img, Nodes(y) = Nodes(x), Marked(x) \subseteq Marked(y),
         \A i \in Nodes(x) : SameRefs(x, y, i)
  PROVE  Sound(y)
<1>1. ASSUME NEW i \in Nodes(y), NEW s \in Slots
      PROVE  Ref(y, i, s) = Ref(x, i, s) /\ Ref(y, i, s) \in Marked(y) \cup {0}
  BY <1>1 DEF Sound, SameRefs
<1>2. ASSUME NEW i \in Nodes(y), NEW j \in Nodes(y), NEW s \in Slots, NEW t \in Slots,
             Ref(y, i, s) # 0, Ref(y, i, s) = Ref(y, j, t)
      PROVE  i = j /\ s = t
  BY <1>1, <1>2 DEF Sound
<1> QED BY <1>1, <1>2 DEF Sound

\* A disk that differs from x only inside A: outside of the bitmaps, or elsewhere.
SameOutside(x, y, A) == \A a \in Cells : a \notin A => y[a] = x[a]

\* A write outside the bitmaps neither makes nor frees anything.
LEMMA BitmapsFrame ==
  ASSUME NEW x \in Img, NEW y \in Img, NEW A, SameOutside(x, y, A),
         \A a \in BlockSize .. 3 * BlockSize - 1 : a \notin A
  PROVE  Nodes(y) = Nodes(x) /\ Marked(y) = Marked(x)
<1>1. \A j \in 0 .. BlockSize - 1 :
        /\ BlockSize + j \in BlockSize .. 3 * BlockSize - 1 /\ BlockSize + j \in Cells
        /\ 2 * BlockSize + j \in BlockSize .. 3 * BlockSize - 1 /\ 2 * BlockSize + j \in Cells
  BY Layout DEF Cells
<1>2. \A j \in 0 .. BlockSize - 1 : y[DataBitmapBase + j] = x[DataBitmapBase + j]
  BY <1>1, Layout DEF SameOutside
<1>3. \A j \in 0 .. BlockSize - 1 : y[InodeBitmapBase + j] = x[InodeBitmapBase + j]
  BY <1>1, Layout DEF SameOutside
<1>4. \A k \in 0 .. Bits - 1 : BitIsSet(y, DataBitmapBase, k) <=> BitIsSet(x, DataBitmapBase, k)
  BY <1>2, SameBits
<1>5. \A k \in 0 .. Bits - 1 : BitIsSet(y, InodeBitmapBase, k) <=> BitIsSet(x, InodeBitmapBase, k)
  BY <1>3, SameBits
<1>6. \A b \in Blocks : b - FirstBlock \in 0 .. Bits - 1
  BY Layout DEF Blocks, FirstBlock
<1> QED BY <1>4, <1>5, <1>6 DEF Nodes, Marked, Inodes

\* A write outside a field leaves it.
LEMMA FieldFrame ==
  ASSUME NEW x \in Img, NEW y \in Img, NEW A, SameOutside(x, y, A), NEW i \in Inodes, NEW f \in Fields,
         FieldAt(i, f) \notin A
  PROVE  Field(y, i, f) = Field(x, i, f)
BY FieldIs DEF SameOutside

\* A write outside a block leaves it.
LEMMA BlockFrame ==
  ASSUME NEW x \in Img, NEW y \in Img, NEW A, SameOutside(x, y, A), NEW b \in Blocks,
         \A p \in 0 .. BlockSize - 1 : b * BlockSize + p \notin A
  PROVE  SameBlock(x, y, b)
BY BlockIs DEF SameOutside, SameBlock

SameHead(x, y) == \A a \in 0 .. BlockSize - 1 : y[a] = x[a]

\* A step that the nodes do not see.
Quiet(x, y) ==
  /\ Sound(y) /\ Nodes(y) = Nodes(x)
  /\ \A i \in Nodes(x) : SameNode(x, y, i)
  /\ SameHead(x, y)

\* Two quiet steps are one.
LEMMA QuietTrans ==
  ASSUME NEW x, NEW y, NEW z, Quiet(x, y), Quiet(y, z)
  PROVE  Quiet(x, z)
<1>1. \A i \in Nodes(x) : SameFields(x, z, i)
  BY DEF Quiet, SameNode, SameFields
<1>2. \A i \in Nodes(x) : SameCells(x, z, i)
  BY DEF Quiet, SameNode, SameCells
<1> QED BY <1>1, <1>2 DEF Quiet, SameNode, SameHead

\* No step is quiet.
LEMMA QuietRefl ==
  ASSUME NEW x, Sound(x)
  PROVE  Quiet(x, x)
BY DEF Quiet, SameNode, SameFields, SameCells, SameHead

-----------------------------------------------------------------------------
(* What the writes do *)

BlockCells(b) == b * BlockSize .. b * BlockSize + BlockSize - 1

Unused(x, b) == \A i \in Nodes(x), s \in Slots : Ref(x, i, s) # b

\* Blocks do not overlap.
LEMMA InBlock ==
  ASSUME NEW b \in Nat, NEW c \in Nat, NEW p \in 0 .. BlockSize - 1
  PROVE  b * BlockSize + p \in BlockCells(c) <=> b = c
<1>1. CASE b = c
  <2>1. b * BlockSize \in Nat
    BY Layout
  <2> DEFINE m == b * BlockSize
  <2> HIDE DEF m
  <2>2. m + p \in m .. m + BlockSize - 1
    BY <2>1, Layout DEF m
  <2> QED BY <1>1, <2>2 DEF BlockCells, m
<1>2. ASSUME b * BlockSize + p \in BlockCells(c) PROVE b = c
  <2>1. c * BlockSize \in Nat /\ b * BlockSize \in Nat
    BY Layout
  <2> DEFINE m == c * BlockSize
             n == b * BlockSize
  <2>2. n + p \in m .. m + BlockSize - 1
    BY <1>2 DEF BlockCells
  <2> HIDE DEF m, n
  <2>3. PICK q \in 0 .. BlockSize - 1 : n + p = m + q
    <3>1. n + p - m \in 0 .. BlockSize - 1 /\ n + p = m + (n + p - m)
      BY <2>1, <2>2, Layout DEF m, n
    <3> QED BY <3>1
  <2> QED BY <2>3, BlocksApart DEF m, n
<1> QED BY <1>1, <1>2

\* A write that stays inside one data block.
LEMMA OnlyBlock ==
  ASSUME NEW x, Sound(x), NEW b \in Blocks, NEW y \in Img, SameOutside(x, y, BlockCells(b))
  PROVE  /\ Nodes(y) = Nodes(x) /\ Marked(y) = Marked(x) /\ SameHead(x, y)
         /\ \A i \in Inodes, f \in Fields : Field(y, i, f) = Field(x, i, f)
         /\ \A c \in Blocks : c # b => SameBlock(x, y, c)
<1>1. x \in Img
  BY DEF Sound
<1>2. b \in Nat /\ b * BlockSize + 0 >= DataBase
  BY BlockCell, Layout DEF Blocks
<1>3. \A a \in BlockCells(b) : a >= DataBase
  <2> DEFINE m == b * BlockSize
  <2>1. m \in Nat /\ m >= DataBase
    BY <1>2, Layout
  <2> HIDE DEF m
  <2>2. \A a \in m .. m + BlockSize - 1 : a >= DataBase
    BY <2>1, Layout
  <2> QED BY <2>2 DEF m, BlockCells
<1>4. \A a \in BlockSize .. 3 * BlockSize - 1 : a \notin BlockCells(b)
  BY <1>3, Layout
<1>5. Nodes(y) = Nodes(x) /\ Marked(y) = Marked(x)
  BY <1>1, <1>4, BitmapsFrame
<1>6. SameHead(x, y)
  <2>1. \A a \in 0 .. BlockSize - 1 : a \in Cells /\ a \notin BlockCells(b)
    BY <1>3, Layout DEF Cells
  <2> QED BY <2>1 DEF SameOutside, SameHead
<1>7. \A i \in Inodes, f \in Fields : Field(y, i, f) = Field(x, i, f)
  <2>1. \A i \in Inodes, f \in Fields : FieldAt(i, f) \notin BlockCells(b)
    BY <1>1, <1>3, FieldIs, Layout
  <2> QED BY <1>1, <2>1, FieldFrame
<1>8. ASSUME NEW c \in Blocks, c # b PROVE SameBlock(x, y, c)
  <2>1. c \in Nat
    BY BlockCell, Layout
  <2>2. \A p \in 0 .. BlockSize - 1 : c * BlockSize + p \notin BlockCells(b)
    BY <1>2, <1>8, <2>1, InBlock
  <2> QED BY <1>1, <2>2, BlockFrame
<1> QED BY <1>5, <1>6, <1>7, <1>8

\* Nobody sees what is written into a block that is not referred to.
LEMMA UnusedStep ==
  ASSUME NEW x, Sound(x), NEW b \in Blocks, Unused(x, b),
         NEW y \in Img, SameOutside(x, y, BlockCells(b))
  PROVE  /\ Quiet(x, y) /\ Marked(y) = Marked(x)
         /\ \A i \in Nodes(x) : SameRefs(x, y, i)
         /\ Unused(y, b)
<1>1. /\ Nodes(y) = Nodes(x) /\ Marked(y) = Marked(x) /\ SameHead(x, y)
      /\ \A i \in Inodes, f \in Fields : Field(y, i, f) = Field(x, i, f)
      /\ \A c \in Blocks : c # b => SameBlock(x, y, c)
  BY OnlyBlock
<1>2. ASSUME NEW i \in Nodes(x)
      PROVE  SameRefs(x, y, i) /\ SameNode(x, y, i)
  <2>1. \A s \in Slots : Ref(x, i, s) # 0 => SameBlock(x, y, Ref(x, i, s))
    BY <1>1, SoundRef DEF Unused
  <2>2. i \in Inodes
    BY DEF Nodes
  <2> QED BY <1>1, <2>1, <2>2, NodeFrame
<1>3. Sound(y)
  BY <1>1, <1>2, SoundFrame
<1>4. Unused(y, b)
  BY <1>1, <1>2 DEF Unused, SameRefs
<1> QED BY <1>1, <1>2, <1>3, <1>4 DEF Quiet

\* A block is marked in the bitmap.
LEMMA MarkStep ==
  ASSUME NEW x, Sound(x), NEW k \in 0 .. Bits - 1, ~BitIsSet(x, DataBitmapBase, k),
         NEW y, y = CellPut(x, DataBitmapBase + k \div WordBits,
                            x[DataBitmapBase + k \div WordBits] + Power[k % WordBits])
  PROVE  /\ Quiet(x, y) /\ Marked(y) = Marked(x) \cup {FirstBlock + k}
         /\ \A i \in Nodes(x) : SameRefs(x, y, i)
         /\ FirstBlock + k \in Blocks /\ Unused(y, FirstBlock + k)
         /\ SameOutside(x, y, DataBitmapBase .. DataBitmapBase + BlockSize - 1)
<1> DEFINE b == FirstBlock + k
           A == DataBitmapBase .. DataBitmapBase + BlockSize - 1
<1>0. x \in Img /\ DataBitmapBase \in {DataBitmapBase, InodeBitmapBase}
  BY DEF Sound
<1>1. /\ y \in Img
      /\ \A j \in 0 .. Bits - 1 : BitIsSet(y, DataBitmapBase, j) <=> BitIsSet(x, DataBitmapBase, j) \/ j = k
      /\ \A a \in Cells : a \notin A => y[a] = x[a]
  BY <1>0, BitSet
<1>2. SameOutside(x, y, A)
  BY <1>1 DEF SameOutside
<1>3. b \in Blocks /\ \A c \in Blocks : c - FirstBlock \in 0 .. Bits - 1
  BY Layout DEF Blocks, FirstBlock
<1>4. \A c \in Blocks : c - FirstBlock = k <=> c = b
  BY Layout DEF Blocks, FirstBlock
<1>5. Marked(y) = Marked(x) \cup {b}
  BY <1>1, <1>3, <1>4 DEF Marked
<1>6. b \notin Marked(x)
  BY <1>3, <1>4 DEF Marked
<1>7. Nodes(y) = Nodes(x)
  <2>1. \A j \in 0 .. BlockSize - 1 : InodeBitmapBase + j \in Cells /\ InodeBitmapBase + j \notin A
    BY Layout DEF Cells
  <2>2. \A j \in 0 .. BlockSize - 1 : y[InodeBitmapBase + j] = x[InodeBitmapBase + j]
    BY <1>1, <2>1
  <2> QED BY <2>2, SameBits DEF Nodes, Inodes
<1>8. SameHead(x, y)
  <2>1. \A a \in 0 .. BlockSize - 1 : a \in Cells /\ a \notin A
    BY Layout DEF Cells
  <2> QED BY <1>1, <2>1 DEF SameHead
<1>9. \A i \in Inodes, f \in Fields : Field(y, i, f) = Field(x, i, f)
  <2>1. \A i \in Inodes, f \in Fields : FieldAt(i, f) \notin A
    BY <1>0, FieldIs, Layout
  <2> QED BY <1>0, <1>1, <1>2, <2>1, FieldFrame
<1>10. \A c \in Blocks : SameBlock(x, y, c)
  <2>1. \A c \in Blocks, p \in 0 .. BlockSize - 1 : c * BlockSize + p \notin A
    BY <1>0, BlockIs, Layout
  <2> QED BY <1>0, <1>1, <1>2, <2>1, BlockFrame
<1>11. ASSUME NEW i \in Nodes(x)
       PROVE  SameRefs(x, y, i) /\ SameNode(x, y, i)
  <2>1. \A s \in Slots : Ref(x, i, s) # 0 => SameBlock(x, y, Ref(x, i, s))
    BY <1>10, SoundRef
  <2>2. i \in Inodes
    BY DEF Nodes
  <2> QED BY <1>9, <2>1, <2>2, NodeFrame
<1>12. Sound(y)
  BY <1>1, <1>5, <1>7, <1>11, SoundFrame
<1>13. Unused(y, b)
  <2>1. \A i \in Nodes(x), s \in Slots : Ref(x, i, s) # b
    BY <1>3, <1>6, SoundRef, BlockCell, Layout
  <2> QED BY <1>7, <1>11, <2>1 DEF Unused, SameRefs
<1> QED BY <1>2, <1>3, <1>5, <1>7, <1>8, <1>11, <1>12, <1>13 DEF Quiet

\* A write into block 0, which no node refers to.
LEMMA HeadStep ==
  ASSUME NEW x, Sound(x), NEW y \in Img, SameOutside(x, y, 0 .. BlockSize - 1)
  PROVE  /\ Sound(y) /\ Nodes(y) = Nodes(x) /\ Marked(y) = Marked(x)
         /\ \A i \in Nodes(x) : SameNode(x, y, i) /\ SameRefs(x, y, i)
<1> DEFINE A == 0 .. BlockSize - 1
<1>0. x \in Img
  BY DEF Sound
<1>1. Nodes(y) = Nodes(x) /\ Marked(y) = Marked(x)
  <2>1. \A a \in BlockSize .. 3 * BlockSize - 1 : a \notin A
    BY Layout
  <2> QED BY <1>0, <2>1, BitmapsFrame
<1>2. \A i \in Inodes, f \in Fields : Field(y, i, f) = Field(x, i, f)
  <2>1. \A i \in Inodes, f \in Fields : FieldAt(i, f) \notin A
    BY <1>0, FieldIs, Layout
  <2> QED BY <1>0, <2>1, FieldFrame
<1>3. \A c \in Blocks : SameBlock(x, y, c)
  <2>1. \A c \in Blocks, p \in 0 .. BlockSize - 1 : c * BlockSize + p \notin A
    BY <1>0, BlockIs, Layout
  <2> QED BY <1>0, <2>1, BlockFrame
<1>4. ASSUME NEW i \in Nodes(x)
      PROVE  SameRefs(x, y, i) /\ SameNode(x, y, i)
  <2>1. \A s \in Slots : Ref(x, i, s) # 0 => SameBlock(x, y, Ref(x, i, s))
    BY <1>3, SoundRef
  <2>2. i \in Inodes
    BY DEF Nodes
  <2> QED BY <1>2, <2>1, <2>2, NodeFrame
<1>5. Sound(y)
  BY <1>1, <1>4, SoundFrame
<1> QED BY <1>1, <1>4, <1>5

\* A write to one field of a node.
LEMMA OnlyField ==
  ASSUME NEW x, Sound(x), NEW i \in Inodes, NEW g \in Fields, NEW v, v \in Nat,
         NEW y, y = CellPut(x, FieldAt(i, g), v)
  PROVE  /\ y \in Img /\ Nodes(y) = Nodes(x) /\ Marked(y) = Marked(x) /\ SameHead(x, y)
         /\ Field(y, i, g) = v
         /\ \A j \in Inodes, f \in Fields : ~(j = i /\ f = g) => Field(y, j, f) = Field(x, j, f)
         /\ \A c \in Blocks : SameBlock(x, y, c)
         /\ \A a \in Cells : a # FieldAt(i, g) => y[a] = x[a]
<1> DEFINE A == {FieldAt(i, g)}
<1>0. x \in Img
  BY DEF Sound
<1>1. /\ g \in 0 .. 4 /\ FieldAt(i, g) \in Cells /\ FieldAt(i, g) \in InodeBase .. DataBase - 1
      /\ FieldAt(i, g) \in Nat
  BY <1>0, FieldIs, Layout
<1>2. y \in Img /\ \A a \in Cells : y[a] = IF a = FieldAt(i, g) THEN v ELSE x[a]
  BY <1>0, <1>1, OverlayCell
<1>3. SameOutside(x, y, A)
  BY <1>2 DEF SameOutside
<1>4. Nodes(y) = Nodes(x) /\ Marked(y) = Marked(x)
  <2>1. \A a \in BlockSize .. 3 * BlockSize - 1 : a \notin A
    BY <1>1, Layout
  <2> QED BY <1>0, <1>2, <1>3, <2>1, BitmapsFrame
<1>5. SameHead(x, y)
  <2>1. \A a \in 0 .. BlockSize - 1 : a \in Cells /\ a \notin A
    BY <1>1, Layout DEF Cells
  <2> QED BY <1>3, <2>1 DEF SameOutside, SameHead
<1>6. Field(y, i, g) = v
  BY <1>1, <1>2 DEF Field
<1>7. ASSUME NEW j \in Inodes, NEW f \in Fields, ~(j = i /\ f = g)
      PROVE  Field(y, j, f) = Field(x, j, f)
  <2>1. f \in 0 .. 4 /\ FieldAt(j, f) \notin A
    BY <1>0, <1>1, <1>7, FieldIs, FieldCell
  <2> QED BY <1>0, <1>2, <1>3, <2>1, FieldFrame
<1>8. \A c \in Blocks : SameBlock(x, y, c)
  <2>1. \A c \in Blocks, p \in 0 .. BlockSize - 1 : c * BlockSize + p \notin A
    BY <1>0, <1>1, BlockIs, Layout
  <2> QED BY <1>0, <1>2, <1>3, <2>1, BlockFrame
<1> QED BY <1>2, <1>3, <1>4, <1>5, <1>6, <1>7, <1>8

\* The size or the links of a node change, and nothing else does.
LEMMA FieldStep ==
  ASSUME NEW x, Sound(x), NEW i \in Nodes(x), NEW g, g = Links \/ g = Size, NEW v, v \in Nat,
         NEW y, y = CellPut(x, FieldAt(i, g), v)
  PROVE  /\ Sound(y) /\ Nodes(y) = Nodes(x) /\ Marked(y) = Marked(x) /\ SameHead(x, y)
         /\ \A j \in Nodes(x) : SameRefs(x, y, j) /\ SameCells(x, y, j)
         /\ \A j \in Nodes(x) : j # i => SameNode(x, y, j)
         /\ Field(y, i, g) = v
         /\ \A f \in Fields : f # g => Field(y, i, f) = Field(x, i, f)
<1>0. i \in Inodes /\ g \in Fields /\ g # Direct /\ g # Indirect /\ v \in Nat
  BY DEF Nodes, Fields, Direct, Indirect, Links, Size
<1>1. /\ y \in Img /\ Nodes(y) = Nodes(x) /\ Marked(y) = Marked(x) /\ SameHead(x, y)
      /\ Field(y, i, g) = v
      /\ \A j \in Inodes, f \in Fields : ~(j = i /\ f = g) => Field(y, j, f) = Field(x, j, f)
      /\ \A c \in Blocks : SameBlock(x, y, c)
  BY <1>0, OnlyField
<1>2. ASSUME NEW j \in Nodes(x)
      PROVE  SameRefs(x, y, j) /\ SameCells(x, y, j)
  <2>1. j \in Inodes /\ Direct \in Fields /\ Indirect \in Fields
    BY DEF Nodes, Fields
  <2>2. Field(y, j, Direct) = Field(x, j, Direct) /\ Field(y, j, Indirect) = Field(x, j, Indirect)
    BY <1>0, <1>1, <2>1
  <2>3. \A s \in Slots : Ref(x, j, s) # 0 => SameBlock(x, y, Ref(x, j, s))
    BY <1>1, SoundRef
  <2>4. SameRefs(x, y, j)
    BY <2>2, <2>3, RefFrame, SlotIs
  <2>5. SameCells(x, y, j)
    BY <2>3, <2>4, CellsFrame, Layout DEF Slots
  <2> QED BY <2>4, <2>5
<1>3. ASSUME NEW j \in Nodes(x), j # i
      PROVE  SameNode(x, y, j)
  BY <1>1, <1>2, <1>3 DEF SameNode, SameFields, Nodes, Fields
<1>4. Sound(y)
  BY <1>1, <1>2, SoundFrame
<1>5. \A f \in Fields : f # g => Field(y, i, f) = Field(x, i, f)
  BY <1>0, <1>1
<1> QED BY <1>1, <1>2, <1>3, <1>4, <1>5

\* Node i has the cells at offset "at".
CellsPut(x, y, i, at, cells) ==
  \A o \in FileCells :
    CellOf(y, i, o) = IF o \in at .. at + Len(cells) - 1 THEN cells[o - at + 1] ELSE CellOf(x, i, o)

\* Cells are written into a block of node i that holds data.
LEMMA DataStep ==
  ASSUME NEW x, Sound(x), NEW i \in Nodes(x), NEW k, k \in 0 .. BlockSize, Ref(x, i, k) # 0,
         NEW p, p \in 0 .. BlockSize - 1, NEW cells \in Seq(Nat), p + Len(cells) <= BlockSize,
         NEW y, y = Overlay(x, Ref(x, i, k) * BlockSize + p, cells)
  PROVE  /\ Sound(y) /\ Nodes(y) = Nodes(x) /\ Marked(y) = Marked(x) /\ SameHead(x, y)
         /\ \A j \in Nodes(x) : SameRefs(x, y, j)
         /\ \A j \in Nodes(x) : j # i => SameNode(x, y, j)
         /\ SameFields(x, y, i)
         /\ CellsPut(x, y, i, k * BlockSize + p, cells)
<1> DEFINE b == Ref(x, i, k)
           n == Len(cells)
<1>0. /\ k \in Slots /\ k # -1 /\ b \in Blocks /\ b \in Nat /\ x \in Img /\ i \in Inodes
      /\ n \in Nat
  BY SoundRef, Layout DEF Slots
<1>1. b * BlockSize + p \in Nat /\ \A q \in 0 .. BlockSize - 1 : b * BlockSize + q \in Cells
  BY <1>0, BlockIs, Layout DEF Cells
<1>2. /\ y \in Img
      /\ \A a \in Cells : y[a] =
           IF a \in b * BlockSize + p .. b * BlockSize + p + n - 1
           THEN cells[a - (b * BlockSize + p) + 1] ELSE x[a]
  BY <1>0, <1>1, OverlayIs, ZenonT(30)
<1>3. SameOutside(x, y, BlockCells(b))
  <2> SUFFICES ASSUME NEW a \in Cells, a \notin BlockCells(b) PROVE y[a] = x[a]
    BY DEF SameOutside
  <2> DEFINE m == b * BlockSize
  <2>1. m \in Nat /\ a \in Int
    BY <1>0, Layout DEF Cells
  <2>2. a \notin m .. m + BlockSize - 1
    BY DEF BlockCells
  <2>3. y[a] = IF a \in m + p .. m + p + n - 1 THEN cells[a - (m + p) + 1] ELSE x[a]
    BY <1>2
  <2> HIDE DEF m
  <2>4. a \notin m + p .. m + p + n - 1
    BY <1>0, <2>1, <2>2, Layout
  <2> QED BY <2>3, <2>4
<1>4. /\ Nodes(y) = Nodes(x) /\ Marked(y) = Marked(x) /\ SameHead(x, y)
      /\ \A j \in Inodes, f \in Fields : Field(y, j, f) = Field(x, j, f)
      /\ \A c \in Blocks : c # b => SameBlock(x, y, c)
  BY <1>0, <1>2, <1>3, OnlyBlock
<1>5. ASSUME NEW j \in Nodes(x), j # i
      PROVE  SameRefs(x, y, j) /\ SameNode(x, y, j)
  <2>1. \A s \in Slots : Ref(x, j, s) # 0 => SameBlock(x, y, Ref(x, j, s))
    BY <1>0, <1>4, <1>5, SoundRef
  <2>2. j \in Inodes
    BY DEF Nodes
  <2> QED BY <1>4, <2>1, <2>2, NodeFrame
<1>6. SameRefs(x, y, i)
  <2>1. Ref(x, i, -1) # 0 => SameBlock(x, y, Ref(x, i, -1))
    BY <1>0, <1>4, SoundRef, SlotIs
  <2> QED BY <1>0, <1>4, <2>1, RefFrame DEF Fields
<1>7. SameFields(x, y, i)
  BY <1>0, <1>4 DEF SameFields, Fields
<1>8. ASSUME NEW o \in FileCells
      PROVE  CellOf(y, i, o) = IF o \in k * BlockSize + p .. k * BlockSize + p + n - 1
                               THEN cells[o - (k * BlockSize + p) + 1] ELSE CellOf(x, i, o)
  <2> DEFINE s == o \div BlockSize
             q == o % BlockSize
  <2>1. /\ s \in Slots /\ s \in 0 .. BlockSize /\ q \in 0 .. BlockSize - 1
        /\ CellOf(x, i, o) = IF Ref(x, i, s) = 0 THEN 0 ELSE x[Ref(x, i, s) * BlockSize + q]
        /\ CellOf(y, i, o) = IF Ref(y, i, s) = 0 THEN 0 ELSE y[Ref(y, i, s) * BlockSize + q]
    BY CellIs
  <2>2. Ref(y, i, s) = Ref(x, i, s)
    BY <1>6, <2>1 DEF SameRefs
  <2>3. o = s * BlockSize + q /\ o \in Nat
    BY FileCell DEF FileCells
  <2> HIDE DEF s, q
  <2>4. CASE s = k
    <3> DEFINE m == b * BlockSize
               l == k * BlockSize
    <3>1. m \in Nat /\ l \in Nat /\ o = l + q
      BY <1>0, <2>3, <2>4, Layout
    <3>2. CellOf(y, i, o) = y[m + q] /\ CellOf(x, i, o) = x[m + q] /\ m + q \in Cells
      BY <1>1, <2>1, <2>2, <2>4
    <3> DEFINE a == m + q
    <3>3. y[a] = IF a \in m + p .. m + p + n - 1 THEN cells[a - (m + p) + 1] ELSE x[a]
      <4> HIDE DEF a
      <4> QED BY <1>2, <3>2 DEF a
    <3> HIDE DEF m, l
    <3>4. m + q \in m + p .. m + p + n - 1 <=> o \in l + p .. l + p + n - 1
      BY <1>0, <2>1, <3>1, Layout
    <3>5. m + q - (m + p) + 1 = o - (l + p) + 1
      BY <2>1, <3>1, Layout
    <3>6. cells[a - (m + p) + 1] = cells[o - (l + p) + 1]
      BY <2>1, <3>1, <3>5
    <3>7. y[a] = IF o \in l + p .. l + p + n - 1 THEN cells[o - (l + p) + 1] ELSE x[a]
      BY <3>3, <3>4, <3>6
    <3> QED BY <3>2, <3>7 DEF l
  <2>5. CASE s # k
    <3>1. o \notin k * BlockSize + p .. k * BlockSize + p + n - 1
      <4>1. SUFFICES ASSUME o \in k * BlockSize + p .. k * BlockSize + p + n - 1 PROVE FALSE
        OBVIOUS
      <4> DEFINE l == k * BlockSize
      <4>2. l \in Nat /\ o \in l + p .. l + p + n - 1
        BY <4>1, Layout
      <4> HIDE DEF l
      <4>3. o - l \in 0 .. BlockSize - 1 /\ o = l + (o - l)
        BY <1>0, <2>3, <4>2, Layout
      <4>4. s * BlockSize + q = k * BlockSize + (o - l)
        BY <2>3, <4>3 DEF l
      <4>5. s \in Nat /\ k \in Nat
        BY <2>1, Layout
      <4> DEFINE r == o - l
      <4>6. r \in 0 .. BlockSize - 1 /\ s * BlockSize + q = k * BlockSize + r
        BY <4>3, <4>4
      <4> HIDE DEF r
      <4>7. s = k
        BY <2>1, <4>5, <4>6, BlocksApart
      <4> QED BY <2>5, <4>7
    <3>2. CellOf(y, i, o) = CellOf(x, i, o)
      <4>1. CASE Ref(x, i, s) = 0
        BY <2>1, <2>2, <4>1
      <4>2. CASE Ref(x, i, s) # 0
        <5>1. Ref(x, i, s) \in Blocks /\ Ref(x, i, s) # b
          BY <1>0, <2>1, <2>5, <4>2, SoundRef
        <5>2. y[Ref(x, i, s) * BlockSize + q] = x[Ref(x, i, s) * BlockSize + q]
          BY <1>4, <2>1, <5>1 DEF SameBlock
        <5> QED BY <2>1, <2>2, <5>2
      <4> QED BY <4>1, <4>2
    <3> QED BY <3>1, <3>2
  <2> QED BY <2>4, <2>5
<1>9. Sound(y)
  BY <1>2, <1>4, <1>5, <1>6, SoundFrame
<1> QED BY <1>4, <1>5, <1>6, <1>7, <1>8, <1>9 DEF CellsPut

Zeroed(x, b) == \A p \in 0 .. BlockSize - 1 : x[b * BlockSize + p] = 0

\* Node i may get block b in slot s.
MayStore(x, i, s, b) ==
  /\ Sound(x) /\ i \in Nodes(x) /\ s \in Slots /\ Ref(x, i, s) = 0
  /\ s > 0 => Ref(x, i, -1) # 0
  /\ b \in Marked(x) /\ Unused(x, b) /\ Zeroed(x, b)

\* y is x with block b in slot s of node i.
HasStored(x, y, i, s, b) ==
  /\ y \in Img /\ Nodes(y) = Nodes(x) /\ Marked(y) = Marked(x) /\ SameHead(x, y)
  /\ \A j \in Nodes(x) : j # i => SameRefs(x, y, j) /\ SameNode(x, y, j)
  /\ SameFields(x, y, i)
  /\ \A t \in Slots : Ref(y, i, t) = IF t = s THEN b ELSE Ref(x, i, t)
  /\ \A t \in 0 .. BlockSize : Ref(x, i, t) # 0 => SameBlock(x, y, Ref(x, i, t))
  /\ SameBlock(x, y, b)

\* A block's number in one of the two pointers of an inode.
LEMMA StoreInField ==
  ASSUME NEW x, NEW i, NEW s, NEW b, MayStore(x, i, s, b), s = -1 \/ s = 0,
         NEW y, y = CellPut(x, SlotAt(x, i, s), b)
  PROVE  HasStored(x, y, i, s, b)
<1> DEFINE g == IF s = -1 THEN Indirect ELSE Direct
<1>0. /\ Sound(x) /\ i \in Nodes(x) /\ i \in Inodes /\ b \in Blocks /\ b \in Nat
      /\ b \in Marked(x) /\ s \in Slots /\ Ref(x, i, s) = 0 /\ Zeroed(x, b)
  BY BlockCell, Layout DEF MayStore, Nodes, Marked
<1>1. g \in Fields /\ SlotAt(x, i, s) = FieldAt(i, g)
  BY DEF Fields, SlotAt
<1>2. Direct # Indirect /\ \A f \in {Type, Links, Size} : f \in Fields /\ f # Direct /\ f # Indirect
  BY DEF Direct, Indirect, Type, Links, Size, Fields
<1>3. g = IF s = -1 THEN Indirect ELSE Direct
  OBVIOUS
<1> HIDE DEF g
<1>4. y = CellPut(x, FieldAt(i, g), b)
  BY <1>1
<1>5. /\ y \in Img /\ Nodes(y) = Nodes(x) /\ Marked(y) = Marked(x) /\ SameHead(x, y)
      /\ Field(y, i, g) = b
      /\ \A j \in Inodes, f \in Fields : ~(j = i /\ f = g) => Field(y, j, f) = Field(x, j, f)
      /\ \A c \in Blocks : SameBlock(x, y, c)
  BY <1>0, <1>1, <1>4, OnlyField
<1>6. ASSUME NEW j \in Nodes(x), j # i
      PROVE  SameRefs(x, y, j) /\ SameNode(x, y, j)
  <2>1. \A t \in Slots : Ref(x, j, t) # 0 => SameBlock(x, y, Ref(x, j, t))
    BY <1>0, <1>5, SoundRef
  <2>2. \A f \in Fields : Field(y, j, f) = Field(x, j, f)
    BY <1>5, <1>6 DEF Nodes
  <2> QED BY <2>1, <2>2, NodeFrame
<1>7. SameFields(x, y, i)
  BY <1>0, <1>2, <1>3, <1>5 DEF SameFields
<1>8. ASSUME NEW t \in Slots
      PROVE  Ref(y, i, t) = IF t = s THEN b ELSE Ref(x, i, t)
  <2>1. CASE t = -1 \/ t = 0
    <3>1. Field(y, i, Direct) = IF s = 0 THEN b ELSE Field(x, i, Direct)
      BY <1>0, <1>2, <1>3, <1>5 DEF Fields
    <3>2. Field(y, i, Indirect) = IF s = -1 THEN b ELSE Field(x, i, Indirect)
      BY <1>0, <1>2, <1>3, <1>5 DEF Fields
    <3> QED BY <2>1, <3>1, <3>2, RefIs
  <2>2. CASE t # -1 /\ t # 0
    <3>1. t - 1 \in 0 .. BlockSize - 1 /\ -1 \in Slots
      BY <2>2, SlotIs
    <3>2. CASE s = -1
      <4>1. Ref(x, i, t) = 0
        BY <1>0, <2>2, <3>2, RefIs
      <4>2. Ref(y, i, -1) = b
        BY <1>3, <1>5, <3>1, <3>2, RefIs
      <4>3. y[b * BlockSize + (t - 1)] = 0
        BY <1>0, <1>5, <3>1 DEF Zeroed, SameBlock
      <4>4. b # 0
        BY <1>0, BlockCell, Layout
      <4> QED BY <2>2, <3>2, <4>1, <4>2, <4>3, <4>4, RefIs
    <3>3. CASE s = 0
      <4>1. Ref(y, i, -1) = Ref(x, i, -1)
        BY <1>0, <1>2, <1>3, <1>5, <3>1, <3>3, RefIs DEF Fields
      <4>2. Ref(x, i, -1) # 0 =>
              y[Ref(x, i, -1) * BlockSize + (t - 1)] = x[Ref(x, i, -1) * BlockSize + (t - 1)]
        BY <1>0, <1>5, <3>1, SoundRef DEF SameBlock
      <4> QED BY <2>2, <3>3, <4>1, <4>2, RefIs
    <3> QED BY <3>2, <3>3
  <2> QED BY <2>1, <2>2
<1>9. \A t \in 0 .. BlockSize : Ref(x, i, t) # 0 => SameBlock(x, y, Ref(x, i, t))
  BY <1>0, <1>5, SoundRef, Layout DEF Slots
<1> QED BY <1>0, <1>5, <1>6, <1>7, <1>8, <1>9 DEF HasStored

\* A block's number in the indirect block.
LEMMA StoreInBlock ==
  ASSUME NEW x, NEW i, NEW s, NEW b, MayStore(x, i, s, b), s # -1, s # 0,
         NEW y, y = CellPut(x, SlotAt(x, i, s), b)
  PROVE  HasStored(x, y, i, s, b)
<1> DEFINE c == Ref(x, i, -1)
           p == s - 1
           at == c * BlockSize + p
<1>0. /\ Sound(x) /\ x \in Img /\ i \in Nodes(x) /\ i \in Inodes /\ b \in Blocks /\ b \in Nat
      /\ s \in Slots /\ -1 \in Slots /\ Ref(x, i, s) = 0 /\ Zeroed(x, b) /\ Unused(x, b)
  BY BlockCell, Layout, SlotIs DEF MayStore, Nodes, Marked, Sound
<1>1. p \in 0 .. BlockSize - 1 /\ s > 0 /\ p = s - 1
  BY <1>0, SlotIs, Layout
<1>2. c # 0 /\ c \in Blocks /\ c # b /\ c \in Nat
  BY <1>0, <1>1, SoundRef DEF MayStore, Unused
<1>3. at \in Cells /\ at \in Nat /\ at \in BlockCells(c)
  <2> HIDE DEF c, p
  <2>1. at \in Cells
    BY <1>0, <1>1, <1>2, BlockIs
  <2>2. at \in BlockCells(c)
    BY <1>1, <1>2, InBlock
  <2> QED BY <2>1, <2>2, Layout DEF Cells
<1>4. y = CellPut(x, at, b)
  BY <1>0, RefIs DEF SlotAt
<1>5. y \in Img /\ \A a \in Cells : y[a] = IF a = at THEN b ELSE x[a]
  <2> HIDE DEF at
  <2> QED BY <1>0, <1>3, <1>4, OverlayCell
<1>6. SameOutside(x, y, BlockCells(c))
  BY <1>3, <1>5 DEF SameOutside
<1>7. /\ Nodes(y) = Nodes(x) /\ Marked(y) = Marked(x) /\ SameHead(x, y)
      /\ \A j \in Inodes, f \in Fields : Field(y, j, f) = Field(x, j, f)
      /\ \A d \in Blocks : d # c => SameBlock(x, y, d)
  BY <1>0, <1>2, <1>5, <1>6, OnlyBlock
<1>8. ASSUME NEW j \in Nodes(x), j # i
      PROVE  SameRefs(x, y, j) /\ SameNode(x, y, j)
  <2>1. \A t \in Slots : Ref(x, j, t) # 0 => SameBlock(x, y, Ref(x, j, t))
    BY <1>0, <1>2, <1>7, <1>8, SoundRef
  <2>2. \A f \in Fields : Field(y, j, f) = Field(x, j, f)
    BY <1>7 DEF Nodes
  <2> QED BY <2>1, <2>2, NodeFrame
<1>9. SameFields(x, y, i)
  BY <1>0, <1>7 DEF SameFields, Fields
<1>10. ASSUME NEW t \in Slots
       PROVE  Ref(y, i, t) = IF t = s THEN b ELSE Ref(x, i, t)
  <2>0. Ref(y, i, -1) = c /\ Field(y, i, Direct) = Field(x, i, Direct)
    BY <1>0, <1>7, RefIs DEF Fields
  <2>1. CASE t = -1 \/ t = 0
    BY <1>1, <2>0, <2>1, RefIs, Layout
  <2>2. CASE t # -1 /\ t # 0
    <3>1. t - 1 \in 0 .. BlockSize - 1
      BY <2>2, SlotIs
    <3> DEFINE q == t - 1
               r == c * BlockSize + q
    <3>2. q \in 0 .. BlockSize - 1 /\ r \in Cells
      BY <1>0, <1>2, <3>1, BlockIs
    <3>3. r = at => q = p
      <4> HIDE DEF c, q, p
      <4> QED BY <1>1, <1>2, <3>2, BlocksApart
    <3>4. q = p <=> t = s
      BY <1>0, SlotIs
    <3>5. y[r] = IF t = s THEN b ELSE x[r]
      <4>1. r = at <=> t = s
        BY <3>3, <3>4
      <4> HIDE DEF r, at
      <4> QED BY <1>5, <3>2, <4>1
    <3>6. Ref(y, i, t) = y[r] /\ Ref(x, i, t) = x[r]
      BY <1>2, <2>0, <2>2, RefIs
    <3> QED BY <3>5, <3>6
  <2> QED BY <2>1, <2>2
<1>11. \A t \in 0 .. BlockSize : Ref(x, i, t) # 0 => SameBlock(x, y, Ref(x, i, t))
  <2>1. \A t \in 0 .. BlockSize : t \in Slots /\ t # -1
    BY Layout DEF Slots
  <2> QED BY <1>0, <1>2, <1>7, <2>1, SoundRef
<1> QED BY <1>0, <1>2, <1>5, <1>7, <1>8, <1>9, <1>10, <1>11 DEF HasStored

\* A block that is marked, empty and not referred to is stored in an empty slot: the
\* node reads as before.
LEMMA StoreStep ==
  ASSUME NEW x, NEW i, NEW s, NEW b, MayStore(x, i, s, b),
         NEW y, y = CellPut(x, SlotAt(x, i, s), b)
  PROVE  Quiet(x, y) /\ Marked(y) = Marked(x) /\ Ref(y, i, s) = b
<1>0. /\ Sound(x) /\ i \in Nodes(x) /\ b \in Blocks /\ b # 0 /\ b \in Marked(x) /\ s \in Slots
      /\ Ref(x, i, s) = 0 /\ Zeroed(x, b) /\ Unused(x, b)
  BY BlockCell, Layout DEF MayStore, Marked
<1>1. HasStored(x, y, i, s, b)
  <2>1. CASE s = -1 \/ s = 0
    BY <2>1, StoreInField
  <2>2. CASE s # -1 /\ s # 0
    BY <2>2, StoreInBlock
  <2> QED BY <2>1, <2>2
<1>2. ASSUME NEW o \in FileCells
      PROVE  CellOf(y, i, o) = CellOf(x, i, o)
  <2> DEFINE t == o \div BlockSize
             q == o % BlockSize
  <2>1. /\ t \in Slots /\ t \in 0 .. BlockSize /\ q \in 0 .. BlockSize - 1
        /\ CellOf(x, i, o) = IF Ref(x, i, t) = 0 THEN 0 ELSE x[Ref(x, i, t) * BlockSize + q]
        /\ CellOf(y, i, o) = IF Ref(y, i, t) = 0 THEN 0 ELSE y[Ref(y, i, t) * BlockSize + q]
    BY CellIs
  <2> HIDE DEF t, q
  <2>2. CASE t = s
    <3>1. y[b * BlockSize + q] = 0
      BY <1>0, <1>1, <2>1 DEF HasStored, SameBlock, Zeroed
    <3>2. Ref(y, i, t) = b
      BY <1>1, <2>1, <2>2 DEF HasStored
    <3> QED BY <1>0, <2>1, <2>2, <3>1, <3>2
  <2>3. CASE t # s
    <3>1. Ref(y, i, t) = Ref(x, i, t)
      BY <1>1, <2>1, <2>3 DEF HasStored
    <3>2. Ref(x, i, t) # 0 => y[Ref(x, i, t) * BlockSize + q] = x[Ref(x, i, t) * BlockSize + q]
      BY <1>1, <2>1 DEF HasStored, SameBlock
    <3> QED BY <2>1, <3>1, <3>2
  <2> QED BY <2>2, <2>3
<1>3. \A j \in Nodes(x) : SameNode(x, y, j)
  BY <1>1, <1>2 DEF HasStored, SameNode, SameCells
<1>4. ASSUME NEW j \in Nodes(x), NEW t \in Slots
      PROVE  Ref(y, j, t) = IF j = i /\ t = s THEN b ELSE Ref(x, j, t)
  BY <1>1 DEF HasStored, SameRefs
<1>5. \A j \in Nodes(x), t \in Slots : Ref(y, j, t) \in Marked(x) \cup {0}
  BY <1>0, <1>4 DEF Sound
<1>6. ASSUME NEW j \in Nodes(x), NEW k \in Nodes(x), NEW t \in Slots, NEW u \in Slots,
             Ref(y, j, t) # 0, Ref(y, j, t) = Ref(y, k, u)
      PROVE  j = k /\ t = u
  <2>1. Ref(x, j, t) # b /\ Ref(x, k, u) # b
    BY <1>0 DEF Unused
  <2>2. Ref(x, j, t) # 0 /\ Ref(x, j, t) = Ref(x, k, u) => j = k /\ t = u
    BY <1>0 DEF Sound
  <2> QED BY <1>4, <1>6, <2>1, <2>2
<1>7. Sound(y)
  BY <1>1, <1>5, <1>6 DEF Sound, HasStored
<1>8. Ref(y, i, s) = b
  BY <1>0, <1>4
<1> QED BY <1>1, <1>3, <1>7, <1>8 DEF Quiet, HasStored

-----------------------------------------------------------------------------
(* The sector writes of a call *)

\* The first k cells of a write are in the file.
Wrote(x, q, k) ==
  \A j \in 1 .. k : /\ q.off + j - 1 \in FileCells
                    /\ CellOf(x, q.file, q.off + j - 1) = q.data[j]

\* A part of the data of a write reaches the file; the size goes up over what did.
PutStep(u, v, q) ==
  /\ SameFields(u, v, q.file)
  /\ \E a \in 1 .. Len(q.data) : \E b \in a .. Len(q.data) : \A o \in FileCells :
       CellOf(v, q.file, o) = IF o + 1 - q.off \in a .. b THEN q.data[o + 1 - q.off]
                              ELSE CellOf(u, q.file, o)

ExtendStep(u, v, q) ==
  /\ SameCells(u, v, q.file)
  /\ \E k \in 1 .. Len(q.data) :
       /\ Wrote(u, q, k)
       /\ q.off + k > Field(u, q.file, Size) /\ Field(v, q.file, Size) = q.off + k

\* What a sector write of call q may do, when the files of R have been refused a block.
StepOK(u, v, q, R) ==
  /\ Sound(v) /\ Nodes(v) = Nodes(u)
  /\ \A i \in Nodes(u) : /\ Field(v, i, Type) = Field(u, i, Type)
                         /\ Field(v, i, Links) = Field(u, i, Links)
  /\ \A i \in Nodes(u) : i # q.file => SameNode(u, v, i)
  /\ q.file \notin R =>
       /\ SameHead(u, v)
       /\ SameNode(u, v, q.file) \/ PutStep(u, v, q) \/ ExtendStep(u, v, q)

Write == [at : Nat, cells : Seq(Nat)]

\* The sector writes of the log, one after the other, lead from x to y.
Leads(x, log, y, q, R) ==
  \E h : /\ h[0] = x /\ h[Len(log)] = y
         /\ \A n \in 0 .. Len(log) : h[n] \in Img
         /\ \A n \in 1 .. Len(log) : /\ h[n] = Overlay(h[n - 1], log[n].at, log[n].cells)
                                     /\ StepOK(h[n - 1], h[n], q, R)

\* A call may take any quiet step.
LEMMA QuietOK ==
  ASSUME NEW u, NEW v, Quiet(u, v), NEW q, q.file \in Nodes(u), NEW R
  PROVE  StepOK(u, v, q, R)
BY DEF StepOK, Quiet, SameNode, SameFields

\* No writes lead nowhere.
LEMMA LeadsEmpty ==
  ASSUME NEW x \in Img, NEW q, NEW R
  PROVE  Leads(x, <<>>, x, q, R)
<1> DEFINE h == [n \in {0} |-> x]
<1>1. /\ h[0] = x /\ h[Len(<<>>)] = x
      /\ \A n \in 0 .. Len(<<>>) : h[n] \in Img
      /\ 1 .. Len(<<>>) = {}
  OBVIOUS
<1> QED BY <1>1 DEF Leads

\* A call may be refused more.
LEMMA LeadsMore ==
  ASSUME NEW x, NEW log, NEW y, NEW q, NEW R, NEW S, Leads(x, log, y, q, R), R \subseteq S
  PROVE  Leads(x, log, y, q, S)
<1>1. \A u, v : StepOK(u, v, q, R) => StepOK(u, v, q, S)
  BY DEF StepOK
<1> QED BY <1>1 DEF Leads

\* Two runs one after the other.
LEMMA LeadsOn ==
  ASSUME NEW x, NEW y, NEW z, NEW l1 \in Seq(Write), NEW l2 \in Seq(Write), NEW q, NEW R,
         Leads(x, l1, y, q, R), Leads(y, l2, z, q, R)
  PROVE  Leads(x, l1 \o l2, z, q, R)
<1> DEFINE m == Len(l1)
           n == Len(l2)
<1>1. m \in Nat /\ n \in Nat /\ Len(l1 \o l2) = m + n
  OBVIOUS
<1>2. /\ \A k \in 1 .. m : (l1 \o l2)[k] = l1[k]
      /\ \A k \in m + 1 .. m + n : (l1 \o l2)[k] = l2[k - m]
  OBVIOUS
<1>3. PICK f : /\ f[0] = x /\ f[m] = y
               /\ \A k \in 0 .. m : f[k] \in Img
               /\ \A k \in 1 .. m : /\ f[k] = Overlay(f[k - 1], l1[k].at, l1[k].cells)
                                    /\ StepOK(f[k - 1], f[k], q, R)
  BY DEF Leads
<1>4. PICK g : /\ g[0] = y /\ g[n] = z
               /\ \A k \in 0 .. n : g[k] \in Img
               /\ \A k \in 1 .. n : /\ g[k] = Overlay(g[k - 1], l2[k].at, l2[k].cells)
                                    /\ StepOK(g[k - 1], g[k], q, R)
  BY DEF Leads
<1> DEFINE h == [k \in 0 .. m + n |-> IF k <= m THEN f[k] ELSE g[k - m]]
<1> HIDE DEF m, n
<1>5. /\ \A k \in 0 .. m : h[k] = f[k]
      /\ \A k \in m .. m + n : h[k] = g[k - m]
  <2>1. \A k \in 0 .. m : h[k] = f[k]
    BY <1>1
  <2>2. ASSUME NEW k \in m .. m + n PROVE h[k] = g[k - m]
    <3>1. CASE k = m
      BY <1>1, <1>3, <1>4, <3>1
    <3>2. CASE k # m
      BY <1>1, <3>2
    <3> QED BY <3>1, <3>2
  <2> QED BY <2>1, <2>2
<1> HIDE DEF h
<1>6. h[0] = x /\ h[m + n] = z
  <2>1. 0 \in 0 .. m /\ m + n \in m .. m + n /\ (m + n) - m = n
    BY <1>1
  <2>2. h[m + n] = g[(m + n) - m]
    BY <1>5, <2>1
  <2> QED BY <1>3, <1>4, <1>5, <2>1, <2>2
<1>7. ASSUME NEW k \in 0 .. m + n PROVE h[k] \in Img
  <2>1. CASE k <= m
    <3>1. k \in 0 .. m
      BY <1>1, <2>1
    <3> QED BY <1>3, <1>5, <3>1
  <2>2. CASE k > m
    <3>1. k \in m .. m + n /\ k - m \in 0 .. n
      BY <1>1, <2>2
    <3> QED BY <1>4, <1>5, <3>1
  <2> QED BY <1>1, <2>1, <2>2
<1>8. ASSUME NEW k \in 1 .. m + n
      PROVE  /\ h[k] = Overlay(h[k - 1], (l1 \o l2)[k].at, (l1 \o l2)[k].cells)
             /\ StepOK(h[k - 1], h[k], q, R)
  <2>1. CASE k <= m
    <3>1. k \in 1 .. m /\ k \in 0 .. m /\ k - 1 \in 0 .. m
      BY <1>1, <2>1
    <3> QED BY <1>2, <1>3, <1>5, <3>1
  <2>2. CASE k > m
    <3>1. /\ k \in m .. m + n /\ k - 1 \in m .. m + n /\ k - m \in 1 .. n
          /\ k \in m + 1 .. m + n /\ k - 1 - m = k - m - 1
      BY <1>1, <2>2
    <3>2. h[k] = g[k - m] /\ h[k - 1] = g[k - m - 1] /\ (l1 \o l2)[k] = l2[k - m]
      BY <1>2, <1>5, <3>1
    <3> QED BY <1>4, <3>1, <3>2
  <2> QED BY <1>1, <2>1, <2>2
<1> QED BY <1>1, <1>6, <1>7, <1>8 DEF Leads

\* One more write.
LEMMA LeadsTo ==
  ASSUME NEW x, NEW log \in Seq(Write), NEW y, NEW q, NEW R, Leads(x, log, y, q, R), y \in Img,
         NEW w \in Write, NEW z \in Img, z = Overlay(y, w.at, w.cells), StepOK(y, z, q, R)
  PROVE  Leads(x, Append(log, w), z, q, R)
<1>1. Leads(y, <<w>>, z, q, R)
  <2> DEFINE h == [n \in {0, 1} |-> IF n = 0 THEN y ELSE z]
  <2>1. h[0] = y /\ h[1] = z /\ Len(<<w>>) = 1 /\ <<w>>[1] = w
    OBVIOUS
  <2>2. \A n \in 0 .. Len(<<w>>) : n = 0 \/ n = 1
    BY <2>1
  <2>3. \A n \in 1 .. Len(<<w>>) : n = 1 /\ n - 1 = 0
    BY <2>1
  <2> HIDE DEF h
  <2>4. /\ \A n \in 0 .. Len(<<w>>) : h[n] \in Img
        /\ \A n \in 1 .. Len(<<w>>) : /\ h[n] = Overlay(h[n - 1], <<w>>[n].at, <<w>>[n].cells)
                                      /\ StepOK(h[n - 1], h[n], q, R)
    BY <2>1, <2>2, <2>3
  <2> QED BY <2>1, <2>4 DEF Leads
<1>2. <<w>> \in Seq(Write) /\ Append(log, w) = log \o <<w>>
  OBVIOUS
<1> QED BY <1>1, <1>2, LeadsOn

\* The first write of the rest.
LEMMA LeadsFirst ==
  ASSUME NEW x, NEW log \in Seq(Write), log # <<>>, NEW y, NEW q, NEW R, Leads(x, log, y, q, R),
         NEW z, z = Overlay(x, Head(log).at, Head(log).cells)
  PROVE  StepOK(x, z, q, R) /\ z \in Img /\ Leads(z, Tail(log), y, q, R)
<1> DEFINE n == Len(log)
           t == Tail(log)
<1>1. n \in Nat /\ n > 0 /\ Head(log) = log[1] /\ Len(t) = n - 1
  OBVIOUS
<1>2. \A k \in 1 .. n - 1 : t[k] = log[k + 1]
  OBVIOUS
<1>3. PICK h : /\ h[0] = x /\ h[n] = y
               /\ \A k \in 0 .. n : h[k] \in Img
               /\ \A k \in 1 .. n : /\ h[k] = Overlay(h[k - 1], log[k].at, log[k].cells)
                                    /\ StepOK(h[k - 1], h[k], q, R)
  BY DEF Leads
<1> HIDE DEF n, t
<1>4. 1 \in 1 .. n /\ 1 - 1 = 0 /\ 1 \in 0 .. n
  BY <1>1
<1>5. z = h[1] /\ StepOK(x, z, q, R) /\ z \in Img
  <2>1. h[1] = Overlay(h[1 - 1], log[1].at, log[1].cells) /\ StepOK(h[1 - 1], h[1], q, R)
    BY <1>3, <1>4
  <2> QED BY <1>1, <1>3, <1>4, <2>1
<1> DEFINE g == [k \in 0 .. n - 1 |-> h[k + 1]]
<1>6. g[0] = z /\ g[n - 1] = y
  BY <1>1, <1>3, <1>5
<1>7. \A k \in 0 .. n - 1 : g[k] \in Img
  BY <1>1, <1>3
<1>8. ASSUME NEW k \in 1 .. n - 1
      PROVE  g[k] = Overlay(g[k - 1], t[k].at, t[k].cells) /\ StepOK(g[k - 1], g[k], q, R)
  <2>1. k + 1 \in 1 .. n /\ (k + 1) - 1 = k /\ g[k] = h[k + 1] /\ g[k - 1] = h[k]
    BY <1>1
  <2>2. h[k + 1] = Overlay(h[(k + 1) - 1], log[k + 1].at, log[k + 1].cells)
        /\ StepOK(h[(k + 1) - 1], h[k + 1], q, R)
    BY <1>3, <2>1
  <2> QED BY <1>2, <2>1, <2>2
<1> HIDE DEF g
<1>9. Leads(z, t, y, q, R)
  BY <1>1, <1>6, <1>7, <1>8 DEF Leads
<1> QED BY <1>5, <1>9 DEF t

-----------------------------------------------------------------------------
(* The kernel's operations *)

Disks == [img : Img, log : Seq(Write), refused : SUBSET Int]

\* What is on the disk is what the nodes held at the beginning of the call, x.
Calm(x, D, q) ==
  /\ D \in Disks /\ Quiet(x, D.img) /\ q.file \in Nodes(x)
  /\ Leads(x, D.log, D.img, q, D.refused)

\* A sector write is done at once to the image of the call, and is the next of its writes.
LEMMA DeviceWriteIs ==
  ASSUME NEW D \in Disks, NEW at \in Nat, NEW cells \in Seq(Nat)
  PROVE  /\ DeviceWrite(D, at, cells) \in Disks
         /\ DeviceWrite(D, at, cells).img = Overlay(D.img, at, cells)
         /\ DeviceWrite(D, at, cells).log = Append(D.log, [at |-> at, cells |-> cells])
         /\ DeviceWrite(D, at, cells).refused = D.refused
         /\ [at |-> at, cells |-> cells] \in Write
<1>1. D.img \in Img /\ D.log \in Seq(Write)
  BY DEF Disks
<1>2. Overlay(D.img, at, cells) \in Img
  BY <1>1, OverlayIs
<1>3. [at |-> at, cells |-> cells] \in Write
  BY DEF Write
<1>4. Append(D.log, [at |-> at, cells |-> cells]) \in Seq(Write)
  BY <1>1, <1>3
<1> QED BY <1>2, <1>3, <1>4 DEF DeviceWrite, Disks

\* The same of a write of one cell.
LEMMA WriteCellIs ==
  ASSUME NEW D \in Disks, NEW at, at \in Nat, NEW v, v \in Nat
  PROVE  /\ WriteCell(D, at, v) \in Disks
         /\ WriteCell(D, at, v).img = CellPut(D.img, at, v)
         /\ WriteCell(D, at, v).refused = D.refused
         /\ \E w \in Write : /\ WriteCell(D, at, v).log = Append(D.log, w)
                             /\ CellPut(D.img, at, v) = Overlay(D.img, w.at, w.cells)
<1>1. <<v>> \in Seq(Nat)
  OBVIOUS
<1> DEFINE w == [at |-> at, cells |-> <<v>>]
<1>2. /\ WriteCell(D, at, v) \in Disks
      /\ WriteCell(D, at, v).img = Overlay(D.img, at, <<v>>)
      /\ WriteCell(D, at, v).log = Append(D.log, w)
      /\ WriteCell(D, at, v).refused = D.refused
      /\ w \in Write
  BY <1>1, DeviceWriteIs DEF WriteCell
<1>3. w.at = at /\ w.cells = <<v>>
  OBVIOUS
<1> HIDE DEF w
<1> QED BY <1>2, <1>3 DEF CellPut

\* A quiet write of one cell.
LEMMA CalmWrite ==
  ASSUME NEW x, NEW D, NEW q, Calm(x, D, q), NEW at, at \in Nat, NEW v, v \in Nat,
         Quiet(D.img, CellPut(D.img, at, v))
  PROVE  /\ Calm(x, WriteCell(D, at, v), q)
         /\ WriteCell(D, at, v).img = CellPut(D.img, at, v)
         /\ WriteCell(D, at, v).refused = D.refused
<1> DEFINE E == WriteCell(D, at, v)
<1>1. D \in Disks /\ D.img \in Img /\ D.log \in Seq(Write)
  BY DEF Calm, Disks
<1>2. /\ E \in Disks /\ E.img = CellPut(D.img, at, v) /\ E.refused = D.refused
      /\ \E w \in Write : /\ E.log = Append(D.log, w)
                          /\ CellPut(D.img, at, v) = Overlay(D.img, w.at, w.cells)
  BY <1>1, WriteCellIs
<1> HIDE DEF E
<1>3. Quiet(x, E.img)
  BY <1>2, QuietTrans DEF Calm
<1>4. q.file \in Nodes(D.img)
  BY DEF Calm, Quiet
<1>5. StepOK(D.img, E.img, q, D.refused)
  BY <1>2, <1>4, QuietOK
<1>6. PICK w \in Write : E.log = Append(D.log, w) /\ E.img = Overlay(D.img, w.at, w.cells)
  BY <1>2
<1>7. Leads(x, E.log, E.img, q, E.refused)
  <2>1. E.img \in Img /\ Leads(x, D.log, D.img, q, D.refused)
    BY <1>2 DEF Calm, Disks
  <2> QED BY <1>1, <1>2, <1>5, <1>6, <2>1, LeadsTo
<1>8. Calm(x, E, q)
  BY <1>2, <1>3, <1>7 DEF Calm
<1> QED BY <1>2, <1>8 DEF E

\* Zeros are zeros.
LEMMA ZerosIs ==
  ASSUME NEW n \in Nat
  PROVE  Zeros(n) \in Seq(Nat) /\ Len(Zeros(n)) = n /\ \A i \in 1 .. n : Zeros(n)[i] = 0
BY DEF Zeros

\* The image with zeros in the n cells at "at".
LEMMA OverlayZeros ==
  ASSUME NEW x \in Img, NEW at \in Nat, NEW n \in Nat
  PROVE  /\ Overlay(x, at, Zeros(n)) \in Img
         /\ \A a \in Cells : Overlay(x, at, Zeros(n))[a] = IF a \in at .. at + n - 1 THEN 0 ELSE x[a]
<1>1. Zeros(n) \in Seq(Nat) /\ Len(Zeros(n)) = n /\ \A i \in 1 .. n : Zeros(n)[i] = 0
  BY ZerosIs
<1> DEFINE z == Zeros(n)
<1> HIDE DEF z
<1>2. /\ Overlay(x, at, z) \in Img
      /\ \A a \in Cells : Overlay(x, at, z)[a] = IF a \in at .. at + Len(z) - 1 THEN z[a - at + 1] ELSE x[a]
  BY <1>1, OverlayIs DEF z
<1>3. \A a \in at .. at + n - 1 : z[a - at + 1] = 0
  <2>1. \A a \in at .. at + n - 1 : a - at + 1 \in 1 .. n
    OBVIOUS
  <2> QED BY <1>1, <2>1 DEF z
<1>4. Len(z) = n
  BY <1>1 DEF z
<1> QED BY <1>2, <1>3, <1>4 DEF z

\* A block is cut into whole sectors.
LEMMA SectorsOfBlock ==
  /\ SectorSize \in Nat /\ SectorSize > 0
  /\ BlockSize \div SectorSize \in Nat
  /\ BlockSize = (BlockSize \div SectorSize) * SectorSize
<1>1. SectorSize \in Nat /\ SectorSize > 0 /\ BlockSize \in Nat /\ BlockSize % SectorSize = 0
  BY BobFSAssumption
<1> QED BY <1>1, DivMod

\* A block that is not referred to is filled with zeros, sector by sector.
LEMMA ClearStep ==
  ASSUME NEW x, NEW D, NEW q, Calm(x, D, q), NEW b \in Blocks, Unused(D.img, b)
  PROVE  /\ Calm(x, ClearBlock(D, b), q)
         /\ ClearBlock(D, b).refused = D.refused
         /\ Zeroed(ClearBlock(D, b).img, b) /\ Unused(ClearBlock(D, b).img, b)
         /\ Marked(ClearBlock(D, b).img) = Marked(D.img)
         /\ \A i \in Nodes(x) : SameRefs(D.img, ClearBlock(D, b).img, i)
<1> DEFINE y == D.img
           n == BlockSize \div SectorSize
           s == SectorSize
           at == b * BlockSize
           log == [j \in 1 .. n |-> [at |-> at + (j - 1) * s, cells |-> Zeros(s)]]
           z == Overlay(y, at, Zeros(BlockSize))
           E == ClearBlock(D, b)
<1>0. /\ y \in Img /\ D \in Disks /\ D.log \in Seq(Write) /\ Sound(y) /\ Nodes(y) = Nodes(x)
      /\ Quiet(x, y) /\ q.file \in Nodes(x) /\ Leads(x, D.log, y, q, D.refused)
  BY DEF Calm, Disks, Quiet
<1>1. n \in Nat /\ s \in Nat /\ s > 0 /\ BlockSize = n * s /\ BlockSize \in Nat
  BY SectorsOfBlock, Layout
<1>2. b \in Nat /\ at \in Nat
  BY BlockCell, Layout
<1>3. E.img = z /\ E.log = D.log \o log /\ E.refused = D.refused
  BY <1>0 DEF ClearBlock, Disks
<1>3a. E = [D EXCEPT !.img = z, !.log = @ \o log]
  BY DEF ClearBlock
<1> HIDE DEF y, n, s, at, E
<1>4. \A j \in 0 .. n : j * s \in Nat /\ j * s <= BlockSize
  <2> SUFFICES ASSUME NEW j \in 0 .. n PROVE j * s \in Nat /\ j * s <= n * s
    BY <1>1
  <2> QED BY <1>1
<1>5. log \in Seq(Write) /\ Len(log) = n
  <2>1. \A j \in 1 .. n : (j - 1) * s \in Nat
    BY <1>1, <1>4
  <2> DEFINE w(j) == [at |-> at + (j - 1) * s, cells |-> Zeros(s)]
  <2>2. \A j \in 1 .. n : w(j) \in Write
    BY <1>1, <1>2, <2>1, ZerosIs DEF Write
  <2>3. log = [j \in 1 .. n |-> w(j)]
    OBVIOUS
  <2> HIDE DEF w, log
  <2> QED BY <1>1, <2>2, <2>3
<1>6. z \in Img /\ \A a \in Cells : z[a] = IF a \in at .. at + BlockSize - 1 THEN 0 ELSE y[a]
  BY <1>0, <1>1, <1>2, OverlayZeros
<1> DEFINE h == [j \in 0 .. n |-> [a \in Cells |-> IF a \in at .. at + j * s - 1 THEN 0 ELSE y[a]]]
<1>7. ASSUME NEW u \in Img,
             \A a \in Cells : u[a] = y[a] \/ (a \in at .. at + BlockSize - 1)
      PROVE  /\ Quiet(y, u) /\ Marked(u) = Marked(y) /\ Unused(u, b)
             /\ \A i \in Nodes(y) : SameRefs(y, u, i)
  <2>1. SameOutside(y, u, BlockCells(b))
    BY <1>7 DEF SameOutside, BlockCells, at
  <2>2. Unused(y, b)
    BY DEF y
  <2> QED BY <1>0, <2>1, <2>2, UnusedStep
<1>8. ASSUME NEW j \in 0 .. n
      PROVE  h[j] \in Img /\ Quiet(y, h[j])
  <2>1. h[j] \in Img
    BY <1>0 DEF Img
  <2>2. \A a \in Cells : h[j][a] = y[a] \/ a \in at .. at + BlockSize - 1
    <3> SUFFICES ASSUME NEW a \in Cells, a \in at .. at + j * s - 1 PROVE a \in at .. at + BlockSize - 1
      OBVIOUS
    <3> DEFINE m == j * s
    <3>1. m \in Nat /\ m <= BlockSize /\ a \in at .. at + m - 1
      BY <1>4
    <3> HIDE DEF m
    <3> QED BY <1>1, <1>2, <3>1
  <2> HIDE DEF h
  <2> QED BY <1>7, <2>1, <2>2
<1>9. Leads(y, log, z, q, D.refused)
  <2>1. h[0] = y
    <3>1. \A a \in Cells : a \notin at .. at + 0 * s - 1
      BY <1>1, <1>2 DEF Cells
    <3>2. DOMAIN y = Cells
      BY <1>0 DEF Img
    <3>3. h[0] = [a \in Cells |-> y[a]]
      BY <1>1, <3>1
    <3> QED BY <1>0, <3>2, <3>3 DEF Img
  <2>2. h[n] = z
    <3>1. h[n] = [a \in Cells |-> IF a \in at .. at + BlockSize - 1 THEN 0 ELSE y[a]]
      BY <1>1
    <3> QED BY <1>6, <3>1 DEF Img
  <2>3. ASSUME NEW j \in 1 .. n
        PROVE  /\ h[j] = Overlay(h[j - 1], log[j].at, log[j].cells)
               /\ StepOK(h[j - 1], h[j], q, D.refused)
    <3>1. j - 1 \in 0 .. n /\ j \in 0 .. n
      BY <1>1
    <3> DEFINE m == (j - 1) * s
               u == h[j - 1]
               v == Overlay(u, at + m, Zeros(s))
    <3>2. m \in Nat /\ j * s = m + s
      BY <1>1, <1>4, <3>1
    <3>3. log[j].at = at + m /\ log[j].cells = Zeros(s)
      OBVIOUS
    <3>4. u \in Img /\ Quiet(y, u)
      BY <1>8, <3>1
    <3>5. \A a \in Cells : u[a] = IF a \in at .. at + m - 1 THEN 0 ELSE y[a]
      BY <3>1
    <3>6. \A a \in Cells : h[j][a] = IF a \in at .. at + (m + s) - 1 THEN 0 ELSE y[a]
      BY <3>1, <3>2
    <3>7. h[j] \in Img /\ Quiet(y, h[j])
      BY <1>8, <3>1
    <3> HIDE DEF m, u, h, log
    <3>8. v \in Img /\ \A a \in Cells : v[a] = IF a \in at + m .. at + m + s - 1 THEN 0 ELSE u[a]
      <4>1. at + m \in Nat
        BY <1>2, <3>2
      <4> DEFINE e == at + m
      <4> HIDE DEF e
      <4>2. /\ Overlay(u, e, Zeros(s)) \in Img
            /\ \A a \in Cells : Overlay(u, e, Zeros(s))[a] = IF a \in e .. e + s - 1 THEN 0 ELSE u[a]
        BY <1>1, <3>4, <4>1, OverlayZeros DEF e
      <4> QED BY <4>2 DEF e
    <3> HIDE DEF v
    <3>9. \A a \in Cells : h[j][a] = v[a]
      <4> SUFFICES ASSUME NEW a \in Cells PROVE h[j][a] = v[a]
        OBVIOUS
      <4>1. a \in Int
        BY DEF Cells
      <4>2. a \in at .. at + (m + s) - 1 <=> (a \in at + m .. at + m + s - 1 \/ a \in at .. at + m - 1)
        BY <1>1, <1>2, <3>2, <4>1
      <4> QED BY <3>5, <3>6, <3>8, <4>2
    <3>10. h[j] = v
      BY <3>7, <3>8, <3>9 DEF Img
    <3>11. Quiet(u, h[j])
      BY <3>4, <3>7 DEF Quiet, SameNode, SameFields, SameCells, SameHead
    <3>12. q.file \in Nodes(u)
      BY <1>0, <3>4 DEF Quiet
    <3>13. StepOK(u, h[j], q, D.refused)
      BY <3>11, <3>12, QuietOK
    <3> QED BY <3>3, <3>10, <3>13 DEF u, v
  <2>4. \A j \in 0 .. n : h[j] \in Img
    BY <1>8
  <2> HIDE DEF h, z, log
  <2> QED BY <1>5, <2>1, <2>2, <2>3, <2>4 DEF Leads
<1>10. /\ Quiet(y, z) /\ Marked(z) = Marked(y) /\ Unused(z, b)
       /\ \A i \in Nodes(y) : SameRefs(y, z, i)
  <2> HIDE DEF z
  <2> QED BY <1>6, <1>7
<1>11. Zeroed(z, b)
  <2> HIDE DEF z
  <2> SUFFICES ASSUME NEW p \in 0 .. BlockSize - 1 PROVE z[b * BlockSize + p] = 0
    BY DEF Zeroed
  <2>1. at + p \in Cells /\ at + p \in at .. at + BlockSize - 1
    BY <1>0, <1>1, <1>2, BlockIs DEF at
  <2> QED BY <1>6, <2>1 DEF at
<1> HIDE DEF z, log
<1>12. E \in Disks /\ Leads(x, D.log \o log, z, q, D.refused)
  <2>1. D.log \o log \in Seq(Write)
    BY <1>0, <1>5
  <2>2. E \in Disks
    BY <1>0, <1>3a, <1>6, <2>1 DEF Disks, y
  <2>3. Leads(x, D.log \o log, z, q, D.refused)
    BY <1>0, <1>5, <1>9, LeadsOn
  <2> QED BY <2>2, <2>3
<1>13. Quiet(x, z)
  BY <1>0, <1>10, QuietTrans
<1>14. Calm(x, E, q)
  BY <1>0, <1>3, <1>12, <1>13 DEF Calm
<1> QED BY <1>0, <1>3, <1>10, <1>11, <1>14 DEF E, y

\* The bit that is found is clear.
LEMMA FirstClearIs ==
  ASSUME NEW x, NEW base
  PROVE  \/ FirstClear(x, base) = -1
         \/ FirstClear(x, base) \in 0 .. Bits - 1 /\ ~BitIsSet(x, base, FirstClear(x, base))
<1> DEFINE clear == {k \in 0 .. Bits - 1 : ~BitIsSet(x, base, k)}
<1>1. CASE clear = {}
  BY <1>1 DEF FirstClear
<1>2. CASE clear # {}
  <2>1. clear \subseteq Nat
    BY Layout
  <2> HIDE DEF clear
  <2>2. Min(clear) \in clear
    BY <1>2, <2>1, MinIs
  <2>3. FirstClear(x, base) = Min(clear)
    BY <1>2 DEF FirstClear, clear
  <2> QED BY <2>2, <2>3 DEF clear
<1> QED BY <1>1, <1>2

Full(x) == FirstClear(x, DataBitmapBase) = -1

\* allocateBlock: a block that is marked, empty and not referred to, if there is one.
LEMMA AllocateIs ==
  ASSUME NEW x, NEW D, NEW q, Calm(x, D, q), NEW a, a = AllocateBlock(D)
  PROVE  /\ Calm(x, a.D, q) /\ a.D.refused = D.refused
         /\ \A i \in Nodes(x) : SameRefs(D.img, a.D.img, i)
         /\ a.block \in Nat
         /\ a.block = 0 => Full(a.D.img)
         /\ a.block # 0 => /\ a.block \in Marked(a.D.img) /\ Unused(a.D.img, a.block)
                           /\ Zeroed(a.D.img, a.block)
         /\ a = [D |-> a.D, block |-> a.block]
<1> DEFINE y == D.img
           k == FirstClear(y, DataBitmapBase)
           b == FirstBlock + k
           w == DataBitmapBase + k \div WordBits
           v == y[w] + Power[k % WordBits]
<1>0. Sound(y) /\ y \in Img /\ Nodes(y) = Nodes(x)
  BY DEF Calm, Quiet, Sound
<1>1. CASE k = -1
  <2>1. a = [D |-> D, block |-> 0]
    BY <1>1 DEF AllocateBlock, Cleared, FindAndSet
  <2>2. \A i \in Nodes(x) : SameRefs(y, y, i)
    BY DEF SameRefs
  <2> QED BY <1>1, <2>1, <2>2 DEF Full
<1>2. CASE k # -1
  <2>1. k \in 0 .. Bits - 1 /\ ~BitIsSet(y, DataBitmapBase, k)
    BY <1>2, FirstClearIs
  <2>2. /\ k \div WordBits \in 0 .. BlockSize - 1 /\ k % WordBits \in 0 .. WordBits - 1
        /\ Power[k % WordBits] \in Nat
    BY <2>1, WordCell, PowerStep, Layout
  <2>3. w \in Nat /\ w \in Cells
    BY <2>2, Layout DEF Cells
  <2>4. v \in Nat
    BY <1>0, <2>2, <2>3 DEF Img
  <2> DEFINE z == CellPut(y, w, v)
             E == WriteCell(D, w, v)
  <2>5. /\ Quiet(y, z) /\ Marked(z) = Marked(y) \cup {b}
        /\ \A i \in Nodes(y) : SameRefs(y, z, i)
        /\ b \in Blocks /\ Unused(z, b)
    <3>1. z = CellPut(y, DataBitmapBase + k \div WordBits,
                      y[DataBitmapBase + k \div WordBits] + Power[k % WordBits])
      OBVIOUS
    <3> HIDE DEF y, k, z
    <3> QED BY <1>0, <2>1, <3>1, MarkStep
  <2>6. a = [D |-> ClearBlock(E, b), block |-> b]
    <3>1. FindAndSet(D, DataBitmapBase) = [D |-> E, index |-> k]
      BY <1>2 DEF FindAndSet
    <3>2. b = DataBase \div BlockSize + k
      BY DEF FirstBlock
    <3> HIDE DEF E, k
    <3> QED BY <1>2, <3>1, <3>2 DEF AllocateBlock, Cleared
  <2>7. b \in Nat /\ b # 0
    BY <2>5, BlockCell, Layout
  <2>8. Calm(x, E, q) /\ E.img = z /\ E.refused = D.refused
    <3>1. Quiet(D.img, CellPut(D.img, w, v)) /\ w \in Nat /\ v \in Nat
      BY <2>3, <2>4, <2>5
    <3> HIDE DEF w, v
    <3>2. /\ Calm(x, WriteCell(D, w, v), q)
          /\ WriteCell(D, w, v).img = CellPut(D.img, w, v)
          /\ WriteCell(D, w, v).refused = D.refused
      BY <3>1, CalmWrite
    <3> QED BY <3>2
  <2> HIDE DEF E, z, b, y
  <2> DEFINE F == ClearBlock(E, b)
  <2>9. /\ Calm(x, F, q)
        /\ F.refused = E.refused
        /\ Zeroed(F.img, b) /\ Unused(F.img, b)
        /\ Marked(F.img) = Marked(E.img)
        /\ \A i \in Nodes(x) : SameRefs(E.img, F.img, i)
    BY <2>5, <2>8, ClearStep
  <2> HIDE DEF F
  <2>10. b \in Marked(F.img)
    BY <2>5, <2>8, <2>9
  <2>11. \A i \in Nodes(x) : SameRefs(y, F.img, i)
    BY <1>0, <2>5, <2>8, <2>9 DEF SameRefs
  <2>12. a = [D |-> F, block |-> b]
    BY <2>6 DEF F
  <2> QED BY <2>7, <2>8, <2>9, <2>10, <2>11, <2>12 DEF y
<1> QED BY <1>1, <1>2

\* Where a node keeps the number of a block, and that it is kept there.
LEMMA SlotHolds ==
  ASSUME NEW x, Sound(x), NEW i \in Nodes(x), NEW s \in Slots, s > 0 => Ref(x, i, -1) # 0
  PROVE  /\ SlotAt(x, i, s) \in Cells /\ SlotAt(x, i, s) \in Nat
         /\ SlotAt(x, i, s) >= InodeBase
         /\ x[SlotAt(x, i, s)] = Ref(x, i, s)
<1>0. x \in Img /\ i \in Inodes /\ Direct \in Fields /\ Indirect \in Fields
  BY DEF Sound, Nodes, Fields
<1>1. CASE s = -1
  BY <1>0, <1>1, FieldIs, RefIs, Layout DEF SlotAt
<1>2. CASE s = 0
  BY <1>0, <1>2, FieldIs, RefIs, Layout DEF SlotAt
<1>3. CASE s # -1 /\ s # 0
  <2>1. s - 1 \in 0 .. BlockSize - 1 /\ s > 0 /\ -1 \in Slots
    BY <1>3, SlotIs, Layout
  <2> DEFINE c == Ref(x, i, -1)
             p == s - 1
             at == c * BlockSize + p
  <2>2. c # 0 /\ c \in Blocks
    BY <2>1, SoundRef
  <2>3. SlotAt(x, i, s) = at
    BY <1>3, <2>1, RefIs DEF SlotAt
  <2>4. at \in Cells /\ at >= DataBase
    <3> HIDE DEF c, p
    <3> QED BY <1>0, <2>1, <2>2, BlockIs DEF p
  <2>5. x[at] = Ref(x, i, s)
    BY <1>3, <2>2, RefIs
  <2> HIDE DEF at
  <2> QED BY <2>3, <2>4, <2>5, Layout DEF Cells
<1> QED BY <1>1, <1>2, <1>3

\* A 0 where there is one.
LEMMA CellPutSame ==
  ASSUME NEW x \in Img, NEW at \in Cells, x[at] = 0
  PROVE  CellPut(x, at, 0) = x
<1>1. at \in Nat
  BY Layout DEF Cells
<1>2. CellPut(x, at, 0) \in Img /\ \A a \in Cells : CellPut(x, at, 0)[a] = IF a = at THEN 0 ELSE x[a]
  BY <1>1, OverlayCell
<1>3. \A a \in Cells : CellPut(x, at, 0)[a] = x[a]
  BY <1>2
<1> DEFINE y == CellPut(x, at, 0)
<1> HIDE DEF y
<1> QED BY <1>2, <1>3 DEF Img, y

\* A block is allocated for an empty slot of a node.
LEMMA AllocateAtIs ==
  ASSUME NEW x, NEW D, NEW q, Calm(x, D, q), NEW i \in Nodes(x), NEW s \in Slots,
         s > 0 => Ref(D.img, i, -1) # 0, Ref(D.img, i, s) = 0,
         NEW a, a = AllocateAt(D, SlotAt(D.img, i, s))
  PROVE  /\ Calm(x, a.D, q) /\ a.D.refused = D.refused
         /\ a.block = Ref(a.D.img, i, s)
         /\ a.block = 0 => Full(a.D.img)
         /\ a = [D |-> a.D, block |-> a.block]
<1> DEFINE b == AllocateBlock(D)
           at == SlotAt(D.img, i, s)
           y == b.D.img
<1>1. /\ Calm(x, b.D, q) /\ b.D.refused = D.refused
      /\ \A j \in Nodes(x) : SameRefs(D.img, y, j)
      /\ b.block \in Nat
      /\ b.block = 0 => Full(y)
      /\ b.block # 0 => b.block \in Marked(y) /\ Unused(y, b.block) /\ Zeroed(y, b.block)
      /\ b = [D |-> b.D, block |-> b.block]
  BY AllocateIs
<1>2. a = [D |-> WriteCell(b.D, at, b.block), block |-> b.block]
  BY <1>1 DEF AllocateAt, Stored
<1> HIDE DEF b
<1>3. Sound(y) /\ i \in Nodes(y) /\ y \in Img /\ Nodes(y) = Nodes(x)
  BY <1>1 DEF Calm, Quiet, Sound
<1>4. -1 \in Slots /\ Ref(y, i, s) = 0 /\ Ref(y, i, -1) = Ref(D.img, i, -1)
  BY <1>1, SlotIs DEF SameRefs
<1>5. SlotAt(y, i, s) = at
  <2>1. Field(y, i, Indirect) = Field(D.img, i, Indirect)
    BY <1>4, RefIs
  <2> QED BY <2>1 DEF SlotAt
<1>6. at \in Cells /\ at \in Nat /\ y[at] = 0
  BY <1>3, <1>4, <1>5, SlotHolds
<1> HIDE DEF at, y
<1>7. CASE b.block = 0
  <2>1. CellPut(y, at, 0) = y
    BY <1>3, <1>6, CellPutSame
  <2>2. Quiet(y, y)
    BY <1>3, QuietRefl
  <2>3. /\ Calm(x, WriteCell(b.D, at, 0), q)
        /\ WriteCell(b.D, at, 0).img = y
        /\ WriteCell(b.D, at, 0).refused = D.refused
    BY <1>1, <1>6, <2>1, <2>2, CalmWrite DEF y
  <2> DEFINE E == WriteCell(b.D, at, 0)
  <2>4. a = [D |-> E, block |-> 0]
    BY <1>2, <1>7
  <2> HIDE DEF E
  <2> QED BY <1>1, <1>4, <1>7, <2>3, <2>4 DEF E
<1>8. CASE b.block # 0
  <2> DEFINE z == CellPut(y, at, b.block)
             E == WriteCell(b.D, at, b.block)
  <2>1. MayStore(y, i, s, b.block)
    BY <1>1, <1>3, <1>4, <1>8 DEF MayStore
  <2>2. Quiet(y, z) /\ Ref(z, i, s) = b.block
    <3>1. z = CellPut(y, SlotAt(y, i, s), b.block)
      BY <1>5
    <3> HIDE DEF z
    <3> QED BY <2>1, <3>1, StoreStep
  <2>3. Calm(x, E, q) /\ E.img = z /\ E.refused = D.refused
    BY <1>1, <1>6, <2>2, CalmWrite DEF y
  <2> HIDE DEF E, z
  <2>4. a = [D |-> E, block |-> b.block]
    BY <1>2 DEF E
  <2> QED BY <1>8, <2>2, <2>3, <2>4
<1> QED BY <1>7, <1>8

\* getBlockNumber: the block, or the file has been refused one.
LEMMA BlockNumberIs ==
  ASSUME NEW x, NEW D, NEW q, Calm(x, D, q), NEW i \in Nodes(x), NEW k, k \in Nat,
         NEW b, b = GetBlockNumber(D, i, k)
  PROVE  /\ Calm(x, b.D, q) /\ D.refused \subseteq b.D.refused
         /\ b.block \in Nat
         /\ b.block # 0 => k \in 0 .. BlockSize /\ b.block = Ref(b.D.img, i, k)
         /\ b.block # 0 => b.D.refused = D.refused
         /\ b.block = 0 => i \in b.D.refused
<1>0. Sound(D.img) /\ Nodes(D.img) = Nodes(x) /\ i \in Nodes(D.img) /\ i \in Inodes
  BY DEF Calm, Quiet, Nodes
<1> DEFINE Found(c) == /\ Calm(x, c.D, q) /\ c.D.refused = D.refused
                       /\ c.block # 0 => k \in 0 .. BlockSize /\ c.block = Ref(c.D.img, i, k)
                       /\ c.block = 0 => NoBlock(c.D, k)
                       /\ c = [D |-> c.D, block |-> c.block]
<1>1. ASSUME k = 0 PROVE Found(DirectBlock(D, i))
  <2> DEFINE c == DirectBlock(D, i)
  <2>0. 0 \in Slots /\ Field(D.img, i, Direct) = Ref(D.img, i, 0) /\ 0 \in 0 .. BlockSize
    BY SlotIs, RefIs, Layout
  <2>1. CASE Field(D.img, i, Direct) # 0
    <3>1. c = [D |-> D, block |-> Field(D.img, i, Direct)]
      BY <2>1 DEF DirectBlock
    <3> QED BY <1>1, <2>0, <2>1, <3>1
  <2>2. CASE Field(D.img, i, Direct) = 0
    <3>1. c = AllocateAt(D, SlotAt(D.img, i, 0))
      BY <2>2 DEF DirectBlock, SlotAt
    <3> HIDE DEF c
    <3>2. /\ Calm(x, c.D, q) /\ c.D.refused = D.refused
          /\ c.block = Ref(c.D.img, i, 0)
          /\ c.block = 0 => Full(c.D.img)
          /\ c = [D |-> c.D, block |-> c.block]
      <4>1. ~(0 > 0) /\ Ref(D.img, i, 0) = 0
        BY <2>0, <2>2
      <4> QED BY <2>0, <3>1, <4>1, AllocateAtIs
    <3>3. Full(c.D.img) => NoBlock(c.D, k)
      BY DEF Full, NoBlock
    <3> QED BY <1>1, <2>0, <3>2, <3>3 DEF c
  <2> QED BY <2>1, <2>2
<1>2. ASSUME k # 0 PROVE Found(ThroughIndirect(D, i, k - 1))
  <2> DEFINE c == ThroughIndirect(D, i, k - 1)
             ind == IndirectBlock(D, i)
  <2>0. k - 1 \in Nat /\ -1 \in Slots
    BY <1>2, SlotIs
  <2>1. CASE k - 1 >= BlockSize
    <3>1. c = [D |-> D, block |-> 0]
      BY <2>1 DEF ThroughIndirect
    <3>2. NoBlock(D, k)
      BY <2>1, Layout DEF NoBlock
    <3> QED BY <3>1, <3>2
  <2>2. CASE k - 1 < BlockSize
    <3>0. k \in Slots /\ k \in 0 .. BlockSize /\ k # -1 /\ k > 0
      BY <1>2, <2>2, Layout DEF Slots
    <3>1. /\ Calm(x, ind.D, q) /\ ind.D.refused = D.refused
          /\ ind.block # 0 => ind.block = Ref(ind.D.img, i, -1)
          /\ ind.block = 0 => Full(ind.D.img)
          /\ ind = [D |-> ind.D, block |-> ind.block]
      <4>0. Field(D.img, i, Indirect) = Ref(D.img, i, -1)
        BY <2>0, RefIs
      <4>1. CASE Field(D.img, i, Indirect) # 0
        <5>1. ind = [D |-> D, block |-> Field(D.img, i, Indirect)]
          BY <4>1 DEF IndirectBlock
        <5> QED BY <4>0, <4>1, <5>1
      <4>2. CASE Field(D.img, i, Indirect) = 0
        <5> DEFINE a == AllocateBlock(D)
                   d == AllocateAt(D, SlotAt(D.img, i, -1))
        <5>1. ind = IF a.block = 0 THEN a ELSE d
          BY <4>2 DEF IndirectBlock, StoredIfAny, AllocateAt, SlotAt
        <5>2. /\ Calm(x, a.D, q) /\ a.D.refused = D.refused
              /\ a.block = 0 => Full(a.D.img)
              /\ a = [D |-> a.D, block |-> a.block]
          BY AllocateIs
        <5>3. /\ Calm(x, d.D, q) /\ d.D.refused = D.refused
              /\ d.block = Ref(d.D.img, i, -1)
              /\ d.block = 0 => Full(d.D.img)
              /\ d = [D |-> d.D, block |-> d.block]
          <6>1. ~(-1 > 0) /\ Ref(D.img, i, -1) = 0
            BY <4>0, <4>2
          <6> HIDE DEF d
          <6> QED BY <2>0, <6>1, AllocateAtIs DEF d
        <5> HIDE DEF a, d, ind
        <5>4. CASE a.block = 0
          BY <5>1, <5>2, <5>4
        <5>5. CASE a.block # 0
          BY <5>1, <5>3, <5>5
        <5> QED BY <5>4, <5>5
      <4> QED BY <4>1, <4>2
    <3>2. c = EntryOf(ind, k - 1)
      BY <2>0, <2>2, Layout DEF ThroughIndirect
    <3> DEFINE at == ind.block * BlockSize + (k - 1)
               y == ind.D.img
    <3> HIDE DEF c, ind
    <3>3. CASE ind.block = 0
      <4>1. c = ind
        BY <3>2, <3>3 DEF EntryOf
      <4>2. Full(ind.D.img) => NoBlock(ind.D, k)
        BY DEF Full, NoBlock
      <4> QED BY <3>1, <3>3, <4>1, <4>2 DEF c
    <3>4. CASE ind.block # 0
      <4>1. Sound(y) /\ i \in Nodes(y) /\ Ref(y, i, -1) = ind.block
        BY <3>1, <3>4 DEF Calm, Quiet
      <4>2. SlotAt(y, i, k) = at
        BY <1>2, <3>0, <4>1, <2>0, RefIs DEF SlotAt
      <4>3. y[at] = Ref(y, i, k)
        BY <3>0, <3>4, <4>1, <4>2, SlotHolds
      <4>4. CASE y[at] # 0
        <5>1. c = [ind EXCEPT !.block = y[at]]
          BY <3>2, <3>4, <4>4 DEF EntryOf
        <5>2. c = [D |-> ind.D, block |-> y[at]]
          BY <3>1, <5>1
        <5> QED BY <3>0, <3>1, <4>3, <4>4, <5>2 DEF c
      <4>5. CASE y[at] = 0
        <5>1. c = AllocateAt(ind.D, at)
          BY <3>2, <3>4, <4>5 DEF EntryOf
        <5>2. /\ Calm(x, c.D, q) /\ c.D.refused = D.refused
              /\ c.block = Ref(c.D.img, i, k)
              /\ c.block = 0 => Full(c.D.img)
              /\ c = [D |-> c.D, block |-> c.block]
          <6>1. c = AllocateAt(ind.D, SlotAt(ind.D.img, i, k))
            BY <4>2, <5>1
          <6>2. Ref(ind.D.img, i, k) = 0 /\ Ref(ind.D.img, i, -1) # 0
            BY <3>4, <4>1, <4>3, <4>5
          <6> HIDE DEF y, at
          <6> QED BY <3>0, <3>1, <6>1, <6>2, AllocateAtIs
        <5>3. Full(c.D.img) => NoBlock(c.D, k)
          BY DEF Full, NoBlock
        <5> QED BY <3>0, <5>2, <5>3 DEF c
      <4> QED BY <4>4, <4>5
    <3> QED BY <3>3, <3>4
  <2> QED BY <2>1, <2>2, <2>0, Layout
<1> DEFINE c == IF k = 0 THEN DirectBlock(D, i) ELSE ThroughIndirect(D, i, k - 1)
<1>3. Found(c)
  BY <1>1, <1>2
<1>4. b = Answered(c, i, k)
  BY DEF GetBlockNumber
<1> HIDE DEF c
<1>5. CASE c.block = 0
  <2> DEFINE E == [c.D EXCEPT !.refused = @ \cup {i}]
  <2>1. b = [D |-> E, block |-> 0]
    BY <1>3, <1>4, <1>5 DEF Answered
  <2>2. c.D \in Disks /\ Leads(x, c.D.log, c.D.img, q, c.D.refused) /\ Quiet(x, c.D.img)
        /\ q.file \in Nodes(x)
    BY <1>3 DEF Calm
  <2>3. i \in Int
    BY <1>0, Layout DEF Inodes
  <2>4. /\ E \in Disks /\ E.img = c.D.img /\ E.log = c.D.log
        /\ E.refused = c.D.refused \cup {i}
    BY <2>2, <2>3 DEF Disks
  <2> HIDE DEF E
  <2>5. Leads(x, E.log, E.img, q, E.refused)
    BY <2>2, <2>4, LeadsMore
  <2>6. Calm(x, E, q)
    BY <2>2, <2>4, <2>5 DEF Calm
  <2> QED BY <1>3, <2>1, <2>4, <2>6
<1>6. CASE c.block # 0
  <2>1. b = c
    BY <1>4, <1>6 DEF Answered
  <2>2. b.block \in Nat
    <3>1. b.block = Ref(b.D.img, i, k) /\ k \in Slots
      BY <1>3, <1>6, <2>1, Layout DEF Slots
    <3>2. Sound(b.D.img) /\ i \in Nodes(b.D.img)
      BY <1>3, <2>1 DEF Calm, Quiet
    <3> QED BY <3>1, <3>2, SoundRef
  <2> QED BY <1>3, <1>6, <2>1, <2>2
<1> QED BY <1>5, <1>6

\* A piece of an access: it is not empty and stays inside a block.
LEMMA PieceIs ==
  ASSUME NEW off \in Nat, NEW n \in Nat, n > 0, NEW unit \in {SectorSize, BlockSize},
         NEW m, m = PieceLength(off, n, unit)
  PROVE  m \in Nat /\ m > 0 /\ m <= n /\ (off % BlockSize) + m <= BlockSize
<1>0. unit \in Nat /\ unit > 0 /\ BlockSize \in Nat
  BY SectorsOfBlock, Layout
<1>1. /\ off % unit \in 0 .. unit - 1 /\ off \div unit \in Nat
      /\ off % BlockSize \in 0 .. BlockSize - 1 /\ off \div BlockSize \in Nat
  BY <1>0, DivMod, Layout
<1> DEFINE S == {n, unit - (off % unit)}
<1>2. S \subseteq Nat /\ S # {}
  BY <1>0, <1>1
<1>3. Min(S) \in S /\ \A k \in S : Min(S) <= k
  <2> HIDE DEF S
  <2> QED BY <1>2, MinIs
<1>4. m = Min(S)
  BY DEF PieceLength
<1>5. m \in Nat /\ m > 0 /\ m <= n /\ m <= unit - (off % unit)
  BY <1>0, <1>1, <1>2, <1>3, <1>4
<1>6. (off % BlockSize) + unit - (off % unit) <= BlockSize
  <2>1. CASE unit = BlockSize
    BY <1>0, <1>1, <2>1
  <2>2. CASE unit = SectorSize
    <3> DEFINE c == BlockSize \div unit
               P == off % BlockSize
               Q == off \div BlockSize
               t == P \div unit
               r == P % unit
    <3>1. c \in Nat /\ BlockSize = c * unit
      BY <2>2, SectorsOfBlock
    <3>2. off = Q * BlockSize + P /\ P \in 0 .. BlockSize - 1 /\ Q \in Nat
      BY <1>0, DivMod, Layout
    <3>3. t \in Nat /\ r \in 0 .. unit - 1 /\ P = t * unit + r
      BY <1>0, <3>2, DivMod
    <3> HIDE DEF c, P, Q, t, r
    <3>4. off = (Q * c + t) * unit + r
      <4>1. Q * BlockSize = (Q * c) * unit
        BY <1>0, <3>1, <3>2
      <4>2. (Q * c + t) * unit = (Q * c) * unit + t * unit
        BY <1>0, <3>1, <3>2, <3>3
      <4>3. Q * c \in Nat /\ (Q * c) * unit \in Nat /\ t * unit \in Nat
        BY <1>0, <3>1, <3>2, <3>3
      <4> DEFINE u1 == (Q * c) * unit
                 u2 == t * unit
                 u3 == (Q * c + t) * unit
                 u4 == Q * BlockSize
      <4>4. u4 = u1 /\ u3 = u1 + u2 /\ off = u4 + P /\ P = u2 + r /\ u1 \in Nat /\ u2 \in Nat
        BY <3>2, <3>3, <4>1, <4>2, <4>3
      <4> HIDE DEF u1, u2, u3, u4
      <4>5. off = u3 + r
        BY <1>0, <3>3, <4>4
      <4> QED BY <4>5 DEF u3
    <3>5. Q * c + t \in Nat
      BY <3>1, <3>2, <3>3
    <3>6. off % unit = r
      BY <1>0, <3>3, <3>4, <3>5, DivIs
    <3>7. t < c
      <4>1. SUFFICES ASSUME t >= c PROVE FALSE
        BY <3>1, <3>3
      <4>2. t * unit >= c * unit
        BY <1>0, <3>1, <3>3, <4>1
      <4> DEFINE u1 == t * unit
                 u2 == c * unit
      <4>3. u1 \in Nat /\ u2 \in Nat /\ u1 >= u2 /\ P = u1 + r /\ BlockSize = u2
        BY <1>0, <3>1, <3>3, <4>2
      <4> HIDE DEF u1, u2
      <4> QED BY <1>0, <3>2, <3>3, <4>3
    <3>8. t * unit + unit <= c * unit
      <4>1. (t + 1) * unit <= c * unit
        BY <1>0, <3>1, <3>3, <3>7
      <4>2. (t + 1) * unit = t * unit + unit
        BY <1>0, <3>3
      <4> QED BY <4>1, <4>2
    <3> DEFINE u1 == t * unit
               u2 == c * unit
    <3>9. u1 \in Nat /\ u2 \in Nat /\ u1 + unit <= u2 /\ P = u1 + r /\ BlockSize = u2
      BY <1>0, <3>1, <3>3, <3>8
    <3> HIDE DEF u1, u2
    <3>10. P + unit - r <= BlockSize
      BY <1>0, <3>3, <3>9
    <3> QED BY <3>6, <3>10 DEF P
  <2> QED BY <2>1, <2>2
<1> QED BY <1>0, <1>1, <1>5, <1>6

\* The cells of a block of a file.
LEMMA PieceCells ==
  ASSUME NEW off \in Nat, off \div BlockSize <= BlockSize,
         NEW n \in Nat, (off % BlockSize) + n <= BlockSize, NEW o \in off .. off + n - 1
  PROVE  /\ o \in FileCells /\ o \div BlockSize = off \div BlockSize
         /\ o % BlockSize = (off % BlockSize) + (o - off)
<1> DEFINE k == off \div BlockSize
           p == off % BlockSize
           r == p + (o - off)
<1>1. k \in Nat /\ p \in 0 .. BlockSize - 1 /\ off = k * BlockSize + p /\ BlockSize \in Nat
  BY FileCell, Layout
<1> HIDE DEF k, p
<1>2. o \in Nat /\ r \in 0 .. BlockSize - 1
  BY <1>1 DEF p
<1>3. o = k * BlockSize + r
  <2> DEFINE u == k * BlockSize
  <2>1. u \in Nat /\ off = u + p
    BY <1>1
  <2> HIDE DEF u
  <2>2. o = u + r
    BY <1>1, <1>2, <2>1
  <2> QED BY <2>2 DEF u
<1> HIDE DEF r
<1>4. o \div BlockSize = k /\ o % BlockSize = r
  BY <1>1, <1>2, <1>3, DivIs, Layout
<1>5. o \in FileCells
  BY <1>2, <1>4, FileCell DEF k
<1> QED BY <1>4, <1>5 DEF k, p, r

\* A part of a sequence.
LEMMA SubSeqIs ==
  ASSUME NEW S, NEW s \in Seq(S), NEW d \in Nat, NEW n \in Nat, d + n <= Len(s)
  PROVE  /\ SubSeq(s, d + 1, d + n) \in Seq(S) /\ Len(SubSeq(s, d + 1, d + n)) = n
         /\ \A j \in 1 .. n : SubSeq(s, d + 1, d + n)[j] = s[d + j]
<1>1. SubSeq(s, d + 1, d + n) = [j \in 1 .. n |-> s[d + j]]
  <2>1. d + n - (d + 1) + 1 = n
    OBVIOUS
  <2>2. \A j \in 1 .. n : j + (d + 1) - 1 = d + j
    OBVIOUS
  <2> QED BY <2>1, <2>2
<1>2. \A j \in 1 .. n : s[d + j] \in S
  <2>1. \A j \in 1 .. n : d + j \in 1 .. Len(s)
    OBVIOUS
  <2> QED BY <2>1
<1> QED BY <1>1, <1>2

\* What has been written survives a step that leaves the cells of the file alone.
LEMMA WroteKept ==
  ASSUME NEW x, NEW y, NEW q, NEW k, Wrote(x, q, k), SameCells(x, y, q.file)
  PROVE  Wrote(y, q, k)
BY DEF Wrote, SameCells

\* A write call and how far it got.
WriteOf(x, q, d, n) ==
  /\ q.file \in Nodes(x) /\ q.off \in Nat /\ q.data \in Seq(Nat)
  /\ d \in Nat /\ n \in Nat /\ n > 0 /\ d + n <= Len(q.data)
  /\ ((q.off + d) % BlockSize) + n <= BlockSize

\* A write call that has written k cells.
Stage(x, c, q, k) ==
  /\ c \in Disks /\ Sound(c.img) /\ Nodes(c.img) = Nodes(x)
  /\ Leads(x, c.log, c.img, q, c.refused)
  /\ q.file \notin c.refused => Wrote(c.img, q, k)

\* The data of a piece, in the block that was found.
LEMMA PutIs ==
  ASSUME NEW x, NEW b, NEW q, NEW d, NEW n, WriteOf(x, q, d, n), Calm(x, b.D, q),
         b.block \in Nat,
         b.block # 0 => /\ (q.off + d) \div BlockSize \in 0 .. BlockSize
                        /\ b.block = Ref(b.D.img, q.file, (q.off + d) \div BlockSize),
         b.block = 0 => q.file \in b.D.refused,
         q.file \notin b.D.refused => Wrote(x, q, d),
         NEW c, c = PutInBlock(b, q.off + d, SubSeq(q.data, d + 1, d + n))
  PROVE  Stage(x, c, q, d + n) /\ c.refused = b.D.refused
<1> DEFINE f == q.file
           off == q.off + d
           cells == SubSeq(q.data, d + 1, d + n)
           k == off \div BlockSize
           p == off % BlockSize
           y == b.D.img
           at == b.block * BlockSize + p
           w == [at |-> at, cells |-> cells]
           z == Overlay(y, at, cells)
<1>0. /\ q.off \in Nat /\ d \in Nat /\ n \in Nat /\ n > 0 /\ d + n <= Len(q.data) /\ q.data \in Seq(Nat)
      /\ f \in Nodes(x) /\ off \in Nat /\ p + n <= BlockSize
  BY DEF WriteOf
<1>1. k \in Nat /\ p \in 0 .. BlockSize - 1 /\ off = k * BlockSize + p
  BY <1>0, FileCell
<1>2. /\ cells \in Seq(Nat) /\ Len(cells) = n
      /\ \A j \in 1 .. n : cells[j] = q.data[d + j]
  BY <1>0, SubSeqIs, SMTT(30)
<1>3. /\ Sound(y) /\ y \in Img /\ Nodes(y) = Nodes(x) /\ f \in Nodes(y)
      /\ b.D \in Disks /\ b.D.log \in Seq(Write) /\ Quiet(x, y)
      /\ Leads(x, b.D.log, y, q, b.D.refused)
  BY <1>0 DEF Calm, Quiet, Sound, Disks
<1>4. at \in Nat
  BY <1>1, Layout
<1>5. c = DeviceWrite(b.D, at, cells)
  BY DEF PutInBlock
<1> HIDE DEF cells, k, p, y, at
<1>6. /\ c \in Disks /\ c.img = z /\ c.log = Append(b.D.log, w) /\ c.refused = b.D.refused
      /\ w \in Write
  BY <1>2, <1>3, <1>4, <1>5, DeviceWriteIs DEF y
<1>7. z \in Img
  BY <1>6 DEF Disks
<1>8. /\ Sound(z) /\ Nodes(z) = Nodes(y) /\ StepOK(y, z, q, b.D.refused)
      /\ f \notin b.D.refused => Wrote(z, q, d + n)
  <2>1. CASE b.block = 0
    <3>1. SameOutside(y, z, 0 .. BlockSize - 1)
      <4>1. \A a \in Cells : z[a] = IF a \in at .. at + Len(cells) - 1 THEN cells[a - at + 1] ELSE y[a]
        BY <1>2, <1>3, <1>4, OverlayIs
      <4>2. at = p
        BY <1>1, <2>1, Layout DEF at
      <4>3. \A a \in Cells : a \notin 0 .. BlockSize - 1 => a \notin at .. at + Len(cells) - 1
        BY <1>0, <1>1, <1>2, <4>2, Layout DEF Cells, p
      <4> HIDE DEF z
      <4> QED BY <4>1, <4>3 DEF SameOutside
    <3> HIDE DEF z
    <3>2. /\ Sound(z) /\ Nodes(z) = Nodes(y)
          /\ \A i \in Nodes(y) : SameNode(y, z, i)
      BY <1>3, <1>7, <3>1, HeadStep
    <3>3. StepOK(y, z, q, b.D.refused)
      BY <2>1, <3>2 DEF StepOK, SameNode, SameFields
    <3> QED BY <2>1, <3>2, <3>3
  <2>2. CASE b.block # 0
    <3>0. k \in 0 .. BlockSize /\ b.block = Ref(y, f, k)
      BY <2>2 DEF k, y
    <3>1. z = Overlay(y, Ref(y, f, k) * BlockSize + p, cells)
      BY <3>0 DEF at
    <3>2. p + Len(cells) <= BlockSize /\ Ref(y, f, k) # 0
      BY <1>0, <1>2, <2>2, <3>0 DEF p
    <3> HIDE DEF z, f
    <3>3. /\ Sound(z) /\ Nodes(z) = Nodes(y) /\ SameHead(y, z)
          /\ \A j \in Nodes(y) : j # f => SameNode(y, z, j)
          /\ SameFields(y, z, f)
          /\ CellsPut(y, z, f, off, cells)
      <4>1. Sound(y) /\ f \in Nodes(y) /\ p \in 0 .. BlockSize - 1 /\ cells \in Seq(Nat)
        BY <1>1, <1>2, <1>3
      <4>2. /\ Sound(z) /\ Nodes(z) = Nodes(y) /\ SameHead(y, z)
            /\ \A j \in Nodes(y) : j # f => SameNode(y, z, j)
            /\ SameFields(y, z, f)
        BY <3>0, <3>1, <3>2, <4>1, DataStep
      <4>3. CellsPut(y, z, f, k * BlockSize + p, cells)
        BY <3>0, <3>1, <3>2, <4>1, DataStep
      <4> QED BY <1>1, <4>2, <4>3
    <3>4. ASSUME NEW o \in FileCells
          PROVE  CellOf(z, f, o) = IF o + 1 - q.off \in d + 1 .. d + n THEN q.data[o + 1 - q.off]
                                   ELSE CellOf(y, f, o)
      <4>1. o \in Nat
        BY DEF FileCells
      <4>2. CellOf(z, f, o) = IF o \in off .. off + n - 1 THEN cells[o - off + 1] ELSE CellOf(y, f, o)
        <5> HIDE DEF off
        <5> QED BY <1>2, <3>3 DEF CellsPut
      <4> DEFINE e == q.off
      <4>0. e \in Nat /\ d \in Nat /\ n \in Nat /\ off = e + d
        BY <1>0
      <4>3. o + 1 - q.off \in d + 1 .. d + n <=> o \in off .. off + n - 1
        <5> HIDE DEF e
        <5>1. o + 1 - e \in d + 1 .. d + n <=> o \in e + d .. e + d + n - 1
          BY <4>0, <4>1
        <5> QED BY <5>1 DEF e
      <4>4. ASSUME o \in off .. off + n - 1 PROVE cells[o - off + 1] = q.data[o + 1 - q.off]
        <5>1. o - off + 1 \in 1 .. n /\ d + (o - off + 1) = o + 1 - q.off
          <6> HIDE DEF e, off
          <6>1. o - off + 1 \in 1 .. n /\ d + (o - off + 1) = o + 1 - e
            BY <4>0, <4>1, <4>4
          <6> QED BY <6>1 DEF e
        <5> QED BY <1>2, <5>1
      <4> QED BY <4>2, <4>3, <4>4
    <3>5. PutStep(y, z, q)
      <4>1. d + 1 \in 1 .. Len(q.data) /\ d + n \in d + 1 .. Len(q.data)
        BY <1>0, SMTT(30)
      <4> QED BY <3>3, <3>4, <4>1 DEF PutStep, f
    <3>6. \A j \in Nodes(y) : Field(z, j, Type) = Field(y, j, Type) /\ Field(z, j, Links) = Field(y, j, Links)
      BY <3>3 DEF SameNode, SameFields
    <3>7. StepOK(y, z, q, b.D.refused)
      BY <3>3, <3>5, <3>6 DEF StepOK, f
    <3>8. ASSUME f \notin b.D.refused PROVE Wrote(z, q, d + n)
      <4>1. Wrote(y, q, d)
        <5>1. SameCells(x, y, q.file)
          BY <1>0, <1>3 DEF Quiet, SameNode, f
        <5> QED BY <3>8, <5>1, WroteKept DEF f
      <4> SUFFICES ASSUME NEW j \in 1 .. d + n
                   PROVE  q.off + j - 1 \in FileCells /\ CellOf(z, f, q.off + j - 1) = q.data[j]
        BY DEF Wrote, f
      <4> DEFINE o == q.off + j - 1
      <4>2. o \in Nat /\ o + 1 - q.off = j
        BY <1>0, SMTT(30)
      <4>3. CASE j <= d
        <5>1. j \in 1 .. d /\ ~(j \in d + 1 .. d + n)
          BY <1>0, <4>3
        <5>2. o \in FileCells /\ CellOf(y, f, o) = q.data[j]
          BY <4>1, <5>1 DEF Wrote, f
        <5> HIDE DEF o
        <5> QED BY <3>4, <4>2, <5>1, <5>2 DEF o
      <4>4. CASE j > d
        <5>1. o \in off .. off + n - 1 /\ j \in d + 1 .. d + n
          <6> DEFINE a == q.off
          <6>1. a \in Nat /\ d \in Nat /\ n \in Nat
            BY <1>0
          <6> HIDE DEF a
          <6>2. a + j - 1 \in a + d .. a + d + n - 1 /\ j \in d + 1 .. d + n
            BY <4>4, <6>1
          <6> QED BY <6>2 DEF a
        <5>2. off \div BlockSize <= BlockSize /\ (off % BlockSize) + n <= BlockSize
          BY <1>0, <3>0, Layout DEF k, p
        <5>3. o \in FileCells
          <6> HIDE DEF o, off
          <6> QED BY <1>0, <5>1, <5>2, PieceCells
        <5> HIDE DEF o
        <5> QED BY <3>4, <4>2, <5>1, <5>3 DEF o
      <4> QED BY <1>0, <4>3, <4>4
    <3> QED BY <3>3, <3>7, <3>8 DEF f
  <2> QED BY <2>1, <2>2
<1>9. Leads(x, c.log, z, q, c.refused)
  <2>1. z = Overlay(y, w.at, w.cells)
    OBVIOUS
  <2> HIDE DEF z, w
  <2> QED BY <1>3, <1>6, <1>7, <1>8, <2>1, LeadsTo
<1> HIDE DEF z
<1> QED BY <1>3, <1>6, <1>8, <1>9 DEF Stage

\* The size goes up over the cells that have been written.
LEMMA GrownIs ==
  ASSUME NEW x, NEW c, NEW q, NEW k, k \in 1 .. Len(q.data), q.off \in Nat, Len(q.data) \in Nat,
         q.file \in Nodes(x), Stage(x, c, q, k),
         NEW e, e = q.off + k, NEW w, w = Grown(c, q.file, e)
  PROVE  /\ Stage(x, w, q, k) /\ w.refused = c.refused
         /\ Field(w.img, q.file, Size) >= e
<1> DEFINE f == q.file
           y == c.img
           at == FieldAt(f, Size)
           z == CellPut(y, at, e)
           E == WriteCell(c, at, e)
<1>0. /\ f \in Nodes(y) /\ f \in Inodes /\ y \in Img /\ Size \in Fields /\ e \in Nat
      /\ c.log \in Seq(Write) /\ k \in Nat
      /\ c \in Disks /\ Sound(y) /\ Nodes(y) = Nodes(x)
      /\ Leads(x, c.log, y, q, c.refused)
      /\ f \notin c.refused => Wrote(y, q, k)
  BY DEF Nodes, Disks, Fields, Stage
<1>1. at \in Nat /\ Field(y, f, Size) \in Nat
  BY <1>0, FieldIs, Layout
<1>2. CASE ~(e > Field(y, f, Size))
  <2>1. w = c
    BY <1>2 DEF Grown
  <2> QED BY <1>0, <1>1, <1>2, <2>1 DEF Stage
<1>3. CASE e > Field(y, f, Size)
  <2>1. w = E
    BY <1>3 DEF Grown, SetField
  <2> HIDE DEF at, f
  <2>2. /\ E \in Disks /\ E.img = z /\ E.refused = c.refused
        /\ \E v \in Write : E.log = Append(c.log, v) /\ z = Overlay(y, v.at, v.cells)
    BY <1>0, <1>1, WriteCellIs, ZenonT(30)
  <2> HIDE DEF E
  <2>3. /\ Sound(z) /\ Nodes(z) = Nodes(y) /\ SameHead(y, z)
        /\ \A j \in Nodes(y) : SameRefs(y, z, j) /\ SameCells(y, z, j)
        /\ \A j \in Nodes(y) : j # f => SameNode(y, z, j)
        /\ Field(z, f, Size) = e
        /\ \A g \in Fields : g # Size => Field(z, f, g) = Field(y, f, g)
    <3>1. z = CellPut(y, FieldAt(f, Size), e)
      BY DEF at
    <3> HIDE DEF z
    <3> QED BY <1>0, <3>1, FieldStep
  <2>4. StepOK(y, z, q, c.refused)
    <3>1. \A j \in Nodes(y) : Field(z, j, Type) = Field(y, j, Type) /\ Field(z, j, Links) = Field(y, j, Links)
      <4>1. Type \in Fields /\ Links \in Fields /\ Type # Size /\ Links # Size
        BY DEF Fields, Type, Links, Size
      <4> QED BY <2>3, <4>1 DEF SameNode, SameFields
    <3>2. ASSUME f \notin c.refused PROVE ExtendStep(y, z, q)
      <4>1. SameCells(y, z, f)
        BY <1>0, <2>3
      <4>2. Wrote(y, q, k)
        BY <1>0, <3>2 DEF f
      <4> QED BY <1>3, <2>3, <4>1, <4>2 DEF ExtendStep, f
    <3> QED BY <2>3, <3>1, <3>2 DEF StepOK, f
  <2>5. Leads(x, E.log, z, q, E.refused)
    <3>1. PICK v \in Write : E.log = Append(c.log, v) /\ z = Overlay(y, v.at, v.cells)
      BY <2>2
    <3>2. z \in Img
      BY <2>2 DEF Disks
    <3> HIDE DEF z
    <3> QED BY <1>0, <2>2, <2>4, <3>1, <3>2, LeadsTo
  <2>6. f \notin E.refused => Wrote(z, q, k)
    BY <1>0, <2>2, <2>3, WroteKept DEF f
  <2>7. Field(z, f, Size) >= e
    BY <1>0, <2>3
  <2> HIDE DEF z
  <2> QED BY <1>0, <2>1, <2>2, <2>3, <2>5, <2>6, <2>7 DEF f, Stage
<1> QED BY <1>2, <1>3

\* One round of Node::writeAll.
LEMMA WritePieceIs ==
  ASSUME NEW x, NEW D, NEW q, NEW d, NEW n, WriteOf(x, q, d, n), Calm(x, D, q),
         q.file \notin D.refused => Wrote(x, q, d),
         NEW w, w = WritePiece(D, q.file, q.off + d, SubSeq(q.data, d + 1, d + n))
  PROVE  /\ Stage(x, w, q, d + n) /\ D.refused \subseteq w.refused
         /\ Field(w.img, q.file, Size) >= q.off + (d + n)
<1> DEFINE f == q.file
           off == q.off + d
           cells == SubSeq(q.data, d + 1, d + n)
           b == GetBlockNumber(D, f, off \div BlockSize)
           c == PutInBlock(b, off, cells)
<1>0. /\ f \in Nodes(x) /\ q.off \in Nat /\ q.data \in Seq(Nat) /\ Len(q.data) \in Nat
      /\ d \in Nat /\ n \in Nat /\ n > 0 /\ d + n <= Len(q.data) /\ off \in Nat
  BY DEF WriteOf
<1>1. Len(cells) = n
  BY <1>0, SubSeqIs
<1>2. w = Grown(c, f, q.off + (d + n))
  <2>1. off + n = q.off + (d + n)
    BY <1>0
  <2>2. w = Grown(c, f, off + Len(cells))
    BY DEF WritePiece
  <2> QED BY <1>1, <2>1, <2>2
<1>3. off \div BlockSize \in Nat
  BY <1>0, FileCell
<1>4. /\ Calm(x, b.D, q) /\ D.refused \subseteq b.D.refused
      /\ b.block \in Nat
      /\ b.block # 0 => off \div BlockSize \in 0 .. BlockSize /\ b.block = Ref(b.D.img, f, off \div BlockSize)
      /\ b.block = 0 => f \in b.D.refused
  <2> DEFINE k == off \div BlockSize
  <2>1. b = GetBlockNumber(D, f, k) /\ k \in Nat
    BY <1>3
  <2> HIDE DEF k, b, f
  <2> QED BY <1>0, <2>1, BlockNumberIs DEF k
<1>5. Stage(x, c, q, d + n) /\ c.refused = b.D.refused
  <2>1. q.file \notin b.D.refused => Wrote(x, q, d)
    BY <1>4
  <2>2. c = PutInBlock(b, q.off + d, SubSeq(q.data, d + 1, d + n))
    OBVIOUS
  <2> HIDE DEF b, c
  <2> QED BY <1>4, <2>1, <2>2, PutIs
<1> DEFINE m == d + n
           e == q.off + m
<1>6. m \in 1 .. Len(q.data) /\ w = Grown(c, q.file, e) /\ e = q.off + m
  BY <1>0, <1>2
<1> HIDE DEF b, c, m, e
<1>7. /\ Stage(x, w, q, m) /\ w.refused = c.refused
      /\ Field(w.img, q.file, Size) >= e
  <2>1. Stage(x, c, q, m)
    BY <1>5 DEF m
  <2>2. q.file \in Nodes(x) /\ q.off \in Nat /\ Len(q.data) \in Nat
    BY <1>0
  <2> HIDE DEF f
  <2> QED BY <1>6, <2>1, <2>2, GrownIs
<1>8. D.refused \subseteq w.refused
  BY <1>4, <1>5, <1>7
<1> QED BY <1>7, <1>8 DEF m, e

\* One round of Node::readAll.
LEMMA ReadPieceIs ==
  ASSUME NEW x, NEW D, NEW q, Calm(x, D, q), NEW i \in Nodes(x), NEW off \in Nat, NEW n \in Nat,
         (off % BlockSize) + n <= BlockSize,
         NEW r, r = ReadPiece(D, i, off, n)
  PROVE  /\ Calm(x, r.D, q) /\ D.refused \subseteq r.D.refused
         /\ r.got \in Seq(Nat) /\ Len(r.got) = n
         /\ i \notin r.D.refused =>
              \A j \in 1 .. n : /\ off + j - 1 \in FileCells
                                /\ r.got[j] = CellOf(x, i, off + j - 1)
<1> DEFINE k == off \div BlockSize
           p == off % BlockSize
           b == GetBlockNumber(D, i, k)
           y == b.D.img
           at == b.block * BlockSize + p
           g == [j \in 1 .. n |-> y[at + j - 1]]
<1>0. k \in Nat /\ p \in 0 .. BlockSize - 1 /\ off = k * BlockSize + p
  BY FileCell
<1>1. r = [D |-> b.D, got |-> g]
  BY DEF ReadPiece, TakenFrom, ReadCells
<1>2. /\ Calm(x, b.D, q) /\ D.refused \subseteq b.D.refused
      /\ b.block \in Nat
      /\ b.block # 0 => k \in 0 .. BlockSize /\ b.block = Ref(y, i, k)
      /\ b.block = 0 => i \in b.D.refused
  <2>1. b = GetBlockNumber(D, i, k)
    OBVIOUS
  <2> HIDE DEF b, k
  <2> QED BY <1>0, <2>1, BlockNumberIs
<1>3. Sound(y) /\ y \in Img /\ i \in Nodes(y) /\ Nodes(y) = Nodes(x) /\ Quiet(x, y)
  BY <1>2 DEF Calm, Quiet, Sound
<1> HIDE DEF b, y, k, p
<1>4. ASSUME NEW j \in 1 .. n
      PROVE  /\ at + j - 1 = b.block * BlockSize + (p + (j - 1))
             /\ p + (j - 1) \in 0 .. BlockSize - 1 /\ at + j - 1 \in Cells
  <2>1. p + (j - 1) \in 0 .. BlockSize - 1 /\ p \in Nat
    BY <1>0, Layout DEF p
  <2>2. at + j - 1 = b.block * BlockSize + (p + (j - 1))
    <3> DEFINE u == b.block * BlockSize
    <3>1. u \in Nat
      BY <1>2, Layout
    <3> HIDE DEF u
    <3>2. u + p + j - 1 = u + (p + (j - 1))
      BY <2>1, <3>1
    <3> QED BY <3>2 DEF u
  <2> DEFINE s == p + (j - 1)
  <2> HIDE DEF s
  <2>3. b.block * BlockSize + s \in Cells
    <3>1. CASE b.block = 0
      <4>1. 0 * BlockSize + s = s
        BY <2>1, Layout DEF s
      <4> QED BY <2>1, <3>1, <4>1, Layout DEF Cells, s
    <3>2. CASE b.block # 0
      <4>1. b.block \in Blocks
        BY <1>2, <1>3, <3>2, SoundRef, Layout DEF Slots
      <4> QED BY <1>3, <2>1, <4>1, BlockIs DEF s
    <3> QED BY <3>1, <3>2
  <2> QED BY <2>1, <2>2, <2>3 DEF s
<1> HIDE DEF at
<1>5. g \in Seq(Nat) /\ Len(g) = n
  BY <1>3, <1>4 DEF Img
<1>6. ASSUME i \notin b.D.refused, NEW j \in 1 .. n
      PROVE  off + j - 1 \in FileCells /\ g[j] = CellOf(x, i, off + j - 1)
  <2> DEFINE o == off + j - 1
  <2>1. /\ b.block # 0 /\ k \in 0 .. BlockSize /\ b.block = Ref(y, i, k)
    BY <1>2, <1>6
  <2>2. o \in off .. off + n - 1 /\ o - off = j - 1
    OBVIOUS
  <2>3. o \in FileCells /\ o \div BlockSize = k /\ o % BlockSize = p + (o - off)
    <3>1. off \div BlockSize <= BlockSize
      BY <2>1, Layout DEF k
    <3> HIDE DEF o
    <3> QED BY <2>2, <3>1, PieceCells DEF k, p
  <2> HIDE DEF o
  <2>4. CellOf(y, i, o) = y[Ref(y, i, k) * BlockSize + (p + (j - 1))]
    BY <2>1, <2>2, <2>3, CellIs
  <2>5. CellOf(y, i, o) = CellOf(x, i, o)
    BY <1>3, <2>3 DEF Quiet, SameNode, SameCells
  <2>6. g[j] = y[at + j - 1]
    OBVIOUS
  <2> QED BY <1>4, <2>1, <2>3, <2>4, <2>5, <2>6 DEF o
<1> HIDE DEF g
<1> QED BY <1>1, <1>2, <1>5, <1>6

-----------------------------------------------------------------------------
(* Directories *)

Entries == [kind : {"file", "dir", "other"}, name : Seq(Nat), data : Seq(Nat), sub : Listings]

\* An entry of a directory on the disk: what it is on the host, its inode, and where
\* in the directory it is.
Kids == [entry : Entries, inode : Inodes, at : Nat]

\* Where entry m + 1 begins, or the end.
NextAt(ks, m, size) == IF m < Len(ks) THEN ks[m + 1].at ELSE size

\* The entries follow each other without a gap.
DirShape(ks, size) ==
  /\ ks \in Seq(Kids) /\ size \in Nat
  /\ NextAt(ks, 0, size) = 0
  /\ Len(ks) <= size
  /\ \A m \in 1 .. Len(ks) :
       ks[m].at < size /\ NextAt(ks, m, size) = ks[m].at + 2 + Len(ks[m].entry.name)

\* What the cells of a directory are for entry k.
Listed(data, k) ==
  /\ data[k.at + 1] = k.inode
  /\ data[k.at + 2] = Len(k.entry.name)
  /\ \A j \in 1 .. Len(k.entry.name) : data[k.at + 2 + j] = k.entry.name[j]

\* Node i holds data, no more and no less.
HasCells(x, i, data) ==
  \A o \in 1 .. Len(data) : o - 1 \in FileCells /\ CellOf(x, i, o - 1) = data[o]

Holds(x, i, data) == Field(x, i, Size) = Len(data) /\ HasCells(x, i, data)

\* The parts of an entry.
LEMMA KidIs ==
  ASSUME NEW ks, NEW size, DirShape(ks, size), NEW m \in 1 .. Len(ks)
  PROVE  /\ ks[m] \in Kids /\ ks[m].at \in Nat /\ ks[m].inode \in Inodes /\ ks[m].inode \in Nat
         /\ ks[m].entry \in Entries /\ ks[m].entry.name \in Seq(Nat) /\ Len(ks[m].entry.name) \in Nat
<1>1. ks[m] \in Kids
  BY DEF DirShape
<1>2. Inodes \subseteq Nat
  BY DEF Inodes
<1>3. ks[m].at \in Nat /\ ks[m].inode \in Inodes /\ ks[m].entry \in Entries
  BY <1>1 DEF Kids
<1>4. ks[m].entry.name \in Seq(Nat)
  BY <1>3 DEF Entries
<1>5. Len(ks[m].entry.name) \in Nat
  BY <1>4
<1>6. ks[m].inode \in Nat
  BY <1>2, <1>3
<1> QED BY <1>1, <1>3, <1>4, <1>5, <1>6

\* Reading an entry of a directory.
LEMMA EntryIs ==
  ASSUME NEW x, NEW c, NEW data \in Seq(Nat), Holds(x, c, data),
         NEW ks, DirShape(ks, Len(data)), NEW m \in 1 .. Len(ks), Listed(data, ks[m])
  PROVE  EntryAt(x, c, ks[m].at) =
           [inode |-> ks[m].inode, next |-> NextAt(ks, m, Len(data)), name |-> ks[m].entry.name]
<1> DEFINE at == ks[m].at
           nm == ks[m].entry.name
<1>1. at \in Nat /\ nm \in Seq(Nat) /\ Len(nm) \in Nat /\ ks[m].inode \in Nat
  BY KidIs
<1>2. NextAt(ks, m, Len(data)) = at + 2 + Len(nm)
  BY DEF DirShape
<1>3. at + 2 + Len(nm) <= Len(data)
  <2>1. CASE m < Len(ks)
    <3>1. m + 1 \in 1 .. Len(ks) /\ NextAt(ks, m, Len(data)) = ks[m + 1].at
      BY <2>1 DEF NextAt, DirShape
    <3>2. ks[m + 1].at \in Nat /\ ks[m + 1].at < Len(data)
      BY <3>1, KidIs DEF DirShape
    <3> QED BY <1>2, <3>1, <3>2
  <2>2. CASE m = Len(ks)
    BY <2>2, <1>2 DEF NextAt
  <2> QED BY <2>1, <2>2 DEF DirShape
<1> HIDE DEF at, nm
<1>4. ASSUME NEW o \in 0 .. Len(data) - 1 PROVE CellOf(x, c, o) = data[o + 1]
  BY o + 1 \in 1 .. Len(data), (o + 1) - 1 = o DEF Holds, HasCells
<1>5. /\ data[at + 1] = ks[m].inode /\ data[at + 2] = Len(nm)
      /\ \A j \in 1 .. Len(nm) : data[at + 2 + j] = nm[j]
  BY DEF Listed, at, nm
<1>6. CellOf(x, c, at) = ks[m].inode /\ CellOf(x, c, at + 1) = Len(nm)
  <2>1. CellOf(x, c, at) = data[at + 1]
    BY <1>1, <1>3, <1>4
  <2>2. CellOf(x, c, at + 1) = data[at + 2]
    BY <1>1, <1>3, <1>4, at + 1 \in 0 .. Len(data) - 1, (at + 1) + 1 = at + 2
  <2> QED BY <2>1, <2>2, <1>5
<1>7. ASSUME NEW j \in 1 .. Len(nm) PROVE CellOf(x, c, at + 1 + j) = nm[j]
  <2>1. at + 1 + j \in 0 .. Len(data) - 1 /\ (at + 1 + j) + 1 = at + 2 + j
    BY <1>1, <1>3
  <2>2. CellOf(x, c, at + 1 + j) = data[(at + 1 + j) + 1]
    BY <2>1, <1>4
  <2> QED BY <2>1, <2>2, <1>5
<1>8. [k \in 1 .. Len(nm) |-> CellOf(x, c, at + 1 + k)] = nm
  BY <1>1, <1>7
<1>9. EntryAt(x, c, at) = [inode |-> ks[m].inode, next |-> at + 2 + Len(nm), name |-> nm]
  BY <1>6, <1>8 DEF EntryAt
<1> QED BY <1>2, <1>9 DEF at, nm

-----------------------------------------------------------------------------
(* findNode *)

IsWalk(F, x, c, name, n) ==
  F = [k \in 0 .. n |-> IF k = 0 THEN [off |-> 0, found |-> NoNode]
                        ELSE Round(x, c, name, F[k - 1])]

\* A directory can be read as far as one likes.
LEMMA WalksUpTo ==
  ASSUME NEW x, NEW c, NEW name, NEW n \in Nat
  PROVE  \E F : IsWalk(F, x, c, name, n)
<1> DEFINE Bad == {m \in Nat : ~ \E F : IsWalk(F, x, c, name, m)}
<1> SUFFICES ASSUME Bad # {} PROVE FALSE
  OBVIOUS
<1>1. PICK m \in Bad : \A j \in Bad : m <= j
  BY LeastOf
<1>2. m # 0
  <2>1. IsWalk([k \in 0 .. 0 |-> [off |-> 0, found |-> NoNode]], x, c, name, 0)
    BY DEF IsWalk
  <2> QED BY <1>1, <2>1
<1>3. m - 1 \in Nat /\ m - 1 \notin Bad
  BY <1>1, <1>2
<1>4. PICK F : IsWalk(F, x, c, name, m - 1)
  BY <1>3
<1> DEFINE G == [k \in 0 .. m |-> IF k < m THEN F[k] ELSE Round(x, c, name, F[m - 1])]
<1>5. \A k \in 0 .. m : G[k] = IF k = 0 THEN [off |-> 0, found |-> NoNode]
                               ELSE Round(x, c, name, G[k - 1])
  BY <1>2, <1>4 DEF IsWalk
<1>6. IsWalk(G, x, c, name, m)
  BY <1>5 DEF IsWalk
<1> QED BY <1>1, <1>6

\* findNode answers what it has when it is at the end.
LEMMA FindNodeIs ==
  ASSUME NEW x, NEW c, NEW name, Field(x, c, Size) \in Nat
  PROVE  \E F : IsWalk(F, x, c, name, Field(x, c, Size))
                /\ FindNode(x, c, name) = F[Field(x, c, Size)].found
<1> DEFINE n == Field(x, c, Size)
           W == CHOOSE F : F = [k \in 0 .. n |-> IF k = 0 THEN [off |-> 0, found |-> NoNode]
                                                 ELSE Round(x, c, name, F[k - 1])]
<1>1. \E F : F = [k \in 0 .. n |-> IF k = 0 THEN [off |-> 0, found |-> NoNode]
                                                 ELSE Round(x, c, name, F[k - 1])]
  <2>1. n \in Nat
    OBVIOUS
  <2> HIDE DEF n
  <2>2. \E F : IsWalk(F, x, c, name, n)
    BY <2>1, WalksUpTo
  <2> QED BY <2>2 DEF IsWalk
<1>2. IsWalk(W, x, c, name, n)
  BY <1>1 DEF IsWalk
<1>3. FindNode(x, c, name) = W[n].found
  BY DEF FindNode
<1> QED BY <1>2, <1>3

\* Where a walk is after k rounds.
Walked(ks, size, name, k, s) ==
  \/ \E m \in 1 .. Len(ks) : ks[m].entry.name = name /\ s.found = ks[m].inode /\ s.found # NoNode
  \/ /\ s.found = NoNode
     /\ \E m \in 0 .. Len(ks) : /\ s.off = NextAt(ks, m, size)
                                /\ \A j \in 1 .. m : ks[j].entry.name # name
                                /\ m = k \/ m = Len(ks)

\* findNode finds an entry of the name, if there is one.
LEMMA FindNodeFinds ==
  ASSUME NEW x, NEW c, NEW name, NEW data \in Seq(Nat), Holds(x, c, data),
         NEW ks, DirShape(ks, Len(data)), \A m \in 1 .. Len(ks) : Listed(data, ks[m])
  PROVE  \/ /\ FindNode(x, c, name) = NoNode
            /\ \A m \in 1 .. Len(ks) : ks[m].entry.name # name
         \/ \E m \in 1 .. Len(ks) : /\ ks[m].entry.name = name
                                    /\ FindNode(x, c, name) = ks[m].inode
                                    /\ FindNode(x, c, name) # NoNode
<1> DEFINE size == Len(data)
<1>1. size \in Nat /\ Field(x, c, Size) = size
  BY DEF Holds
<1>2. PICK F : IsWalk(F, x, c, name, size) /\ FindNode(x, c, name) = F[size].found
  BY <1>1, FindNodeIs
<1>3. /\ F[0] = [off |-> 0, found |-> NoNode]
      /\ \A k \in 1 .. size : F[k] = Round(x, c, name, F[k - 1])
  BY <1>1, <1>2 DEF IsWalk
<1>4. Len(ks) \in Nat /\ Len(ks) <= size
  BY <1>1 DEF DirShape
<1>5. Walked(ks, size, name, 0, F[0])
  BY <1>3, <1>4 DEF Walked, DirShape
<1>6. ASSUME NEW k \in 1 .. size, Walked(ks, size, name, k - 1, F[k - 1])
      PROVE  Walked(ks, size, name, k, F[k])
  <2> DEFINE s == F[k - 1]
  <2>1. F[k] = Round(x, c, name, s)
    BY <1>3
  <2>2. CASE s.found # NoNode
    <3>1. F[k] = s
      BY <2>1, <2>2 DEF Round
    <3> QED BY <3>1, <2>2, <1>6 DEF Walked
  <2>3. CASE s.found = NoNode
    <3>1. PICK m \in 0 .. Len(ks) : /\ s.off = NextAt(ks, m, size)
                                    /\ \A j \in 1 .. m : ks[j].entry.name # name
                                    /\ m = k - 1 \/ m = Len(ks)
      BY <2>3, <1>6 DEF Walked
    <3>2. CASE m = Len(ks)
      <4>1. F[k] = s
        BY <2>1, <1>1, <3>1, <3>2 DEF Round, NextAt
      <4> QED BY <4>1, <3>1, <3>2, <2>3 DEF Walked
    <3>3. CASE m < Len(ks)
      <4>1. m + 1 \in 1 .. Len(ks) /\ s.off = ks[m + 1].at
        BY <3>1, <3>3, <1>4 DEF NextAt
      <4>2. s.off < size
        BY <4>1 DEF DirShape
      <4>3. EntryAt(x, c, s.off) = [inode |-> ks[m + 1].inode, next |-> NextAt(ks, m + 1, size),
                                    name |-> ks[m + 1].entry.name]
        BY <4>1, EntryIs
      <4>4. s.off \in Nat /\ ~(s.off >= size)
        BY <4>1, <4>2, KidIs, <1>1
      <4>5. F[k] = Compared(EntryAt(x, c, s.off), name)
        BY <2>1, <2>3, <4>4, <1>1 DEF Round
      <4>6. F[k].off = NextAt(ks, m + 1, size)
            /\ F[k].found = IF ks[m + 1].entry.name = name THEN ks[m + 1].inode ELSE NoNode
        BY <4>3, <4>5 DEF Compared
      <4>7. CASE ks[m + 1].entry.name = name
        <5>1. ks[m + 1].inode # NoNode
          BY <4>1, KidIs DEF NoNode
        <5> QED BY <4>1, <4>6, <4>7, <5>1 DEF Walked
      <4>8. CASE ks[m + 1].entry.name # name
        <5>1. \A j \in 1 .. m + 1 : ks[j].entry.name # name
          BY <3>1, <4>8
        <5>2. m + 1 = k /\ m + 1 \in 0 .. Len(ks)
          BY <3>1, <3>3, <4>1
        <5> QED BY <4>6, <4>8, <5>1, <5>2 DEF Walked
      <4> QED BY <4>7, <4>8
    <3> QED BY <3>2, <3>3, <1>4
  <2> QED BY <2>2, <2>3
<1>7. Walked(ks, size, name, size, F[size])
  <2> DEFINE Bad == {k \in 0 .. size : ~Walked(ks, size, name, k, F[k])}
  <2> SUFFICES ASSUME Bad # {} PROVE FALSE
    BY <1>1
  <2>1. PICK k \in Bad : \A j \in Bad : k <= j
    BY <1>1, LeastOf, Bad \subseteq Nat
  <2>2. k # 0
    BY <1>5, <2>1
  <2>3. k \in 1 .. size /\ k - 1 \in 0 .. size /\ k - 1 \notin Bad
    BY <2>1, <2>2
  <2> QED BY <2>1, <2>3, <1>6
<1>8. CASE F[size].found = NoNode
  <2>1. ASSUME NEW m \in 0 .. Len(ks), m = size \/ m = Len(ks) PROVE m = Len(ks)
    BY <2>1, <1>4
  <2> QED BY <1>2, <1>7, <1>8, <2>1 DEF Walked
<1>9. CASE F[size].found # NoNode
  BY <1>2, <1>7, <1>9 DEF Walked
<1> QED BY <1>8, <1>9

-----------------------------------------------------------------------------
(* Trees *)

\* What the nodes are for, which is not on the disk: the host directory of each, its
\* entries, and the data of each.
Ghosts == [list : [Inodes -> Listings], kids : [Inodes -> Seq(Kids)], data : [Inodes -> Seq(Nat)]]

\* The entries on the disk are the first p of the host's, without those that are
\* neither file nor directory.
Covers(ks, list, p) ==
  /\ \A m \in 1 .. Len(ks) : ks[m].entry.kind # "other" /\ \E j \in 1 .. p : ks[m].entry = list[j]
  /\ \A j \in 1 .. p : list[j].kind # "other" => \E m \in 1 .. Len(ks) : ks[m].entry = list[j]

GoodDir(g, c, p) ==
  /\ DirShape(g.kids[c], Len(g.data[c]))
  /\ \A m \in 1 .. Len(g.kids[c]) : Listed(g.data[c], g.kids[c][m])
  /\ Covers(g.kids[c], g.list[c], p)

KidOK(x, g, k) ==
  /\ k.inode \in Nodes(x)
  /\ Field(x, k.inode, Links) = 1
  /\ Field(x, k.inode, Type) = IF k.entry.kind = "dir" THEN DIR_TYPE ELSE FILE_TYPE
  /\ k.entry.kind = "dir" => g.list[k.inode] = k.entry.sub

Dirs(x) == {c \in Nodes(x) : Field(x, c, Type) = DIR_TYPE}

\* The disk holds the host directory t.
TreeOK(x, g, t) ==
  /\ g \in Ghosts
  /\ RootInode \in Dirs(x) /\ g.list[RootInode] = t
  /\ \A c \in Dirs(x) : /\ GoodDir(g, c, Len(g.list[c])) /\ Holds(x, c, g.data[c])
                        /\ \A m \in 1 .. Len(g.kids[c]) : KidOK(x, g, g.kids[c][m])

\* The files hold what they hold on the host.
Filled(x, g) ==
  \A c \in Dirs(x) : \A m \in 1 .. Len(g.kids[c]) :
    g.kids[c][m].entry.kind = "file" => Holds(x, g.kids[c][m].inode, g.kids[c][m].entry.data)

\* A node that has not changed holds what it held.
LEMMA HoldsFrame ==
  ASSUME NEW x, NEW y, NEW i, NEW data, Holds(x, i, data), SameNode(x, y, i)
  PROVE  Holds(y, i, data)
BY DEF Holds, HasCells, SameNode, SameFields, SameCells

\* What a call does to a file leaves the tree as it is.
LEMMA TreeKept ==
  ASSUME NEW u, NEW v, NEW q, NEW R, StepOK(u, v, q, R), Field(u, q.file, Type) = FILE_TYPE,
         NEW g, NEW t, TreeOK(u, g, t)
  PROVE  TreeOK(v, g, t)
<1>1. /\ Nodes(v) = Nodes(u)
      /\ \A i \in Nodes(u) : /\ Field(v, i, Type) = Field(u, i, Type)
                             /\ Field(v, i, Links) = Field(u, i, Links)
                             /\ i # q.file => SameNode(u, v, i)
  BY DEF StepOK
<1>2. Dirs(v) = Dirs(u)
  BY <1>1 DEF Dirs
<1>3. ASSUME NEW c \in Dirs(u) PROVE Holds(v, c, g.data[c])
  <2>1. c \in Nodes(u) /\ c # q.file
    BY DEF Dirs, DIR_TYPE, FILE_TYPE
  <2> QED BY <1>1, <2>1, HoldsFrame DEF TreeOK
<1>4. ASSUME NEW k, KidOK(u, g, k) PROVE KidOK(v, g, k)
  BY <1>1, <1>4 DEF KidOK
<1> QED BY <1>2, <1>3, <1>4 DEF TreeOK

-----------------------------------------------------------------------------
(* Paths *)

\* What is known of a host directory.
LEMMA ListingIs ==
  ASSUME NEW list \in Listings
  PROVE  /\ list \in Seq(Entries)
         /\ \A a, b \in 1 .. Len(list) : list[a].name = list[b].name => list[a] = list[b]
         /\ \A e \in ToSet(list) : e \in Entries /\ (e.kind # "dir" => e.sub = <<>>)
         /\ ToSet(list) = {list[j] : j \in 1 .. Len(list)}
<1>1. Listing(list)
  BY ImageBuilderAssumption
<1>2. list \in Seq(Entries) /\ DOMAIN list = 1 .. Len(list)
  BY <1>1 DEF Listing, Entries
<1>3. ToSet(list) = {list[j] : j \in 1 .. Len(list)}
  BY <1>2 DEF ToSet
<1>4. \A a, b \in 1 .. Len(list) : list[a].name = list[b].name => list[a] = list[b]
  BY <1>1, <1>2 DEF Listing
<1>5. \A j \in 1 .. Len(list) : list[j] \in Entries /\ (list[j].kind # "dir" => list[j].sub = <<>>)
  BY <1>1, <1>2 DEF Listing
<1> QED BY <1>2, <1>3, <1>4, <1>5

OnHost(list, name) == {e \in ToSet(list) : e.name = name /\ e.kind # "other"}

\* The entry of that name, if the host directory has one.
LEMMA FindEntry ==
  ASSUME NEW x, NEW g, NEW t, TreeOK(x, g, t), NEW c \in Dirs(x), NEW name
  PROVE  \/ FindNode(x, c, name) = NoNode /\ OnHost(g.list[c], name) = {}
         \/ \E m \in 1 .. Len(g.kids[c]) :
              /\ FindNode(x, c, name) = g.kids[c][m].inode /\ FindNode(x, c, name) # NoNode
              /\ OnHost(g.list[c], name) = {g.kids[c][m].entry}
              /\ KidOK(x, g, g.kids[c][m])
<1> DEFINE ks == g.kids[c]
           list == g.list[c]
<1>1. c \in Inodes /\ list \in Listings /\ g.data[c] \in Seq(Nat)
  BY DEF TreeOK, Ghosts, Dirs, Nodes
<1>2. /\ DirShape(ks, Len(g.data[c])) /\ \A m \in 1 .. Len(ks) : Listed(g.data[c], ks[m])
      /\ Holds(x, c, g.data[c]) /\ \A m \in 1 .. Len(ks) : KidOK(x, g, ks[m])
  BY DEF TreeOK, GoodDir
<1>3. /\ \A m \in 1 .. Len(ks) : ks[m].entry.kind # "other"
                                 /\ \E j \in 1 .. Len(list) : ks[m].entry = list[j]
      /\ \A j \in 1 .. Len(list) : list[j].kind # "other" => \E m \in 1 .. Len(ks) : ks[m].entry = list[j]
  BY DEF TreeOK, GoodDir, Covers
<1>4. /\ \A a, b \in 1 .. Len(list) : list[a].name = list[b].name => list[a] = list[b]
      /\ ToSet(list) = {list[j] : j \in 1 .. Len(list)}
  BY <1>1, ListingIs
<1> HIDE DEF ks, list
<1>6. ASSUME NEW m \in 1 .. Len(ks), ks[m].entry.name = name
      PROVE  OnHost(list, name) = {ks[m].entry}
  <2>1. PICK j \in 1 .. Len(list) : ks[m].entry = list[j]
    BY <1>3
  <2>2. ks[m].entry \in OnHost(list, name)
    BY <2>1, <1>3, <1>4, <1>6 DEF OnHost
  <2>3. ASSUME NEW e \in OnHost(list, name) PROVE e = ks[m].entry
    <3>1. PICK a \in 1 .. Len(list) : e = list[a]
      BY <1>4 DEF OnHost
    <3>2. list[a].name = list[j].name
      BY <2>1, <3>1, <1>6 DEF OnHost
    <3> QED BY <1>4, <2>1, <3>1, <3>2
  <2> QED BY <2>2, <2>3
<1>7. \/ /\ FindNode(x, c, name) = NoNode
         /\ \A m \in 1 .. Len(ks) : ks[m].entry.name # name
      \/ \E m \in 1 .. Len(ks) : /\ ks[m].entry.name = name
                                 /\ FindNode(x, c, name) = ks[m].inode
                                 /\ FindNode(x, c, name) # NoNode
  BY <1>1, <1>2, FindNodeFinds
<1>8. CASE \E m \in 1 .. Len(ks) : /\ ks[m].entry.name = name
                                   /\ FindNode(x, c, name) = ks[m].inode
                                   /\ FindNode(x, c, name) # NoNode
  BY <1>2, <1>6, <1>8 DEF ks, list
<1>9. CASE FindNode(x, c, name) = NoNode /\ \A m \in 1 .. Len(ks) : ks[m].entry.name # name
  <2>1. ASSUME NEW e \in OnHost(list, name) PROVE FALSE
    <3>1. e \in ToSet(list) /\ e.name = name /\ e.kind # "other"
      BY DEF OnHost
    <3>2. PICK j \in 1 .. Len(list) : e = list[j]
      BY <1>4, <3>1
    <3>3. PICK m \in 1 .. Len(ks) : ks[m].entry = list[j]
      BY <1>3, <3>1, <3>2
    <3> QED BY <1>9, <3>1, <3>2, <3>3
  <2>2. OnHost(list, name) = {}
    BY <2>1
  <2> QED BY <1>9, <2>2 DEF list
<1> QED BY <1>7, <1>8, <1>9

\* A path of one name.
LEMMA FindOne ==
  ASSUME NEW x, NEW a
  PROVE  Find(x, <<a>>) = NextNode(x, Root(x), a)
<1> DEFINE p == <<a>>
           IsPath(F) == F = [k \in 0 .. Len(p) |-> IF k = 0 THEN Root(x)
                                                   ELSE NextNode(x, F[k - 1], p[k])]
           F1 == [k \in 0 .. 1 |-> IF k = 0 THEN Root(x) ELSE NextNode(x, Root(x), a)]
           N == CHOOSE F : F = [k \in 0 .. Len(p) |-> IF k = 0 THEN Root(x)
                                                   ELSE NextNode(x, F[k - 1], p[k])]
<1>1. Len(p) = 1 /\ p[1] = a
  OBVIOUS
<1>2. F1 = [k \in 0 .. Len(p) |-> IF k = 0 THEN Root(x) ELSE NextNode(x, F1[k - 1], p[k])]
  <2> HIDE DEF p
  <2>1. \A k \in 0 .. 1 : F1[k] = IF k = 0 THEN Root(x) ELSE NextNode(x, F1[k - 1], p[k])
    BY <1>1
  <2> QED BY <1>1, <2>1
<1>3. N = [k \in 0 .. Len(p) |-> IF k = 0 THEN Root(x) ELSE NextNode(x, N[k - 1], p[k])]
  <2> HIDE DEF F1, p
  <2> QED BY <1>2
<1>4. Find(x, p) = N[Len(p)]
  BY DEF Find
<1> HIDE DEF N, p
<1>5. N[0] = Root(x) /\ N[1] = NextNode(x, N[0], p[1])
  BY <1>1, <1>3
<1> QED BY <1>1, <1>4, <1>5 DEF p

\* A path of two names.
LEMMA FindTwo ==
  ASSUME NEW x, NEW a, NEW b
  PROVE  Find(x, <<a, b>>) = NextNode(x, NextNode(x, Root(x), a), b)
<1> DEFINE p == <<a, b>>
           d == NextNode(x, Root(x), a)
           F1 == [k \in 0 .. 2 |-> IF k = 0 THEN Root(x) ELSE IF k = 1 THEN d ELSE NextNode(x, d, b)]
           N == CHOOSE F : F = [k \in 0 .. Len(p) |-> IF k = 0 THEN Root(x)
                                                   ELSE NextNode(x, F[k - 1], p[k])]
<1>1. Len(p) = 2 /\ p[1] = a /\ p[2] = b
  OBVIOUS
<1>2. F1 = [k \in 0 .. Len(p) |-> IF k = 0 THEN Root(x) ELSE NextNode(x, F1[k - 1], p[k])]
  <2> HIDE DEF p
  <2>1. \A k \in 0 .. 2 : F1[k] = IF k = 0 THEN Root(x) ELSE NextNode(x, F1[k - 1], p[k])
    BY <1>1
  <2> QED BY <1>1, <2>1
<1>3. N = [k \in 0 .. Len(p) |-> IF k = 0 THEN Root(x) ELSE NextNode(x, N[k - 1], p[k])]
  <2> HIDE DEF F1, p
  <2> QED BY <1>2
<1>4. Find(x, p) = N[Len(p)]
  BY DEF Find
<1> HIDE DEF N, p
<1>5. N[0] = Root(x) /\ N[1] = NextNode(x, N[0], p[1]) /\ N[2] = NextNode(x, N[1], p[2])
  BY <1>1, <1>3
<1> QED BY <1>1, <1>4, <1>5 DEF p

Host(path) == {e \in HostEntries(path) : e.kind # "other"}

\* The inode of a path: that of an entry, or none.
Leaf(x, g, i, host) ==
  \/ i = NoNode /\ host = {}
  \/ \E c \in Dirs(x) : \E m \in 1 .. Len(g.kids[c]) :
       /\ i = g.kids[c][m].inode /\ i # NoNode
       /\ host = {g.kids[c][m].entry}
       /\ KidOK(x, g, g.kids[c][m])

\* The name of an entry leads to its node.
LEMMA EntryLeaf ==
  ASSUME NEW x, NEW g, NEW t, TreeOK(x, g, t), NEW c \in Dirs(x), NEW name
  PROVE  Leaf(x, g, FindNode(x, c, name), OnHost(g.list[c], name))
<1>1. CASE FindNode(x, c, name) = NoNode /\ OnHost(g.list[c], name) = {}
  BY <1>1 DEF Leaf
<1>2. CASE \E m \in 1 .. Len(g.kids[c]) :
             /\ FindNode(x, c, name) = g.kids[c][m].inode /\ FindNode(x, c, name) # NoNode
             /\ OnHost(g.list[c], name) = {g.kids[c][m].entry}
             /\ KidOK(x, g, g.kids[c][m])
  BY <1>2 DEF Leaf
<1> QED BY <1>1, <1>2, FindEntry

\* A path leads to the node of what it is on the host.
LEMMA PathFound ==
  ASSUME NEW x, NEW g, NEW path \in Paths, TreeOK(x, g, tree), Root(x) = RootInode
  PROVE  Leaf(x, g, Find(x, path), Host(path))
<1> DEFINE r == RootInode
<1>1. r \in Dirs(x) /\ g.list[r] = tree /\ r # NoNode /\ tree \in Listings
  <2>1. r \in Dirs(x) /\ g.list[r] = tree
    BY DEF TreeOK
  <2>2. r \in Inodes
    BY Layout
  <2>3. tree \in Listings
    BY <2>1, <2>2 DEF TreeOK, Ghosts
  <2> QED BY <2>1, <2>2, <2>3 DEF Inodes, NoNode
<1> HIDE DEF r
<1>2. CASE \E n \in Names : path = <<n>>
  <2>1. PICK n \in Names : path = <<n>>
    BY <1>2
  <2>2. Find(x, path) = FindNode(x, r, n)
    BY <2>1, <1>1, FindOne DEF NextNode, r
  <2>3. Host(path) = OnHost(tree, n)
    <3>1. Len(path) = 1 /\ path[1] = n
      BY <2>1
    <3>2. HostEntries(path) = {e \in ToSet(tree) : e.name = n}
      BY <3>1 DEF HostEntries
    <3> QED BY <3>2 DEF Host, OnHost
  <2> QED BY <2>2, <2>3, <1>1, EntryLeaf
<1>3. CASE \E e \in {e \in ToSet(tree) : e.kind = "dir"}, n \in Names : path = <<e.name, n>>
  <2>1. PICK e \in {e \in ToSet(tree) : e.kind = "dir"}, n \in Names : path = <<e.name, n>>
    BY <1>3
  <2>2. \A f \in ToSet(tree) : f.name = e.name => f = e
    BY <1>1, <2>1, ListingIs
  <2>3. OnHost(tree, e.name) = {e}
    BY <2>1, <2>2 DEF OnHost
  <2> DEFINE d == FindNode(x, r, e.name)
  <2>4. Leaf(x, g, d, OnHost(tree, e.name))
    BY <1>1, EntryLeaf
  <2>5. d \in Dirs(x) /\ g.list[d] = e.sub /\ d # NoNode
    <3> HIDE DEF d
    <3>1. PICK c \in Dirs(x) : \E m \in 1 .. Len(g.kids[c]) :
             /\ d = g.kids[c][m].inode /\ d # NoNode
             /\ {e} = {g.kids[c][m].entry}
             /\ KidOK(x, g, g.kids[c][m])
      BY <2>3, <2>4 DEF Leaf
    <3>2. PICK m \in 1 .. Len(g.kids[c]) :
             /\ d = g.kids[c][m].inode /\ d # NoNode
             /\ {e} = {g.kids[c][m].entry}
             /\ KidOK(x, g, g.kids[c][m])
      BY <3>1
    <3>3. g.kids[c][m].entry = e
      BY <3>2
    <3> QED BY <2>1, <3>2, <3>3 DEF KidOK, Dirs
  <2>6. Find(x, path) = FindNode(x, d, n)
    BY <2>1, <2>5, <1>1, FindTwo DEF NextNode, r
  <2>7. Host(path) = OnHost(e.sub, n)
    <3>1. Len(path) = 2 /\ path[1] = e.name /\ path[2] = n
      BY <2>1
    <3>2. {f \in ToSet(tree) : f.name = e.name} = {e}
      BY <2>1, <2>2
    <3>3. HostEntries(path) = UNION {{f \in ToSet(h.sub) : f.name = n} : h \in {e}}
      BY <3>1, <3>2 DEF HostEntries
    <3>4. HostEntries(path) = {f \in ToSet(e.sub) : f.name = n}
      BY <3>3
    <3> QED BY <3>4 DEF Host, OnHost
  <2> HIDE DEF d
  <2>8. Leaf(x, g, FindNode(x, d, n), OnHost(g.list[d], n))
    BY <2>5, EntryLeaf
  <2> QED BY <2>5, <2>6, <2>7, <2>8
<1> QED BY <1>2, <1>3 DEF Paths

\* The kernel finds what the builder read from the host.
LEMMA TreeIsFound ==
  ASSUME NEW g, TreeOK(disk, g, tree), Root(disk) = RootInode, calls = 0 => Filled(disk, g),
         NEW path \in Paths, NEW i, i = Find(disk, path)
  PROVE  /\ Host(path) = {} <=> i = NoNode
         /\ \A e \in Host(path) :
              /\ Field(disk, i, Type) = (IF e.kind = "dir" THEN DIR_TYPE ELSE FILE_TYPE)
              /\ Field(disk, i, Links) = 1
              /\ BitIsSet(disk, InodeBitmapBase, i)
              /\ e.kind = "file" /\ calls = 0 =>
                   /\ Field(disk, i, Size) = Len(e.data)
                   /\ \A o \in 1 .. Len(e.data) : CellOf(disk, i, o - 1) = e.data[o]
<1>1. Leaf(disk, g, i, Host(path))
  BY PathFound
<1>2. CASE i = NoNode /\ Host(path) = {}
  BY <1>2
<1>3. ASSUME NEW c \in Dirs(disk), NEW m \in 1 .. Len(g.kids[c]),
             i = g.kids[c][m].inode, i # NoNode, Host(path) = {g.kids[c][m].entry},
             KidOK(disk, g, g.kids[c][m])
      PROVE  /\ Host(path) = {} <=> i = NoNode
             /\ \A e \in Host(path) :
              /\ Field(disk, i, Type) = (IF e.kind = "dir" THEN DIR_TYPE ELSE FILE_TYPE)
              /\ Field(disk, i, Links) = 1
              /\ BitIsSet(disk, InodeBitmapBase, i)
              /\ e.kind = "file" /\ calls = 0 =>
                   /\ Field(disk, i, Size) = Len(e.data)
                   /\ \A o \in 1 .. Len(e.data) : CellOf(disk, i, o - 1) = e.data[o]
  <2>1. Host(path) # {} /\ \A e \in Host(path) : e = g.kids[c][m].entry
    BY <1>3
  <2>2. /\ Field(disk, i, Type) = (IF g.kids[c][m].entry.kind = "dir" THEN DIR_TYPE ELSE FILE_TYPE)
        /\ Field(disk, i, Links) = 1
        /\ BitIsSet(disk, InodeBitmapBase, i)
    BY <1>3 DEF KidOK, Nodes
  <2>3. g.kids[c][m].entry.kind = "file" /\ calls = 0 => Holds(disk, i, g.kids[c][m].entry.data)
    BY <1>3 DEF Filled
  <2> QED BY <1>3, <2>1, <2>2, <2>3 DEF Holds, HasCells
<1> QED BY <1>1, <1>2, <1>3 DEF Leaf

\* What a file is opened by leads to a file.
LEMMA FileFound ==
  ASSUME NEW x, NEW g, TreeOK(x, g, tree), Root(x) = RootInode, NEW path \in FilePaths
  PROVE  Find(x, path) \in Nodes(x) /\ Field(x, Find(x, path), Type) = FILE_TYPE
<1>1. tree \in Listings
  BY Layout DEF TreeOK, Ghosts
<1>2. path \in Paths /\ \E f \in HostEntries(path) : f.kind = "file"
  <2>1. ASSUME NEW e \in ToSet(tree), e.kind = "file", path = <<e.name>>
        PROVE  path \in Paths /\ \E f \in HostEntries(path) : f.kind = "file"
    <3>1. e.name \in Names
      BY <2>1 DEF Names
    <3>2. Len(path) = 1 /\ path[1] = e.name
      BY <2>1
    <3>3. e \in HostEntries(path)
      BY <3>2 DEF HostEntries
    <3> QED BY <2>1, <3>1, <3>3 DEF Paths
  <2>2. ASSUME NEW e \in ToSet(tree), NEW f \in ToSet(e.sub), f.kind = "file", path = <<e.name, f.name>>
        PROVE  path \in Paths /\ \E h \in HostEntries(path) : h.kind = "file"
    <3>1. e.kind = "dir"
      <4>1. e.kind # "dir" => e.sub = <<>>
        BY <1>1, ListingIs
      <4> QED BY <4>1, <2>2 DEF ToSet
    <3>2. f.name \in Names
      BY <2>2 DEF Names
    <3>3. Len(path) = 2 /\ path[1] = e.name /\ path[2] = f.name
      BY <2>2
    <3>4. f \in HostEntries(path)
      BY <3>3 DEF HostEntries
    <3> QED BY <2>2, <3>1, <3>2, <3>4 DEF Paths
  <2> QED BY <2>1, <2>2 DEF FilePaths
<1>3. Leaf(x, g, Find(x, path), Host(path))
  BY <1>2, PathFound
<1>4. PICK f \in HostEntries(path) : f.kind = "file"
  BY <1>2
<1>5. f \in Host(path)
  <2>1. f.kind # "other"
    BY <1>4
  <2> QED BY <1>4, <2>1 DEF Host
<1>6. PICK c \in Dirs(x) : \E m \in 1 .. Len(g.kids[c]) :
        /\ Find(x, path) = g.kids[c][m].inode
        /\ Host(path) = {g.kids[c][m].entry}
        /\ KidOK(x, g, g.kids[c][m])
  BY <1>3, <1>5 DEF Leaf
<1>7. PICK m \in 1 .. Len(g.kids[c]) :
        /\ Find(x, path) = g.kids[c][m].inode
        /\ Host(path) = {g.kids[c][m].entry}
        /\ KidOK(x, g, g.kids[c][m])
  BY <1>6
<1>8. g.kids[c][m].entry.kind = "file"
  BY <1>4, <1>5, <1>7
<1> QED BY <1>7, <1>8 DEF KidOK

-----------------------------------------------------------------------------
(* The invariant of the kernel *)

FilesOf(x) == {i \in Nodes(x) : Field(x, i, Type) = FILE_TYPE}

\* The write that is in progress: what is pending will put it on the disk as far as
\* "done", if the file is not refused a block.
WriteCall ==
  /\ request.file \in FilesOf(disk) /\ request.off \in Nat
  /\ request.data \in Seq(Nat) /\ request.data # <<>>
  /\ done \in 0 .. Len(request.data)
  /\ \E y : /\ Leads(disk, pending, y, request, refused)
            /\ request.file \notin refused =>
                 /\ Wrote(y, request, done)
                 /\ done > 0 => Field(y, request.file, Size) >= request.off + done

\* A read writes no data.
ReadOf(i) == [file |-> i, off |-> 0, data |-> <<>>]

ReadCall ==
  /\ reading \in [file : FilesOf(disk), off : Nat, asked : Nat, data : Seq(Nat)]
  /\ Len(reading.data) <= reading.asked
  /\ \E y : Leads(disk, pending, y, ReadOf(reading.file), refused)
  /\ reading.file \notin refused =>
       /\ Wrote(disk, reading, Len(reading.data))
       /\ Len(reading.data) > 0 =>
            reading.off + Len(reading.data) <= Field(disk, reading.file, Size)

DiskOK ==
  /\ Sound(disk)
  /\ \E g : TreeOK(disk, g, tree) /\ (calls = 0 => Filled(disk, g))
  /\ refused = {} => Superblock(disk)

CallOK ==
  /\ pending \in Seq(Write) /\ refused \in SUBSET Int
  /\ request = NoRequest \/ reading = NoRead
  /\ request # NoRequest => WriteCall
  /\ reading # NoRead => ReadCall
  /\ request = NoRequest /\ reading = NoRead => pending = <<>>

\* What holds of any image.
PhaseOK ==
  /\ phase \in {"build", "off", "up"} /\ calls \in Nat
  /\ phase # "up" => request = NoRequest /\ reading = NoRead /\ pending = <<>>
  /\ phase = "build" => refused = {} /\ calls = 0
  /\ request # NoRequest \/ reading # NoRead => calls > 0

\* What the builder leaves behind.
BuilderDone ==
  Built /\ Fits => /\ Sound(image.img) /\ Superblock(image.img)
                   /\ \E g : TreeOK(image.img, g, tree) /\ Filled(image.img, g)

KernelOK == phase # "build" /\ Fits => DiskOK /\ CallOK

\* PhaseOK at the beginning.
LEMMA PhaseInit == Init => PhaseOK
BY DEF Init, PhaseOK

\* PhaseOK is inductive.
LEMMA PhaseStep == PhaseOK /\ [Next]_vars => PhaseOK'
<1> SUFFICES ASSUME PhaseOK, [Next]_vars PROVE PhaseOK'
  OBVIOUS
<1> USE DEF PhaseOK
<1>1. CASE phase = "build" /\ Build /\ UNCHANGED <<phase, driveEnd, offs, kernelVars>>
  BY <1>1 DEF kernelVars
<1>2. CASE Attach
  BY <1>2 DEF Attach
<1>3. CASE Mount
  BY <1>3 DEF Mount, kernelVars
<1>4. ASSUME NEW path, NEW off, NEW data, WriteFile(path, off, data) PROVE PhaseOK'
  BY <1>4 DEF WriteFile, Idle
<1>5. ASSUME NEW path, NEW off, NEW n, ReadFile(path, off, n) PROVE PhaseOK'
  BY <1>5 DEF ReadFile, Idle
<1>6. CASE WriteOneRound
  BY <1>6 DEF WriteOneRound
<1>7. CASE WriteReturns
  BY <1>7 DEF WriteReturns
<1>8. CASE ReadOneRound
  BY <1>8 DEF ReadOneRound, NoRead
<1>9. CASE ReadReturns
  BY <1>9 DEF ReadReturns
<1>10. CASE SectorWritten
  BY <1>10 DEF SectorWritten
<1>11. CASE DriveError
  BY <1>11 DEF DriveError, Down
<1>12. CASE SwitchOff
  BY <1>12 DEF SwitchOff, Down
<1>13. CASE UNCHANGED vars
  BY <1>13 DEF vars, kernelVars
<1> QED BY <1>1, <1>2, <1>3, <1>4, <1>5, <1>6, <1>7, <1>8, <1>9, <1>10, <1>11, <1>12, <1>13 DEF Next

\* The lesser of two numbers.
LEMMA MinOfTwo ==
  ASSUME NEW a \in Int, NEW b \in Int
  PROVE  Min({a, b}) = IF a <= b THEN a ELSE b
BY DEF Min

-----------------------------------------------------------------------------
(* The steps of the kernel *)

\* Nothing is pending: the disk is where the call has led.
LEMMA NothingPending ==
  ASSUME NEW x, NEW y, NEW q, NEW R, Leads(x, <<>>, y, q, R)
  PROVE  y = x
BY DEF Leads

\* One sequence after another.
LEMMA ConcatIs ==
  ASSUME NEW s \in Seq(Nat), NEW t \in Seq(Nat)
  PROVE  /\ s \o t \in Seq(Nat) /\ Len(s \o t) = Len(s) + Len(t)
         /\ \A j \in 1 .. Len(s) : (s \o t)[j] = s[j]
         /\ \A j \in 1 .. Len(s) + Len(t) : j > Len(s) => (s \o t)[j] = t[j - Len(s)]
OBVIOUS

\* A call begins with a sound disk and no writes of its own.
LEMMA CalmBefore ==
  ASSUME Sound(disk), refused \in SUBSET Int, NEW q, q.file \in Nodes(disk)
  PROVE  Calm(disk, Before, q) /\ Before.refused = refused /\ Before.img = disk
<1>1. disk \in Img
  BY DEF Sound
<1>2. Before \in Disks
  BY <1>1 DEF Before, Disks
<1>3. Leads(disk, <<>>, disk, q, refused)
  BY <1>1, LeadsEmpty
<1> QED BY <1>2, <1>3, QuietRefl DEF Calm, Before

\* A round of writeAll: what it will write leads from one sound disk to the next.
LEMMA WriteOneRoundOK ==
  ASSUME DiskOK, CallOK, WriteOneRound
  PROVE  DiskOK' /\ CallOK' /\ refused \subseteq refused'
<1> DEFINE off == request.off + done
           n   == PieceLength(off, Len(request.data) - done, SectorSize)
           w   == WritePiece(Before, request.file, off, SubSeq(request.data, done + 1, done + n))
<1>1. WriteCall /\ request # NoRequest /\ reading = NoRead /\ Sound(disk)
      /\ pending = <<>> /\ done < Len(request.data) /\ refused \in SUBSET Int
  BY DEF CallOK, DiskOK, WriteOneRound
<1>2. /\ request.file \in Nodes(disk) /\ request.off \in Nat /\ request.data \in Seq(Nat)
      /\ done \in Nat /\ Len(request.data) \in Nat /\ request.data # <<>>
      /\ done + 1 <= Len(request.data)
  BY <1>1 DEF WriteCall, FilesOf
<1>3. request.file \notin refused => Wrote(disk, request, done)
  BY <1>1, NothingPending DEF WriteCall
<1>4. n \in Nat /\ n > 0 /\ n <= Len(request.data) - done /\ (off % BlockSize) + n <= BlockSize
  <2>1. off \in Nat /\ Len(request.data) - done \in Nat /\ Len(request.data) - done > 0
    BY <1>2
  <2> HIDE DEF off
  <2> QED BY <2>1, PieceIs
<1>5. /\ pending' = w.log /\ refused' = w.refused /\ done' = done + n
      /\ UNCHANGED <<disk, request, reading, tree, image, calls>>
  BY DEF WriteOneRound, builderVars
<1> HIDE DEF n
<1>6. WriteOf(disk, request, done, n)
  BY <1>2, <1>4 DEF WriteOf
<1>7. Calm(disk, Before, request) /\ Before.refused = refused
  BY <1>1, <1>2, CalmBefore
<1>8. /\ Stage(disk, w, request, done + n) /\ refused \subseteq w.refused
      /\ Field(w.img, request.file, Size) >= request.off + (done + n)
  BY <1>3, <1>6, <1>7, WritePieceIs
<1> HIDE DEF w
<1>9. /\ w.log \in Seq(Write) /\ w.refused \in SUBSET Int
      /\ Leads(disk, w.log, w.img, request, w.refused)
      /\ request.file \notin w.refused => Wrote(w.img, request, done + n)
  BY <1>8 DEF Stage, Disks
<1>10. done + n \in 0 .. Len(request.data)
  BY <1>2, <1>4
<1>11. WriteCall'
  <2>1. (FilesOf(disk) = FilesOf(disk)')
    BY <1>5 DEF FilesOf, Nodes, Field, FieldAt, BitIsSet
  <2>2. Leads(disk', pending', w.img, request', refused')
    BY <1>5, <1>9
  <2>3. request'.file \notin refused' =>
          Wrote(w.img, request', done') /\ Field(w.img, request'.file, Size) >= request'.off + done'
    BY <1>5, <1>8, <1>9
  <2>4. request'.file \in FilesOf(disk)'
    BY <1>1, <1>5, <2>1 DEF WriteCall
  <2>5. done' \in 0 .. Len(request'.data) /\ request' = request
    BY <1>5, <1>10
  <2> QED BY <1>2, <2>2, <2>3, <2>4, <2>5 DEF WriteCall
<1>12. DiskOK'
  BY <1>5, <1>8 DEF DiskOK
<1>13. CallOK'
  BY <1>1, <1>5, <1>9, <1>11 DEF CallOK
<1> QED BY <1>5, <1>8, <1>12, <1>13

\* A round of readAll, which may allocate a block.
LEMMA ReadOneRoundOK ==
  ASSUME DiskOK, CallOK, ReadOneRound
  PROVE  DiskOK' /\ CallOK' /\ refused \subseteq refused'
<1> DEFINE f   == reading.file
           len == Len(reading.data)
           off == reading.off + len
           n   == PieceLength(off, Left, SectorSize)
           r   == ReadPiece(Before, f, off, n)
<1>1. ReadCall /\ reading # NoRead /\ request = NoRequest /\ Sound(disk)
      /\ pending = <<>> /\ refused \in SUBSET Int /\ Left > 0
  BY DEF CallOK, DiskOK, ReadOneRound
<1>2. /\ f \in Nodes(disk) /\ f \in FilesOf(disk) /\ reading.off \in Nat /\ reading.data \in Seq(Nat)
      /\ reading.asked \in Nat /\ len \in Nat /\ len <= reading.asked
      /\ Field(disk, f, Size) \in Nat
  <2>1. /\ f \in Nodes(disk) /\ f \in FilesOf(disk) /\ reading.off \in Nat /\ reading.data \in Seq(Nat)
        /\ reading.asked \in Nat /\ len <= reading.asked
    BY <1>1 DEF ReadCall, FilesOf
  <2>2. disk \in Img /\ f \in Inodes /\ Size \in Fields
    BY <1>1, <2>1 DEF Sound, Nodes, Fields
  <2>3. Field(disk, f, Size) \in Nat
    BY <2>2, FieldIs
  <2> QED BY <2>1, <2>3
<1>3. Left = Min({reading.asked - len, Field(disk, f, Size) - off})
  BY DEF Left
<1> HIDE DEF f, len
<1>4. off \in Nat
  BY <1>2
<1>5. Left \in Nat /\ Left <= reading.asked - len /\ Left <= Field(disk, f, Size) - off
  <2>1. reading.asked - len \in Int /\ Field(disk, f, Size) - off \in Int
    BY <1>2, <1>4
  <2>2. Left = IF reading.asked - len <= Field(disk, f, Size) - off THEN reading.asked - len
               ELSE Field(disk, f, Size) - off
    BY <1>3, <2>1, MinOfTwo
  <2> QED BY <1>1, <2>1, <2>2
<1>6. n \in Nat /\ n > 0 /\ n <= Left /\ (off % BlockSize) + n <= BlockSize
  <2> HIDE DEF off
  <2> QED BY <1>1, <1>4, <1>5, PieceIs
<1>7. /\ reading' = [reading EXCEPT !.data = @ \o r.got]
      /\ pending' = r.D.log /\ refused' = r.D.refused
      /\ UNCHANGED <<disk, request, done, tree, image, calls>>
  BY DEF ReadOneRound, builderVars, f, len
<1> HIDE DEF n, off
<1> DEFINE q == ReadOf(f)
<1>8. Calm(disk, Before, q) /\ Before.refused = refused
  BY <1>1, <1>2, CalmBefore DEF ReadOf
<1>9. /\ Calm(disk, r.D, q) /\ refused \subseteq r.D.refused
      /\ r.got \in Seq(Nat) /\ Len(r.got) = n
      /\ f \notin r.D.refused =>
           \A j \in 1 .. n : /\ off + j - 1 \in FileCells
                             /\ r.got[j] = CellOf(disk, f, off + j - 1)
  <2> HIDE DEF q
  <2> QED BY <1>2, <1>4, <1>6, <1>8, ReadPieceIs
<1> HIDE DEF r
<1>10. r.D.log \in Seq(Write) /\ r.D.refused \in SUBSET Int
       /\ Leads(disk, r.D.log, r.D.img, q, r.D.refused)
  BY <1>9 DEF Calm, Disks
<1>11. /\ reading' \in [file : FilesOf(disk), off : Nat, asked : Nat, data : Seq(Nat)]
       /\ reading'.file = f /\ reading'.off = reading.off /\ reading'.asked = reading.asked
       /\ reading'.data = reading.data \o r.got
       /\ Len(reading'.data) = len + n
  <2>1. reading \in [file : FilesOf(disk), off : Nat, asked : Nat, data : Seq(Nat)]
    BY <1>1 DEF ReadCall
  <2>2. reading.data \o r.got \in Seq(Nat) /\ Len(reading.data \o r.got) = len + n
    BY <1>2, <1>9, ConcatIs DEF len
  <2> QED BY <2>1, <2>2, <1>7 DEF f
<1>12. len + n <= reading.asked /\ reading.off + (len + n) <= Field(disk, f, Size)
  BY <1>2, <1>5, <1>6 DEF off
<1>13. ASSUME f \notin r.D.refused PROVE Wrote(disk, reading', len + n)
  <2>1. Wrote(disk, reading, len)
    BY <1>1, <1>9, <1>13 DEF ReadCall, f, len
  <2>2. ASSUME NEW j \in 1 .. len + n
        PROVE  /\ reading.off + j - 1 \in FileCells
               /\ CellOf(disk, f, reading.off + j - 1) = (reading.data \o r.got)[j]
    <3>1. CASE j <= len
      <4>1. j \in 1 .. len
        BY <1>2, <3>1
      <4>2. (reading.data \o r.got)[j] = reading.data[j]
        BY <1>2, <1>9, <4>1, ConcatIs DEF len
      <4> QED BY <2>1, <4>1, <4>2 DEF Wrote, f
    <3>2. CASE ~(j <= len)
      <4>1. j - len \in 1 .. n /\ off + (j - len) - 1 = reading.off + j - 1
        BY <1>2, <1>6, <3>2 DEF off
      <4>2. (reading.data \o r.got)[j] = r.got[j - len]
        <5>1. j \in 1 .. Len(reading.data) + Len(r.got) /\ j > Len(reading.data)
          BY <1>2, <1>6, <1>9, <3>2 DEF len
        <5> QED BY <1>2, <1>9, <5>1, ConcatIs DEF len
      <4> QED BY <1>9, <1>13, <4>1, <4>2
    <3> QED BY <3>1, <3>2
  <2> QED BY <2>2, <1>11 DEF Wrote
<1>14. ReadCall'
  <2>1. (FilesOf(disk) = FilesOf(disk)')
    BY <1>7 DEF FilesOf, Nodes, Field, FieldAt, BitIsSet
  <2>2. Leads(disk', pending', r.D.img, ReadOf(reading'.file), refused')
    BY <1>7, <1>10, <1>11
  <2>3. Field(disk, f, Size) = Field(disk', f, Size) /\ disk' = disk
    BY <1>7
  <2>4. f \notin refused' => Wrote(disk', reading', Len(reading'.data))
    BY <1>7, <1>11, <1>13
  <2> QED BY <2>1, <2>2, <2>3, <2>4, <1>11, <1>12 DEF ReadCall
<1>15. DiskOK'
  BY <1>1, <1>7, <1>9 DEF DiskOK
<1>16. reading' # NoRead
  <2>1. f # NoNode
    BY <1>2 DEF Nodes, Inodes, NoNode
  <2> QED BY <1>11, <2>1 DEF NoRead
<1>17. CallOK'
  BY <1>1, <1>7, <1>10, <1>14, <1>16 DEF CallOK
<1> QED BY <1>7, <1>9, <1>15, <1>17

\* The call in progress.
Call == IF reading # NoRead THEN ReadOf(reading.file) ELSE request

\* No step of a call makes or removes a file.
LEMMA FilesKept ==
  ASSUME NEW u, NEW v, NEW q, NEW R, StepOK(u, v, q, R)
  PROVE  FilesOf(v) = FilesOf(u)
BY DEF StepOK, FilesOf

\* A step of a read changes no file that has not been refused a block.
LEMMA ReadStep ==
  ASSUME NEW u, NEW v, NEW i, NEW R, StepOK(u, v, ReadOf(i), R), i \notin R
  PROVE  SameNode(u, v, i)
<1>1. ReadOf(i).file = i /\ ReadOf(i).data = <<>> /\ Len(<<>>) = 0
  BY DEF ReadOf
<1>2. 1 .. 0 = {}
  OBVIOUS
<1>3. ~PutStep(u, v, ReadOf(i)) /\ ~ExtendStep(u, v, ReadOf(i))
  BY <1>1, <1>2 DEF PutStep, ExtendStep
<1> QED BY <1>1, <1>3 DEF StepOK

\* The superblock is in the cells before the first bitmap.
LEMMA SuperblockFrame ==
  ASSUME NEW x, NEW y, SameHead(x, y), Superblock(x)
  PROVE  Superblock(y)
<1>1. y[0] = x[0] /\ y[1] = x[1] /\ y[2] = x[2]
  BY Layout DEF SameHead
<1> QED BY <1>1 DEF Superblock, ReadCells, Root, RootAt

\* One sector write reaches the disk.
LEMMA SectorWrittenOK ==
  ASSUME DiskOK, CallOK, PhaseOK, SectorWritten
  PROVE  DiskOK' /\ CallOK'
<1>1. /\ pending # <<>> /\ pending \in Seq(Write) /\ refused \in SUBSET Int
      /\ disk' = Overlay(disk, Head(pending).at, Head(pending).cells)
      /\ pending' = Tail(pending)
      /\ UNCHANGED <<tree, image, request, done, reading, refused, calls>>
  BY DEF SectorWritten, CallOK, builderVars
<1>2. request # NoRequest \/ reading # NoRead
  BY <1>1 DEF CallOK
<1> DEFINE q == Call
<1>3. /\ q.file \in FilesOf(disk)
      /\ \E y : Leads(disk, pending, y, q, refused)
  <2>1. CASE reading # NoRead
    BY <2>1 DEF CallOK, ReadCall, Call, ReadOf
  <2>2. CASE reading = NoRead
    BY <2>2, <1>2 DEF CallOK, WriteCall, Call
  <2> QED BY <2>1, <2>2
<1> HIDE DEF q
<1>4. ASSUME NEW y, Leads(disk, pending, y, q, refused)
      PROVE  StepOK(disk, disk', q, refused) /\ Leads(disk', pending', y, q, refused)
  BY <1>1, <1>4, LeadsFirst
<1>5. StepOK(disk, disk', q, refused)
  BY <1>3, <1>4
<1>6. FilesOf(disk') = FilesOf(disk) /\ Sound(disk') /\ Nodes(disk') = Nodes(disk)
  BY <1>5, FilesKept DEF StepOK
<1>7. DiskOK'
  <2>1. PICK g : TreeOK(disk, g, tree)
    BY DEF DiskOK
  <2>2. TreeOK(disk', g, tree)
    BY <1>3, <1>5, <2>1, TreeKept DEF FilesOf
  <2>3. calls' # 0
    BY <1>1, <1>2 DEF PhaseOK
  <2>4. refused' = {} => Superblock(disk')
    <3> SUFFICES ASSUME refused = {} PROVE Superblock(disk')
      BY <1>1
    <3>1. SameHead(disk, disk')
      BY <1>5 DEF StepOK
    <3> QED BY <3>1, SuperblockFrame DEF DiskOK
  <2>5. tree' = tree
    BY <1>1
  <2> QED BY <1>6, <2>2, <2>3, <2>4, <2>5 DEF DiskOK
<1>8. pending' \in Seq(Write) /\ refused' \in SUBSET Int
  BY <1>1
<1>9. CASE reading = NoRead
  <2>1. WriteCall /\ q = request /\ request # NoRequest
    BY <1>2, <1>9 DEF CallOK, Call, q
  <2>2. PICK y : /\ Leads(disk, pending, y, request, refused)
                 /\ request.file \notin refused =>
                      /\ Wrote(y, request, done)
                      /\ done > 0 => Field(y, request.file, Size) >= request.off + done
    BY <2>1 DEF WriteCall
  <2>3. Leads(disk', pending', y, request, refused)
    BY <1>4, <2>1, <2>2
  <2>4. /\ request' = request /\ done' = done /\ refused' = refused
        /\ request'.file \in FilesOf(disk') /\ request'.off \in Nat /\ request'.data \in Seq(Nat)
        /\ request'.data # <<>> /\ done' \in 0 .. Len(request'.data)
    BY <1>1, <1>3, <1>6, <2>1 DEF WriteCall
  <2>5. WriteCall'
    <3>1. Leads(disk', pending', y, request', refused')
      BY <2>3, <2>4
    <3>2. request'.file \notin refused' =>
                 /\ Wrote(y, request', done')
                 /\ done' > 0 => Field(y, request'.file, Size) >= request'.off + done'
      BY <2>2, <2>4
    <3> QED BY <3>1, <3>2, <2>4 DEF WriteCall
  <2> QED BY <1>1, <1>7, <1>8, <1>9, <2>1, <2>4, <2>5 DEF CallOK
<1>10. CASE reading # NoRead
  <2>1. ReadCall /\ request = NoRequest /\ q = ReadOf(reading.file)
    BY <1>10 DEF CallOK, Call, q
  <2>2. PICK y : Leads(disk, pending, y, q, refused)
    BY <1>3
  <2>3. Leads(disk', pending', y, ReadOf(reading'.file), refused')
    BY <1>1, <1>4, <2>1, <2>2
  <2>4. reading'.file \notin refused' =>
       /\ Wrote(disk', reading', Len(reading'.data))
       /\ Len(reading'.data) > 0 =>
            reading'.off + Len(reading'.data) <= Field(disk', reading'.file, Size)
    <3> SUFFICES ASSUME reading.file \notin refused
                 PROVE  /\ Wrote(disk', reading, Len(reading.data))
                        /\ Len(reading.data) > 0 =>
                             reading.off + Len(reading.data) <= Field(disk', reading.file, Size)
      BY <1>1
    <3>1. SameNode(disk, disk', reading.file)
      BY <1>5, <2>1, ReadStep
    <3> QED BY <2>1, <3>1, WroteKept DEF ReadCall, SameNode, SameFields
  <2>5. /\ reading' = reading
        /\ reading' \in [file : FilesOf(disk'), off : Nat, asked : Nat, data : Seq(Nat)]
        /\ Len(reading'.data) <= reading'.asked
    BY <1>1, <1>6, <2>1 DEF ReadCall
  <2>6. ReadCall'
    BY <2>3, <2>4, <2>5 DEF ReadCall
  <2> QED BY <1>1, <1>7, <1>8, <1>10, <2>1, <2>5, <2>6 DEF CallOK
<1> QED BY <1>7, <1>9, <1>10

\* A call begins: its path leads to a file.
LEMMA BeginsOK ==
  ASSUME DiskOK, CallOK, NEW path \in FilePaths, NEW off \in Offsets, NEW data \in Chunks,
         WriteFile(path, off, data) \/ ReadFile(path, off, Len(data)), PhaseOK
  PROVE  DiskOK' /\ CallOK'
<1> DEFINE i == Find(disk, path)
<1>1. Superblock(disk) /\ Sound(disk) /\ disk \in Img /\ request = NoRequest /\ reading = NoRead /\ pending = <<>>
      /\ refused \in SUBSET Int
  BY DEF WriteFile, ReadFile, Idle, DiskOK, Sound, CallOK
<1>2. i \in FilesOf(disk) /\ i # NoNode
  <2>1. Root(disk) = RootInode
    BY <1>1 DEF Superblock
  <2>2. i \in FilesOf(disk)
    BY <2>1, FileFound DEF DiskOK, FilesOf
  <2> QED BY <2>2 DEF FilesOf, Nodes, Inodes, NoNode
<1> HIDE DEF i
<1>3. off \in Nat /\ data \in Seq(Nat) /\ data # <<>> /\ Len(data) \in Nat
  BY FileSystemAssumption
<1>4. UNCHANGED <<tree, image, disk, pending, refused>> /\ calls' = calls + 1
  BY DEF WriteFile, ReadFile, builderVars
<1>5. DiskOK'
  BY <1>4 DEF DiskOK, PhaseOK
<1>6. (FilesOf(disk) = FilesOf(disk)')
  BY <1>4 DEF FilesOf, Nodes, Field, FieldAt, BitIsSet
<1>7. CASE WriteFile(path, off, data)
  <2>1. request' = [file |-> i, off |-> off, data |-> data] /\ done' = 0 /\ reading' = reading
    BY <1>7 DEF WriteFile, i
  <2>2. Leads(disk', pending', disk, request', refused')
    BY <1>1, <1>4, LeadsEmpty
  <2>3. Wrote(disk, request', 0)
    BY DEF Wrote
  <2>4. WriteCall'
    BY <1>2, <1>3, <1>6, <2>1, <2>2, <2>3 DEF WriteCall
  <2>5. request' # NoRequest
    BY <1>2, <2>1 DEF NoRequest
  <2> QED BY <1>1, <1>4, <1>5, <2>1, <2>4, <2>5 DEF CallOK
<1>8. CASE ReadFile(path, off, Len(data))
  <2>1. reading' = [file |-> i, off |-> off, asked |-> Len(data), data |-> <<>>]
        /\ request' = request
    BY <1>8 DEF ReadFile, i
  <2>2. Leads(disk', pending', disk, ReadOf(reading'.file), refused')
    BY <1>1, <1>4, LeadsEmpty
  <2>3. Wrote(disk', reading', 0) /\ Len(reading'.data) = 0
    BY <2>1 DEF Wrote
  <2>4. ReadCall'
    BY <1>2, <1>3, <1>6, <2>1, <2>2, <2>3 DEF ReadCall
  <2>5. reading' # NoRead
    BY <1>2, <2>1 DEF NoRead
  <2> QED BY <1>1, <1>4, <1>5, <2>1, <2>4, <2>5 DEF CallOK
<1> QED BY <1>7, <1>8

\* What is pending is lost; the disk stays as it is.
LEMMA DownOK ==
  ASSUME DiskOK, refused \in SUBSET Int, Down
  PROVE  DiskOK' /\ CallOK'
<1>1. /\ UNCHANGED <<tree, image, disk, refused, calls>>
      /\ pending' = <<>> /\ request' = NoRequest /\ reading' = NoRead
  BY DEF Down, builderVars
<1>2. DiskOK'
  BY <1>1 DEF DiskOK
<1> QED BY <1>1, <1>2 DEF CallOK

\* The kernel's disk is what the builder has left.
LEMMA AttachOK ==
  ASSUME BuilderDone, Fits, PhaseOK, Attach
  PROVE  DiskOK' /\ CallOK'
<1>1. /\ disk' = image.img /\ Built /\ phase = "build"
      /\ UNCHANGED <<tree, pending, request, reading, refused, calls>>
  BY DEF Attach, builderVars
<1>2. PICK g : TreeOK(image.img, g, tree) /\ Filled(image.img, g)
  BY <1>1 DEF BuilderDone
<1>3. DiskOK'
  <2>1. Sound(disk') /\ Superblock(disk')
    BY <1>1 DEF BuilderDone
  <2>2. TreeOK(disk', g, tree') /\ Filled(disk', g)
    BY <1>1, <1>2
  <2> QED BY <2>1, <2>2 DEF DiskOK
<1>4. request' = NoRequest /\ reading' = NoRead /\ pending' = <<>> /\ refused' = {}
  BY <1>1 DEF PhaseOK
<1> QED BY <1>3, <1>4 DEF CallOK

\* A call returns.
LEMMA ReturnsOK ==
  ASSUME DiskOK, CallOK, WriteReturns \/ ReadReturns
  PROVE  DiskOK' /\ CallOK'
<1>1. /\ UNCHANGED <<tree, image, disk, refused, calls, pending>> /\ pending = <<>>
      /\ request' = NoRequest /\ reading' = NoRead
  BY DEF WriteReturns, ReadReturns, builderVars, CallOK
<1>2. DiskOK'
  BY <1>1 DEF DiskOK
<1> QED BY <1>1, <1>2 DEF CallOK

\* The kernel's invariant is inductive, given what the builder leaves.
LEMMA KernelStep ==
  ASSUME PhaseOK, BuilderDone, KernelOK, [Next]_vars
  PROVE  KernelOK'
<1> SUFFICES ASSUME phase' # "build", Fits' PROVE DiskOK' /\ CallOK'
  BY DEF KernelOK
<1>1. CASE phase = "build" /\ Build /\ UNCHANGED <<phase, driveEnd, offs, kernelVars>>
  BY <1>1
<1>2. CASE Attach
  <2>1. Fits
    BY <1>2 DEF Attach, builderVars, Fits
  <2> QED BY <1>2, <2>1, AttachOK
<1>3. ASSUME phase # "build", image' = image PROVE DiskOK /\ CallOK
  BY <1>3 DEF KernelOK, Fits
<1>4. CASE Mount
  <2>1. /\ phase # "build" /\ image' = image
        /\ UNCHANGED <<tree, disk, calls, refused, pending, request, reading, done>>
    BY <1>4 DEF Mount, builderVars, kernelVars
  <2>2. DiskOK /\ CallOK
    BY <1>3, <2>1
  <2> QED BY <2>1, <2>2 DEF DiskOK, CallOK, WriteCall, ReadCall
<1>5. ASSUME NEW path \in FilePaths, NEW off \in Offsets, NEW data \in Chunks,
             WriteFile(path, off, data) \/ ReadFile(path, off, Len(data))
      PROVE  DiskOK' /\ CallOK'
  <2>1. phase # "build" /\ image' = image
    BY <1>5 DEF WriteFile, ReadFile, Idle, builderVars
  <2> QED BY <1>3, <1>5, <2>1, BeginsOK
<1>6. CASE WriteOneRound
  <2>1. phase # "build" /\ image' = image
    BY <1>6 DEF WriteOneRound, builderVars
  <2> QED BY <1>3, <1>6, <2>1, WriteOneRoundOK
<1>7. CASE WriteReturns \/ ReadReturns
  <2>1. phase # "build" /\ image' = image
    BY <1>7 DEF WriteReturns, ReadReturns, builderVars
  <2> QED BY <1>3, <1>7, <2>1, ReturnsOK
<1>8. CASE ReadOneRound
  <2>1. phase # "build" /\ image' = image
    BY <1>8 DEF ReadOneRound, builderVars
  <2> QED BY <1>3, <1>8, <2>1, ReadOneRoundOK
<1>9. CASE SectorWritten
  <2>1. phase # "build" /\ image' = image
    BY <1>9 DEF SectorWritten, builderVars
  <2> QED BY <1>3, <1>9, <2>1, SectorWrittenOK
<1>10. CASE DriveError \/ SwitchOff
  <2>1. phase # "build" /\ image' = image /\ Down
    BY <1>10 DEF DriveError, SwitchOff, Down, builderVars
  <2>2. DiskOK /\ refused \in SUBSET Int
    BY <1>3, <2>1 DEF CallOK
  <2> QED BY <2>1, <2>2, DownOK
<1>11. CASE UNCHANGED vars
  <2>1. /\ phase # "build" /\ image' = image
        /\ UNCHANGED <<tree, disk, calls, refused, pending, request, reading, done>>
    BY <1>11 DEF vars, builderVars, kernelVars
  <2>2. DiskOK /\ CallOK
    BY <1>3, <2>1
  <2> QED BY <2>1, <2>2 DEF DiskOK, CallOK, WriteCall, ReadCall
<1> QED BY <1>1, <1>2, <1>4, <1>5, <1>6, <1>7, <1>8, <1>9, <1>10, <1>11 DEF Next

-----------------------------------------------------------------------------
(* What the invariant says *)

\* Where a number is kept is a slot of a node.
LEMMA PointerIsSlot ==
  ASSUME NEW x, Sound(x), NEW a \in Pointers(x)
  PROVE  \E i \in Nodes(x) : \E s \in Slots : /\ a = SlotAt(x, i, s) /\ x[a] = Ref(x, i, s)
                                              /\ x[a] # 0
<1>1. PICK i \in Nodes(x) : a \in PointersOf(x, i)
  BY DEF Pointers, Nodes
<1>2. x[a] # 0
  BY DEF Pointers
<1>3. \E s \in Slots : a = SlotAt(x, i, s) /\ (s > 0 => Ref(x, i, -1) # 0)
  <2>1. CASE a = FieldAt(i, Direct)
    BY <2>1, SlotIs DEF SlotAt
  <2>2. CASE a = FieldAt(i, Indirect)
    BY <2>2, SlotIs DEF SlotAt
  <2>3. ASSUME Field(x, i, Indirect) # 0, NEW k \in 0 .. BlockSize - 1,
               a = Field(x, i, Indirect) * BlockSize + k
        PROVE  \E s \in Slots : a = SlotAt(x, i, s) /\ (s > 0 => Ref(x, i, -1) # 0)
    <3>1. k + 1 \in Slots /\ k + 1 # 0 /\ k + 1 # -1 /\ (k + 1) - 1 = k
      BY SlotIs
    <3>2. SlotAt(x, i, k + 1) = Field(x, i, Indirect) * BlockSize + k
      BY <3>1 DEF SlotAt
    <3>3. Ref(x, i, -1) # 0
      BY <2>3 DEF Ref
    <3> QED BY <2>3, <3>1, <3>2, <3>3
  <2> QED BY <1>1, <2>1, <2>2, <2>3 DEF PointersOf
<1>4. PICK s \in Slots : a = SlotAt(x, i, s) /\ (s > 0 => Ref(x, i, -1) # 0)
  BY <1>3
<1>5. x[a] = Ref(x, i, s)
  BY <1>4, SlotHolds
<1> QED BY <1>2, <1>4, <1>5

\* BlocksMarked, of a sound disk.
LEMMA SoundMarks ==
  ASSUME NEW x, Sound(x)
  PROVE  /\ \A a \in Pointers(x) : /\ x[a] \in Blocks
                                   /\ BitIsSet(x, DataBitmapBase, x[a] - DataBase \div BlockSize)
         /\ \A a, b \in Pointers(x) : x[a] = x[b] => a = b
<1>1. ASSUME NEW a \in Pointers(x)
      PROVE  x[a] \in Blocks /\ BitIsSet(x, DataBitmapBase, x[a] - DataBase \div BlockSize)
  <2>1. PICK i \in Nodes(x) : \E s \in Slots : x[a] = Ref(x, i, s) /\ x[a] # 0
    BY PointerIsSlot
  <2>2. PICK s \in Slots : x[a] = Ref(x, i, s) /\ x[a] # 0
    BY <2>1
  <2>3. x[a] \in Marked(x)
    BY <2>2, SoundRef
  <2> QED BY <2>3 DEF Marked, FirstBlock
<1>2. ASSUME NEW a \in Pointers(x), NEW b \in Pointers(x), x[a] = x[b] PROVE a = b
  <2>1. PICK i \in Nodes(x) : \E s \in Slots : a = SlotAt(x, i, s) /\ x[a] = Ref(x, i, s) /\ x[a] # 0
    BY PointerIsSlot
  <2>2. PICK s \in Slots : a = SlotAt(x, i, s) /\ x[a] = Ref(x, i, s) /\ x[a] # 0
    BY <2>1
  <2>3. PICK j \in Nodes(x) : \E t \in Slots : b = SlotAt(x, j, t) /\ x[b] = Ref(x, j, t) /\ x[b] # 0
    BY PointerIsSlot
  <2>4. PICK t \in Slots : b = SlotAt(x, j, t) /\ x[b] = Ref(x, j, t) /\ x[b] # 0
    BY <2>3
  <2>5. i = j /\ s = t
    BY <1>2, <2>2, <2>4, SoundRef
  <2> QED BY <2>2, <2>4, <2>5
<1> QED BY <1>1, <1>2

\* BlocksMarked follows from the kernel's invariant.
LEMMA KernelGivesBlocks == KernelOK => BlocksMarked
BY SoundMarks DEF KernelOK, DiskOK, BlocksMarked

\* SuperblockKept follows from the kernel's invariant.
LEMMA KernelGivesSuperblock == KernelOK => SuperblockKept
BY DEF KernelOK, DiskOK, SuperblockKept

\* TreeFound follows from the kernel's invariant.
LEMMA KernelGivesTree == KernelOK => TreeFound
<1> SUFFICES ASSUME KernelOK, phase # "build", Fits, Superblock(disk), NEW path \in Paths,
                    NEW i \in {Find(disk, path)}
             PROVE  /\ Host(path) = {} <=> i = NoNode
                    /\ \A e \in Host(path) :
                         /\ Field(disk, i, Type) = (IF e.kind = "dir" THEN DIR_TYPE ELSE FILE_TYPE)
                         /\ Field(disk, i, Links) = 1
                         /\ BitIsSet(disk, InodeBitmapBase, i)
                         /\ e.kind = "file" /\ calls = 0 =>
                              /\ Field(disk, i, Size) = Len(e.data)
                              /\ \A o \in 1 .. Len(e.data) : CellOf(disk, i, o - 1) = e.data[o]
  BY DEF TreeFound, Host
<1>1. Root(disk) = RootInode
  BY DEF Superblock
<1>2. PICK g : TreeOK(disk, g, tree) /\ (calls = 0 => Filled(disk, g))
  BY DEF KernelOK, DiskOK
<1> QED BY <1>1, <1>2, TreeIsFound

-----------------------------------------------------------------------------
(* The files as FileStore has them *)

FileIn(x, i) == [size |-> Field(x, i, Size), cells |-> [o \in FileCells |-> CellOf(x, i, o)]]

\* FileState of a file is what is on the disk.
LEMMA StateIs ==
  ASSUME phase # "build", NEW i \in FilesOf(disk)
  PROVE  i \in Inodes /\ FileState[i] = FileIn(disk, i)
BY DEF FileState, FilesOf, Nodes, IsFile, FileIn

\* A node that has not changed is the same file.
LEMMA SameFile ==
  ASSUME NEW x, NEW y, NEW i, SameNode(x, y, i)
  PROVE  FileIn(y, i) = FileIn(x, i)
BY DEF SameNode, SameFields, SameCells, FileIn

\* The files of a disk that differs from disk in one file only.
LEMMA SameState ==
  ASSUME phase # "build", phase' # "build", Nodes(disk') = Nodes(disk),
         \A i \in Nodes(disk) : Field(disk', i, Type) = Field(disk, i, Type),
         NEW i \in Inodes, i \in Nodes(disk) => SameNode(disk, disk', i)
  PROVE  FileState'[i] = FileState[i]
<1>1. CASE i \in FilesOf(disk)
  <2>1. i \in Nodes(disk) /\ i \in Nodes(disk') /\ Field(disk', i, Type) = FILE_TYPE
    BY <1>1 DEF FilesOf
  <2>2. FileState'[i] = FileIn(disk', i)
    BY <2>1 DEF FileState, Nodes, IsFile, FileIn
  <2>3. FileState[i] = FileIn(disk, i)
    BY <1>1, StateIs
  <2> QED BY <2>1, <2>2, <2>3, SameFile
<1>2. CASE i \notin FilesOf(disk)
  <2>1. ~(BitIsSet(disk', InodeBitmapBase, i) /\ Field(disk', i, Type) = FILE_TYPE)
    BY <1>2 DEF FilesOf, Nodes
  <2>2. ~(BitIsSet(disk, InodeBitmapBase, i) /\ Field(disk, i, Type) = FILE_TYPE)
    BY <1>2 DEF FilesOf, Nodes
  <2> QED BY <2>1, <2>2 DEF FileState, IsFile
<1> QED BY <1>1, <1>2

Lost == IF Fits THEN refused ELSE Inodes

\* What is lost stays lost.
LEMMA LostIs ==
  ASSUME image' = image, refused \subseteq refused'
  PROVE  Lost \subseteq Lost'
BY DEF Lost, Fits

\* The same disk has the same files.
LEMMA SameStore ==
  ASSUME phase # "build", phase' # "build", disk' = disk
  PROVE  FileState' = FileState
BY DEF FileState, IsFile, Field, FieldAt, BitIsSet, CellOf, BlockOf

\* What the abstract actions are.
LEMMA RefuseIs ==
  ASSUME phase # "build", phase' # "build", Lost \subseteq Lost',
         \A i \in Inodes \ Lost' : FileState'[i] = FileState[i],
         UNCHANGED <<request, got>>
  PROVE  Abstract!Next
BY DEF Abstract!Next, Abstract!Refuse, Lost

\* The power goes: Abandon.
LEMMA AbandonIs ==
  ASSUME phase # "build", phase' # "build", UNCHANGED <<disk, got, refused, image>>,
         request' = NoRequest
  PROVE  Abstract!Next
<1>1. FileState' = FileState
  BY SameStore
<1>2. Lost' = Lost
  BY DEF Lost, Fits
<1> QED BY <1>1, <1>2 DEF Abstract!Next, Abstract!Abandon, Lost

\* While the image is built and attached: Import.
LEMMA ImportIs ==
  ASSUME phase = "build", request' = NoRequest, got' = got
  PROVE  Abstract!Next
BY DEF Abstract!Next, Abstract!Import

\* What is not seen.
LEMMA StutterIs ==
  ASSUME phase # "build", phase' # "build", UNCHANGED <<disk, image, request, got, refused>>
  PROVE  UNCHANGED Abstract!vars
<1>1. FileState' = FileState
  BY SameStore
<1>2. Lost' = Lost
  BY DEF Lost, Fits
<1> QED BY <1>1, <1>2 DEF Abstract!vars, Lost

\* A write begins: Begin.
LEMMA BeginIs ==
  ASSUME phase # "build", phase' # "build", UNCHANGED <<disk, image, got, refused>>,
         request = NoRequest, request' # NoRequest
  PROVE  Abstract!Next
<1>1. FileState' = FileState
  BY SameStore
<1>2. Lost' = Lost
  BY DEF Lost, Fits
<1> QED BY <1>1, <1>2 DEF Abstract!Next, Abstract!Begin, Lost

\* What has been written, as FileStore says it.
LEMMA WrittenIs ==
  ASSUME phase # "build", NEW q, q.file \in FilesOf(disk), NEW k, Wrote(disk, q, k)
  PROVE  Abstract!Written(FileState[q.file], q.off, q.data, k)
<1>1. FileState[q.file] = FileIn(disk, q.file)
  BY StateIs
<1>2. /\ DOMAIN FileIn(disk, q.file).cells = FileCells
      /\ \A o \in FileCells : FileIn(disk, q.file).cells[o] = CellOf(disk, q.file, o)
  BY DEF FileIn
<1> QED BY <1>1, <1>2 DEF Abstract!Written, Wrote

\* A write returns: Finish.
LEMMA FinishIs ==
  ASSUME phase # "build", Fits, CallOK, WriteReturns
  PROVE  Abstract!Next
<1>1. /\ UNCHANGED <<disk, image, got, refused, phase>> /\ request' = NoRequest
      /\ request # NoRequest /\ pending = <<>> /\ done = Len(request.data)
  BY DEF WriteReturns, builderVars
<1>2. WriteCall
  BY <1>1 DEF CallOK
<1>3. FileState' = FileState /\ Lost' = Lost /\ Lost = refused
  BY <1>1, SameStore DEF Lost, Fits
<1>4. ASSUME request.file \notin refused
      PROVE  /\ Abstract!Written(FileState[request.file], request.off, request.data, Len(request.data))
             /\ FileState[request.file].size >= request.off + Len(request.data)
  <2>1. /\ Wrote(disk, request, done)
        /\ done > 0 => Field(disk, request.file, Size) >= request.off + done
    BY <1>1, <1>2, <1>4, NothingPending DEF WriteCall
  <2>2. done > 0 /\ request.file \in FilesOf(disk)
    BY <1>1, <1>2 DEF WriteCall
  <2>3. FileState[request.file].size = Field(disk, request.file, Size)
    <3>1. FileState[request.file] = FileIn(disk, request.file)
      BY <2>2, StateIs
    <3> QED BY <3>1 DEF FileIn
  <2> QED BY <1>1, <2>1, <2>2, <2>3, WrittenIs
<1>5. Abstract!Finish
  BY <1>1, <1>3, <1>4 DEF Abstract!Finish, Lost
<1> QED BY <1>1, <1>3, <1>5 DEF Abstract!Next, Lost

\* A read returns: Read.
LEMMA ReadIs ==
  ASSUME phase # "build", Fits, DiskOK, CallOK, ReadReturns
  PROVE  Abstract!Next
<1>1. /\ UNCHANGED <<disk, image, request, refused, phase>> /\ got' = reading
      /\ reading # NoRead /\ Left <= 0
  BY DEF ReadReturns, builderVars
<1>2. ReadCall
  BY <1>1 DEF CallOK
<1>3. FileState' = FileState /\ Lost' = Lost /\ Lost = refused
  BY <1>1, SameStore DEF Lost, Fits
<1> DEFINE f == reading.file
           n == Len(reading.data)
<1>4. /\ f \in FilesOf(disk) /\ reading.off \in Nat /\ reading.asked \in Nat /\ n \in Nat
      /\ FileState[f].size = Field(disk, f, Size) /\ Field(disk, f, Size) \in Nat
  <2>1. f \in FilesOf(disk) /\ reading.off \in Nat /\ reading.asked \in Nat /\ n \in Nat
    BY <1>2 DEF ReadCall
  <2>2. disk \in Img /\ f \in Inodes /\ Size \in Fields
    BY <2>1 DEF DiskOK, Sound, FilesOf, Nodes, Fields
  <2>3. Field(disk, f, Size) \in Nat
    BY <2>2, FieldIs
  <2>4. FileState[f] = FileIn(disk, f)
    BY <2>1, StateIs
  <2>5. FileState[f].size = Field(disk, f, Size)
    BY <2>4 DEF FileIn
  <2> QED BY <2>1, <2>3, <2>5
<1>5. ASSUME f \notin refused
      PROVE  /\ n > 0 => reading.off + n <= FileState[f].size
             /\ n < reading.asked => reading.off + n >= FileState[f].size
             /\ Abstract!Written(FileState[f], reading.off, reading.data, n)
  <2>1. /\ Wrote(disk, reading, n)
        /\ n > 0 => reading.off + n <= Field(disk, f, Size)
    BY <1>2, <1>5 DEF ReadCall
  <2>2. Left = Min({reading.asked - n, Field(disk, f, Size) - (reading.off + n)})
    BY DEF Left
  <2> HIDE DEF n, f
  <2>3. reading.asked - n \in Int /\ Field(disk, f, Size) - (reading.off + n) \in Int
    BY <1>4
  <2>4. Left = IF reading.asked - n <= Field(disk, f, Size) - (reading.off + n)
               THEN reading.asked - n ELSE Field(disk, f, Size) - (reading.off + n)
    BY <2>2, <2>3, MinOfTwo
  <2>5. n < reading.asked => reading.off + n >= Field(disk, f, Size)
    BY <1>1, <1>4, <2>4
  <2>6. Abstract!Written(FileState[f], reading.off, reading.data, n)
    BY <1>4, <2>1, WrittenIs DEF f
  <2> QED BY <1>4, <2>1, <2>5, <2>6
<1>6. Abstract!Read
  BY <1>1, <1>3, <1>5 DEF Abstract!Read, Lost
<1> QED BY <1>1, <1>3, <1>6 DEF Abstract!Next, Lost

\* A round writes nothing yet; it may be refused a block: Refuse.
LEMMA RoundIs ==
  ASSUME phase # "build", Fits, DiskOK, CallOK, WriteOneRound \/ ReadOneRound,
         refused \subseteq refused'
  PROVE  Abstract!Next
<1>1. UNCHANGED <<disk, image, request, got, phase>>
  BY DEF WriteOneRound, ReadOneRound, builderVars
<1>2. FileState' = FileState /\ Lost \subseteq Lost'
  BY <1>1, SameStore, LostIs
<1> QED BY <1>1, <1>2, RefuseIs

\* The call whose writes are pending.
LEMMA CallIs ==
  ASSUME CallOK, pending # <<>>
  PROVE  /\ Call.file \in FilesOf(disk)
         /\ \E y : Leads(disk, pending, y, Call, refused)
         /\ reading = NoRead => Call = request /\ request # NoRequest /\ WriteCall
         /\ reading # NoRead => Call = ReadOf(reading.file)
<1>1. request # NoRequest \/ reading # NoRead
  BY DEF CallOK
<1>2. CASE reading # NoRead
  BY <1>2 DEF CallOK, ReadCall, Call, ReadOf
<1>3. CASE reading = NoRead
  BY <1>3, <1>1 DEF CallOK, WriteCall, Call
<1> QED BY <1>2, <1>3

\* A sector write is seen as nothing, as some of the data, or as the new size.
LEMMA SectorIs ==
  ASSUME phase # "build", Fits, DiskOK, CallOK, SectorWritten
  PROVE  Abstract!Next
<1> DEFINE q == Call
           f == q.file
<1>1. /\ pending # <<>> /\ pending \in Seq(Write)
      /\ disk' = Overlay(disk, Head(pending).at, Head(pending).cells)
      /\ UNCHANGED <<image, request, reading, refused, got, phase>>
  BY DEF SectorWritten, CallOK, builderVars
<1>2. /\ f \in FilesOf(disk)
      /\ \E y : Leads(disk, pending, y, q, refused)
      /\ reading = NoRead => q = request /\ request # NoRequest /\ WriteCall
      /\ reading # NoRead => q = ReadOf(reading.file)
  BY <1>1, CallIs
<1> HIDE DEF q
<1>3. StepOK(disk, disk', q, refused)
  BY <1>1, <1>2, LeadsFirst
<1>4. Lost' = Lost /\ Lost = refused
  BY <1>1 DEF Lost, Fits
<1>5. /\ Nodes(disk') = Nodes(disk)
      /\ \A i \in Nodes(disk) : Field(disk', i, Type) = Field(disk, i, Type)
      /\ \A i \in Nodes(disk) : i # f => SameNode(disk, disk', i)
  BY <1>3 DEF StepOK
<1>6. \A i \in Inodes \ {f} : FileState'[i] = FileState[i]
  BY <1>1, <1>5, SameState
<1>7. CASE f \in refused
  BY <1>1, <1>4, <1>6, <1>7, RefuseIs
<1>8. CASE SameNode(disk, disk', f)
  <2>1. \A i \in Inodes : FileState'[i] = FileState[i]
    BY <1>1, <1>5, <1>8, SameState
  <2> QED BY <1>1, <1>4, <2>1, RefuseIs
<1>9. CASE f \notin refused /\ ~SameNode(disk, disk', f)
  <2>1. PutStep(disk, disk', q) \/ ExtendStep(disk, disk', q)
    BY <1>3, <1>9 DEF StepOK
  <2>2. q = request /\ request # NoRequest /\ WriteCall
    BY <1>2, <1>3, <1>9, ReadStep DEF ReadOf
  <2>3. f \in Inodes /\ FileState[f] = FileIn(disk, f)
    BY <1>1, <1>2, StateIs
  <2>4. FileState'[f] = FileIn(disk', f)
    BY <1>1, <1>2, <1>5, <2>3 DEF FileState, Nodes, IsFile, FileIn, FilesOf
  <2>5. CASE PutStep(disk, disk', q)
    <3>0. PutStep(disk, disk', request) /\ f = request.file
      BY <2>2, <2>5
    <3>1. PICK a \in 1 .. Len(request.data) : \E b \in a .. Len(request.data) : \A o \in FileCells :
             CellOf(disk', f, o) = IF o + 1 - request.off \in a .. b THEN request.data[o + 1 - request.off]
                                   ELSE CellOf(disk, f, o)
      BY <3>0 DEF PutStep
    <3>2. PICK b \in a .. Len(request.data) : \A o \in FileCells :
             CellOf(disk', f, o) = IF o + 1 - request.off \in a .. b THEN request.data[o + 1 - request.off]
                                   ELSE CellOf(disk, f, o)
      BY <3>1
    <3>3. Field(disk', f, Size) = Field(disk, f, Size)
      BY <3>0 DEF PutStep, SameFields
    <3> DEFINE C == [o \in FileCells |-> CellOf(disk, f, o)]
               D == [o \in DOMAIN C |-> IF o + 1 - request.off \in a .. b
                                        THEN request.data[o + 1 - request.off] ELSE C[o]]
    <3>4. [o \in FileCells |-> CellOf(disk', f, o)] = D
      BY <3>2
    <3>5. FileIn(disk', f) = [size |-> Field(disk, f, Size), cells |-> D]
      BY <3>3, <3>4 DEF FileIn
    <3>6. FileIn(disk, f) = [size |-> Field(disk, f, Size), cells |-> C]
      BY DEF FileIn
    <3> HIDE DEF D
    <3>7. FileState'[f] = [FileState[f] EXCEPT !.cells = D]
      BY <2>3, <2>4, <3>5, <3>6
    <3> USE DEF D
    <3>8. FileState[f].cells = C
      BY <2>3, <3>6
    <3> HIDE DEF C
    <3>9. FileState'[f] = [FileState[f] EXCEPT !.cells =
                  [o \in DOMAIN @ |-> IF o + 1 - request.off \in a .. b
                                      THEN request.data[o + 1 - request.off] ELSE @[o]]]
      BY <3>7, <3>8
    <3>10. \E l \in 1 .. Len(request.data) : \E h \in l .. Len(request.data) :
             FileState'[request.file] = [FileState[request.file] EXCEPT !.cells =
                  [o \in DOMAIN @ |-> IF o + 1 - request.off \in l .. h
                                      THEN request.data[o + 1 - request.off] ELSE @[o]]]
      BY <3>9, <3>0
    <3>11. Abstract!Only(request.file)
      BY <1>6, <2>2 DEF Abstract!Only
    <3>12. Abstract!Put
      BY <1>1, <3>10, <3>11, <2>2, Zenon DEF Abstract!Put
    <3> QED BY <1>1, <1>4, <3>12 DEF Abstract!Next, Lost
  <2>6. CASE ExtendStep(disk, disk', q)
    <3>1. PICK k \in 1 .. Len(q.data) :
            /\ Wrote(disk, q, k)
            /\ q.off + k > Field(disk, f, Size) /\ Field(disk', f, Size) = q.off + k
      BY <2>6 DEF ExtendStep
    <3>2. Abstract!Written(FileState[f], q.off, q.data, k)
      BY <1>1, <1>2, <3>1, WrittenIs
    <3>3. FileIn(disk', f).cells = FileIn(disk, f).cells
      BY <2>6 DEF ExtendStep, SameCells, FileIn
    <3>4. FileState'[f] = [FileState[f] EXCEPT !.size = q.off + k]
      BY <2>3, <2>4, <3>1, <3>3 DEF FileIn
    <3>5. FileState[f].size = Field(disk, f, Size)
      BY <2>3 DEF FileIn
    <3>6. Abstract!Extend
      BY <1>1, <1>6, <2>2, <3>1, <3>2, <3>4, <3>5 DEF Abstract!Extend, Abstract!Only
    <3> QED BY <1>1, <1>4, <3>6 DEF Abstract!Next, Lost
  <2> QED BY <2>1, <2>5, <2>6
<1> QED BY <1>7, <1>8, <1>9

\* The image does not fit: nothing is promised of any file.
LEMMA NothingPromised ==
  ASSUME phase # "build", phase' # "build", ~Fits, UNCHANGED <<image, request, got>>
  PROVE  Abstract!Next
<1>1. Lost = Inodes /\ Lost' = Inodes
  BY DEF Lost, Fits
<1> QED BY <1>1, RefuseIs

\* A read returns when the image did not fit.
LEMMA ReadOfNothing ==
  ASSUME phase # "build", ~Fits, ReadReturns
  PROVE  Abstract!Next
<1>1. UNCHANGED <<disk, image, request, refused, phase>>
  BY DEF ReadReturns, builderVars
<1>2. Lost = Inodes /\ Lost' = Inodes /\ FileState' = FileState
  BY <1>1, SameStore DEF Lost, Fits
<1>3. Abstract!Read
  BY <1>1, <1>2 DEF Abstract!Read, Lost
<1> QED BY <1>1, <1>2, <1>3 DEF Abstract!Next, Lost

\* Every step is a step of FileStore, or is not seen.
LEMMA AbstractStep ==
  ASSUME PhaseOK, PhaseOK', KernelOK, [Next]_vars
  PROVE  [Abstract!Next]_Abstract!vars
<1> SUFFICES Abstract!Next \/ UNCHANGED Abstract!vars
  OBVIOUS
<1>0. ASSUME phase # "build", Fits PROVE DiskOK /\ CallOK
  BY <1>0 DEF KernelOK
<1>1. CASE phase = "build" /\ Build /\ UNCHANGED <<phase, driveEnd, offs, kernelVars>>
  BY <1>1, ImportIs DEF kernelVars, PhaseOK
<1>2. CASE Attach
  BY <1>2, ImportIs DEF Attach, PhaseOK
<1>3. CASE Mount
  BY <1>3, StutterIs DEF Mount, kernelVars, builderVars
<1>4. ASSUME NEW path, NEW off, NEW data, WriteFile(path, off, data) PROVE Abstract!Next
  <2>1. request' # NoRequest
    BY <1>4 DEF WriteFile, NoRequest
  <2> QED BY <1>4, <2>1, BeginIs DEF WriteFile, Idle, builderVars
<1>5. ASSUME NEW path, NEW off, NEW n, ReadFile(path, off, n) PROVE UNCHANGED Abstract!vars
  BY <1>5, StutterIs DEF ReadFile, Idle, builderVars
<1>6. CASE WriteOneRound \/ ReadOneRound
  <2>1. phase # "build" /\ phase' # "build" /\ UNCHANGED <<image, request, got>>
    BY <1>6 DEF WriteOneRound, ReadOneRound, builderVars
  <2>2. CASE Fits
    BY <1>0, <1>6, <2>1, <2>2, WriteOneRoundOK, ReadOneRoundOK, RoundIs
  <2>3. CASE ~Fits
    BY <2>1, <2>3, NothingPromised
  <2> QED BY <2>2, <2>3
<1>7. CASE WriteReturns
  <2>1. /\ phase # "build" /\ phase' # "build" /\ request' = NoRequest
        /\ UNCHANGED <<disk, got, refused, image>>
    BY <1>7 DEF WriteReturns, builderVars
  <2>2. CASE Fits
    BY <1>0, <1>7, <2>1, <2>2, FinishIs
  <2>3. CASE ~Fits
    BY <2>1, AbandonIs
  <2> QED BY <2>2, <2>3
<1>8. CASE ReadReturns
  <2>1. phase # "build"
    BY <1>8 DEF ReadReturns
  <2>2. CASE Fits
    BY <1>0, <1>8, <2>1, <2>2, ReadIs
  <2>3. CASE ~Fits
    BY <1>8, <2>1, <2>3, ReadOfNothing
  <2> QED BY <2>2, <2>3
<1>9. CASE SectorWritten
  <2>1. phase # "build" /\ phase' # "build" /\ UNCHANGED <<image, request, got>>
    BY <1>9 DEF SectorWritten, builderVars
  <2>2. CASE Fits
    BY <1>0, <1>9, <2>1, <2>2, SectorIs
  <2>3. CASE ~Fits
    BY <2>1, <2>3, NothingPromised
  <2> QED BY <2>2, <2>3
<1>10. CASE DriveError \/ SwitchOff
  <2>1. /\ phase # "build" /\ phase' # "build" /\ request' = NoRequest
        /\ UNCHANGED <<disk, got, refused, image>>
    BY <1>10 DEF DriveError, SwitchOff, Down, builderVars
  <2> QED BY <2>1, AbandonIs
<1>11. CASE UNCHANGED vars
  <2>1. CASE phase = "build"
    BY <1>11, <2>1, ImportIs DEF vars, kernelVars, PhaseOK
  <2>2. CASE phase # "build"
    BY <1>11, <2>2, StutterIs DEF vars, kernelVars, builderVars
  <2> QED BY <2>1, <2>2
<1> QED BY <1>1, <1>2, <1>3, <1>4, <1>5, <1>6, <1>7, <1>8, <1>9, <1>10, <1>11 DEF Next

-----------------------------------------------------------------------------
(* The builder's operations: what stays failed *)

IsHost(D) ==
  {"img", "eof", "exited", "refused"} \subseteq DOMAIN D /\ D.exited \in BOOLEAN

Failed(D) == D.exited \/ D.refused # {}

After(C, D) == IsHost(D) /\ (Failed(C) => Failed(D))

\* After is transitive.
LEMMA AfterTrans ==
  ASSUME NEW B, NEW C, NEW D, After(B, C), After(C, D)
  PROVE  After(B, D)
BY DEF After

\* A write.
LEMMA HostWriteAfter ==
  ASSUME NEW D, IsHost(D), NEW at, NEW cells
  PROVE  After(D, HostWrite(D, at, cells))
<1>1. CASE D.exited \/ cells = <<>>
  BY <1>1 DEF HostWrite, After
<1>2. CASE ~(D.exited \/ cells = <<>>)
  <2> DEFINE R == [D EXCEPT !.img = Overlay(@, at, cells), !.eof = Max({@, at + Len(cells)})]
  <2>1. HostWrite(D, at, cells) = R
    BY <1>2 DEF HostWrite
  <2> DEFINE v == Overlay(D.img, at, cells)
             w == Max({D.eof, at + Len(cells)})
  <2>2. R = [D EXCEPT !.img = v, !.eof = w]
    OBVIOUS
  <2> HIDE DEF v, w, R
  <2>3. IsHost(R) /\ R.exited = D.exited /\ R.refused = D.refused
    BY <2>2 DEF IsHost
  <2>4. IsHost(R) /\ (Failed(D) => Failed(R))
    BY <2>3 DEF Failed
  <2> QED BY <2>1, <2>4 DEF After
<1> QED BY <1>1, <1>2

\* Nothing is done.
LEMMA AfterRefl == ASSUME NEW D, IsHost(D) PROVE After(D, D)
BY DEF After

\* Bitmap::find.
LEMMA HostFindAfter ==
  ASSUME NEW D, IsHost(D), NEW base
  PROVE  After(D, HostFind(D, base).D)
<1> DEFINE clear == {k \in 0 .. Bits - 1 : HostBit(D, base, k) = 0}
           S == HostSet(D, base, Min(clear))
<1>1. HostFind(D, base).D = IF clear = {} THEN D ELSE S
  BY DEF HostFind
<1>2. After(D, S)
  <2> HIDE DEF clear
  <2> QED BY HostWriteAfter, AfterRefl DEF HostSet
<1> QED BY <1>1, <1>2, AfterRefl

\* The program exits: it has failed.
LEMMA ExitAfter ==
  ASSUME NEW D, IsHost(D)
  PROVE  After(D, [D EXCEPT !.exited = TRUE]) /\ Failed([D EXCEPT !.exited = TRUE])
BY DEF After, IsHost, Failed

\* Something is refused: it has failed.
LEMMA RefuseAfter ==
  ASSUME NEW D, IsHost(D), NEW i
  PROVE  After(D, [D EXCEPT !.refused = @ \cup {i}]) /\ Failed([D EXCEPT !.refused = @ \cup {i}])
BY DEF After, IsHost, Failed

\* allocateBlock.
LEMMA HostAllocateAfter ==
  ASSUME NEW D, IsHost(D)
  PROVE  After(D, HostAllocate(D).D)
<1> DEFINE f == HostFind(D, DataBitmapBase)
<1>1. After(D, f.D)
  BY HostFindAfter
<1> HIDE DEF f
<1>2. IsHost(f.D)
  BY <1>1 DEF After
<1>3. After(f.D, HostCleared(f).D)
  <2>1. CASE f.index = -1
    BY <1>2, <2>1, ExitAfter DEF HostCleared
  <2>2. CASE f.index # -1
    BY <1>2, <2>2, HostWriteAfter DEF HostCleared
  <2> QED BY <2>1, <2>2
<1>4. HostAllocate(D) = HostCleared(f)
  BY DEF HostAllocate, f
<1> QED BY <1>1, <1>3, <1>4, AfterTrans

\* The block of a pointer.
LEMMA HostBlockAtAfter ==
  ASSUME NEW D, IsHost(D), NEW at
  PROVE  After(D, HostBlockAt(D, at).D)
<1>1. CASE HostRead(D, at) # 0
  BY <1>1, AfterRefl DEF HostBlockAt
<1>2. CASE HostRead(D, at) = 0
  <2> DEFINE a == HostAllocate(D)
             s == HostWrite(a.D, at, <<a.block>>)
  <2>1. After(D, a.D)
    BY HostAllocateAfter
  <2>2. \E d, b : a = [D |-> d, block |-> b]
    BY DEF HostAllocate, HostCleared
  <2> HIDE DEF a
  <2>3. HostStored(a, at).D = s
    BY <2>2 DEF HostStored
  <2>4. HostBlockAt(D, at).D = s
    BY <1>2, <2>3 DEF HostBlockAt, a
  <2>5. After(a.D, s)
    BY <2>1, HostWriteAfter DEF After
  <2> QED BY <2>1, <2>4, <2>5, AfterTrans
<1> QED BY <1>1, <1>2

\* getBlockNumber.
LEMMA HostBlockNumberAfter ==
  ASSUME NEW D, IsHost(D), NEW i, NEW k
  PROVE  After(D, HostBlockNumber(D, i, k).D)
<1>1. CASE k = 0
  BY <1>1, HostBlockAtAfter DEF HostBlockNumber
<1>2. CASE k # 0 /\ k - 1 >= BlockSize
  BY <1>2, RefuseAfter DEF HostBlockNumber
<1>3. CASE k # 0 /\ ~(k - 1 >= BlockSize)
  <2> DEFINE ind == HostBlockAt(D, FieldAt(i, Indirect))
  <2>1. After(D, ind.D)
    BY HostBlockAtAfter
  <2> HIDE DEF ind
  <2>2. After(ind.D, HostEntryOf(ind, k - 1).D)
    BY <2>1, HostBlockAtAfter DEF HostEntryOf, After
  <2>3. HostBlockNumber(D, i, k) = HostEntryOf(ind, k - 1)
    BY <1>3 DEF HostBlockNumber, ind
  <2> QED BY <2>1, <2>2, <2>3, AfterTrans
<1> QED BY <1>1, <1>2, <1>3

\* The size.
LEMMA HostGrownAfter ==
  ASSUME NEW D, IsHost(D), NEW i, NEW end
  PROVE  After(D, HostGrown(D, i, end))
BY HostWriteAfter, AfterRefl DEF HostGrown, HostSetField

\* The cells of a piece.
LEMMA HostPutAfter ==
  ASSUME NEW b, IsHost(b.D), NEW off, NEW cells
  PROVE  After(b.D, HostPut(b, off, cells))
BY HostWriteAfter DEF HostPut

\* Node::write.
LEMMA HostWritePieceAfter ==
  ASSUME NEW D, IsHost(D), NEW i, NEW off, NEW cells
  PROVE  After(D, HostWritePiece(D, i, off, cells))
<1> DEFINE b == HostBlockNumber(D, i, off \div BlockSize)
           c == HostPut(b, off, cells)
           w == HostGrown(c, i, off + Len(cells))
<1>1. After(D, b.D)
  BY HostBlockNumberAfter
<1> HIDE DEF b
<1>2. After(b.D, c)
  BY <1>1, HostPutAfter DEF After
<1> HIDE DEF c
<1>3. After(c, w)
  BY <1>2, HostGrownAfter DEF After
<1>4. HostWritePiece(D, i, off, cells) = w
  BY DEF HostWritePiece, b, c
<1> QED BY <1>1, <1>2, <1>3, <1>4, AfterTrans

\* linkNode.
LEMMA LinkNodeAfter ==
  ASSUME NEW D, IsHost(D), NEW i, NEW name, NEW child
  PROVE  After(D, LinkNode(D, i, name, child).D)
BY HostWriteAfter DEF LinkNode, Linked, HostSetField

\* newFile and newDirectory.
LEMMA NewNodeAfter ==
  ASSUME NEW D, IsHost(D), NEW i, NEW name, NEW type
  PROVE  After(D, NewNode(D, i, name, type).linked.D)
<1> DEFINE f == HostFind(D, InodeBitmapBase)
           c == Counted(f)
           d == FreshNode(c, f.index, type, 0)
<1>1. After(D, f.D)
  BY HostFindAfter
<1> HIDE DEF f
<1>2. After(f.D, c)
  BY <1>1, RefuseAfter, AfterRefl DEF Counted, After
<1> HIDE DEF c
<1>3. After(c, d)
  BY <1>2, HostWriteAfter DEF FreshNode, After
<1> HIDE DEF d
<1>4. After(d, LinkNode(d, i, name, f.index).D)
  BY <1>3, LinkNodeAfter DEF After
<1>5. NewNode(D, i, name, type).linked = LinkNode(d, i, name, f.index)
  BY DEF NewNode, NewNodeAt, f, c, d
<1>6. After(D, c)
  BY <1>1, <1>2, AfterTrans
<1>7. After(D, d)
  BY <1>3, <1>6, AfterTrans
<1> QED BY <1>4, <1>5, <1>7, AfterTrans

-----------------------------------------------------------------------------
(* The builder's operations: what they do while there is room *)

\* The file of the host reaches over all that is read: the bitmaps, the nodes and their
\* blocks.
HostDisk(D) ==
  /\ IsHost(D) /\ ~Failed(D)
  /\ Sound(D.img) /\ D.eof \in Nat /\ 3 * BlockSize <= D.eof
  /\ \A i \in Nodes(D.img) : FieldAt(i, 4) < D.eof
  /\ \A b \in Marked(D.img) : b * BlockSize + BlockSize <= D.eof

HostOK(D) == IsHost(D) /\ ~Failed(D) /\ D.img \in Img /\ D.eof \in Nat

\* The greater of two numbers.
LEMMA MaxOfTwo ==
  ASSUME NEW a \in Int, NEW b \in Int
  PROVE  Max({a, b}) \in {a, b} /\ Max({a, b}) >= a /\ Max({a, b}) >= b
BY DEF Max

\* A write while nothing has failed.
LEMMA HostWriteIs ==
  ASSUME NEW D, HostOK(D),
         NEW at, at \in Nat, NEW cells, cells \in Seq(Nat), cells # <<>>
  PROVE  /\ HostOK(HostWrite(D, at, cells))
         /\ HostWrite(D, at, cells).img = Overlay(D.img, at, cells)
         /\ HostWrite(D, at, cells).eof >= D.eof
         /\ HostWrite(D, at, cells).eof >= at + Len(cells)
         /\ HostWrite(D, at, cells).refused = D.refused
<1> DEFINE R == HostWrite(D, at, cells)
           v == Overlay(D.img, at, cells)
           e == at + Len(cells)
           w == Max({D.eof, e})
<1>1. ~D.exited
  BY DEF Failed, HostOK
<1>2. R = [D EXCEPT !.img = Overlay(@, at, cells), !.eof = Max({@, at + Len(cells)})]
  BY <1>1 DEF HostWrite
<1>3. R = [D EXCEPT !.img = v, !.eof = w]
  BY <1>2
<1>4. v \in Img
  BY OverlayIs DEF HostOK
<1>5. w \in Nat /\ w >= D.eof /\ w >= e
  <2>1. e \in Nat /\ e \in Int /\ D.eof \in Int /\ D.eof \in Nat
    BY DEF HostOK
  <2> HIDE DEF e
  <2>2. Max({D.eof, e}) \in {D.eof, e} /\ Max({D.eof, e}) >= D.eof /\ Max({D.eof, e}) >= e
    BY <2>1, MaxOfTwo
  <2>3. w \in {D.eof, e} /\ w >= D.eof /\ w >= e
    BY <2>2
  <2> HIDE DEF w
  <2> QED BY <2>1, <2>3
<1> HIDE DEF v, w, R
<1>6. IsHost(R) /\ R.exited = D.exited /\ R.refused = D.refused /\ R.img = v /\ R.eof = w
  BY <1>3 DEF IsHost, HostOK
<1>7. ~Failed(R)
  BY <1>6 DEF Failed, HostOK
<1> QED BY <1>4, <1>5, <1>6, <1>7 DEF v, R, HostOK

\* The same of one cell.
LEMMA HostCellIs ==
  ASSUME NEW D, HostOK(D),
         NEW at, at \in Nat, NEW x, x \in Nat, NEW R, R = HostWrite(D, at, <<x>>)
  PROVE  /\ HostOK(R) /\ R.img = CellPut(D.img, at, x)
         /\ R.eof >= D.eof /\ R.eof >= at + 1
         /\ R.refused = D.refused
<1> DEFINE c == <<x>>
<1>1. c \in Seq(Nat) /\ c # <<>> /\ Len(c) = 1
  OBVIOUS
<1>2. CellPut(D.img, at, x) = Overlay(D.img, at, c)
  BY DEF CellPut
<1>3. R = HostWrite(D, at, c)
  OBVIOUS
<1> HIDE DEF c
<1>4. /\ HostOK(HostWrite(D, at, c)) /\ HostWrite(D, at, c).img = Overlay(D.img, at, c)
      /\ HostWrite(D, at, c).eof >= D.eof /\ HostWrite(D, at, c).eof >= at + Len(c)
      /\ HostWrite(D, at, c).refused = D.refused
  BY <1>1, HostWriteIs
<1> QED BY <1>1, <1>2, <1>3, <1>4

\* The same of a block of zeros.
LEMMA HostZerosIs ==
  ASSUME NEW D, HostOK(D),
         NEW at, at \in Nat
  PROVE  /\ HostOK(HostWrite(D, at, Zeros(BlockSize)))
         /\ \A a \in Cells : HostWrite(D, at, Zeros(BlockSize)).img[a] =
              IF a \in at .. at + BlockSize - 1 THEN 0 ELSE D.img[a]
         /\ HostWrite(D, at, Zeros(BlockSize)).eof >= D.eof
         /\ HostWrite(D, at, Zeros(BlockSize)).eof >= at + BlockSize
         /\ HostWrite(D, at, Zeros(BlockSize)).refused = D.refused
<1> DEFINE R == HostWrite(D, at, Zeros(BlockSize))
<1>1. Zeros(BlockSize) \in Seq(Nat) /\ Len(Zeros(BlockSize)) = BlockSize /\ Zeros(BlockSize) # <<>>
  BY Layout, ZerosIs
<1>2. BlockSize \in Nat
  BY Layout
<1>3. R.img = Overlay(D.img, at, Zeros(BlockSize))
  BY <1>1, HostWriteIs
<1>4. \A a \in Cells : R.img[a] = IF a \in at .. at + BlockSize - 1 THEN 0 ELSE D.img[a]
  <2>1. D.img \in Img
    BY DEF HostOK
  <2>2. \A a \in Cells : Overlay(D.img, at, Zeros(BlockSize))[a] =
           IF a \in at .. at + BlockSize - 1 THEN 0 ELSE D.img[a]
    BY <1>2, <2>1, OverlayZeros
  <2> QED BY <1>3, <2>2
<1> QED BY <1>1, <1>4, HostWriteIs

\* The same nodes, the same blocks and no less of the file.
LEMMA HostKept ==
  ASSUME NEW D, HostDisk(D), NEW R, IsHost(R), ~Failed(R), R.eof \in Nat, R.eof >= D.eof,
         Sound(R.img), Nodes(R.img) = Nodes(D.img), Marked(R.img) = Marked(D.img)
  PROVE  HostDisk(R)
<1>1. ASSUME NEW i \in Nodes(R.img) PROVE FieldAt(i, 4) < R.eof
  <2>1. FieldAt(i, 4) < D.eof /\ D.eof \in Nat
    BY DEF HostDisk
  <2>2. FieldAt(i, 4) \in Int
    BY FieldCell, Layout DEF Nodes
  <2> QED BY <2>1, <2>2
<1>2. ASSUME NEW b \in Marked(R.img) PROVE b * BlockSize + BlockSize <= R.eof
  <2>1. b * BlockSize + BlockSize <= D.eof /\ D.eof \in Nat
    BY DEF HostDisk
  <2>2. b * BlockSize + BlockSize \in Int
    BY Layout DEF Marked, Blocks
  <2> QED BY <2>1, <2>2
<1>3. 3 * BlockSize <= R.eof
  BY Layout DEF HostDisk
<1> QED BY <1>1, <1>2, <1>3 DEF HostDisk

\* The bits of a bitmap as they are read.
LEMMA HostBitIs ==
  ASSUME NEW D, D.eof \in Nat, 3 * BlockSize <= D.eof, D.img \in Img,
         NEW base \in {DataBitmapBase, InodeBitmapBase}, NEW k \in 0 .. Bits - 1
  PROVE  /\ HostRead(D, base + k \div WordBits) = D.img[base + k \div WordBits]
         /\ HostBit(D, base, k) = 1 <=> BitIsSet(D.img, base, k)
<1>1. k \div WordBits \in 0 .. BlockSize - 1
  BY WordCell
<1>2. base + k \div WordBits < D.eof
  <2> DEFINE w == k \div WordBits
  <2>1. w \in 0 .. BlockSize - 1
    BY <1>1
  <2> HIDE DEF w
  <2>2. base + w < D.eof
    BY <2>1, Layout
  <2> QED BY <2>2 DEF w
<1>3. HostRead(D, base + k \div WordBits) = D.img[base + k \div WordBits]
  BY <1>2 DEF HostRead
<1> QED BY <1>3 DEF HostBit, BitIsSet

\* Bitmap::find: the first bit that is clear is set.
LEMMA HostFindIs ==
  ASSUME NEW D, HostOK(D), 3 * BlockSize <= D.eof,
         NEW base \in {DataBitmapBase, InodeBitmapBase}, NEW f, f = HostFind(D, base)
  PROVE  /\ f = [D |-> f.D, index |-> f.index]
         /\ \/ f.index = -1
            \/ /\ f.index \in 0 .. Bits - 1 /\ ~BitIsSet(D.img, base, f.index)
               /\ HostOK(f.D) /\ f.D.refused = D.refused /\ f.D.eof >= D.eof
               /\ f.D.img = CellPut(D.img, base + f.index \div WordBits,
                                    D.img[base + f.index \div WordBits] + Power[f.index % WordBits])
<1> DEFINE clear == {k \in 0 .. Bits - 1 : HostBit(D, base, k) = 0}
           k == Min(clear)
<1>1. CASE clear = {}
  BY <1>1 DEF HostFind
<1>2. CASE clear # {}
  <2>1. k \in clear
    <3>1. clear \subseteq Nat
      BY Layout
    <3> HIDE DEF clear
    <3> QED BY <1>2, <3>1, MinIs
  <2>2. f = [D |-> HostSet(D, base, k), index |-> k]
    BY <1>2 DEF HostFind
  <2> HIDE DEF k
  <2>3. k \in 0 .. Bits - 1 /\ HostBit(D, base, k) = 0
    BY <2>1
  <2> HIDE DEF clear
  <2>4. ~BitIsSet(D.img, base, k)
    BY <2>3, HostBitIs DEF HostOK
  <2> DEFINE at == base + k \div WordBits
             v == D.img[at] + Power[k % WordBits]
  <2>5. HostSet(D, base, k) = HostWrite(D, at, <<v>>)
    BY <2>3, HostBitIs DEF HostSet, HostOK
  <2>6. at \in Nat /\ v \in Nat
    <3>1. k \div WordBits \in 0 .. BlockSize - 1 /\ k % WordBits \in 0 .. WordBits - 1
      BY <2>3, WordCell
    <3>2. at \in Cells /\ at \in Nat
      <4> DEFINE w == k \div WordBits
      <4>1. w \in 0 .. BlockSize - 1
        BY <3>1
      <4> HIDE DEF w
      <4>2. base + w \in Cells /\ base + w \in Nat
        BY <4>1, Layout DEF Cells
      <4> QED BY <4>2 DEF w
    <3>3. Power[k % WordBits] \in Nat
      BY <3>1, PowerStep, Layout
    <3> HIDE DEF at
    <3>4. D.img[at] \in Nat
      BY <3>2 DEF Img, HostOK
    <3> QED BY <3>2, <3>3, <3>4
  <2> HIDE DEF at, v
  <2>7. f.index = k /\ f.D = HostWrite(D, at, <<v>>) /\ f = [D |-> f.D, index |-> f.index]
    BY <2>2, <2>5
  <2>8. /\ HostOK(f.D) /\ f.D.img = CellPut(D.img, at, v)
        /\ f.D.eof >= D.eof /\ f.D.refused = D.refused
    BY <2>6, <2>7, HostCellIs
  <2>9. f.D.img = CellPut(D.img, base + f.index \div WordBits,
                                    D.img[base + f.index \div WordBits] + Power[f.index % WordBits])
    BY <2>7, <2>8 DEF at, v
  <2> QED BY <2>3, <2>4, <2>7, <2>8, <2>9
<1> QED BY <1>1, <1>2

\* What a disk of the builder is in any case.
LEMMA HostDiskOK ==
  ASSUME NEW D, HostDisk(D)
  PROVE  HostOK(D) /\ IsHost(D) /\ Sound(D.img) /\ 3 * BlockSize <= D.eof
BY DEF HostDisk, HostOK, Sound

\* allocateBlock: a block that is marked, empty and not referred to, or the end.
LEMMA HostAllocateIs ==
  ASSUME NEW D, HostDisk(D), NEW a, a = HostAllocate(D), ~Failed(a.D)
  PROVE  /\ a = [D |-> a.D, block |-> a.block]
         /\ HostDisk(a.D) /\ Quiet(D.img, a.D.img)
         /\ \A i \in Nodes(D.img) : SameRefs(D.img, a.D.img, i)
         /\ a.block \in Marked(a.D.img) /\ Unused(a.D.img, a.block) /\ Zeroed(a.D.img, a.block)
<1> DEFINE f == HostFind(D, DataBitmapBase)
           b == FirstBlock + f.index
<1>1. HostOK(D) /\ IsHost(D) /\ Sound(D.img) /\ 3 * BlockSize <= D.eof
  BY HostDiskOK
<1>2. /\ f = [D |-> f.D, index |-> f.index]
      /\ \/ f.index = -1
         \/ /\ f.index \in 0 .. Bits - 1 /\ ~BitIsSet(D.img, DataBitmapBase, f.index)
            /\ HostOK(f.D) /\ f.D.refused = D.refused /\ f.D.eof >= D.eof
            /\ f.D.img = CellPut(D.img, DataBitmapBase + f.index \div WordBits,
                                 D.img[DataBitmapBase + f.index \div WordBits] + Power[f.index % WordBits])
  BY <1>1, HostFindIs
<1>3. a = HostCleared(f)
  BY DEF HostAllocate
<1>4. After(D, f.D)
  BY <1>1, HostFindAfter
<1> HIDE DEF f
<1>5. f.index # -1
  <2> SUFFICES ASSUME f.index = -1 PROVE FALSE
    OBVIOUS
  <2>1. a.D = [f.D EXCEPT !.exited = TRUE]
    BY <1>3 DEF HostCleared
  <2> QED BY <1>4, <2>1, ExitAfter DEF After
<1>6. /\ f.index \in 0 .. Bits - 1 /\ ~BitIsSet(D.img, DataBitmapBase, f.index)
      /\ HostOK(f.D) /\ f.D.refused = D.refused /\ f.D.eof >= D.eof
      /\ f.D.img = CellPut(D.img, DataBitmapBase + f.index \div WordBits,
                           D.img[DataBitmapBase + f.index \div WordBits] + Power[f.index % WordBits])
  BY <1>2, <1>5
<1>7. a.block = b /\ a.D = HostWrite(f.D, b * BlockSize, Zeros(BlockSize))
      /\ a = [D |-> a.D, block |-> a.block]
  BY <1>3, <1>5 DEF HostCleared, FirstBlock
<1>8. /\ Quiet(D.img, f.D.img) /\ Marked(f.D.img) = Marked(D.img) \cup {b}
      /\ \A i \in Nodes(D.img) : SameRefs(D.img, f.D.img, i)
      /\ b \in Blocks /\ Unused(f.D.img, b)
  BY <1>1, <1>6, MarkStep
<1> HIDE DEF b
<1>9. b \in Nat /\ b * BlockSize \in Nat /\ BlockSize \in Nat
  BY <1>8, Layout DEF Blocks
<1>10. /\ HostOK(a.D) /\ a.D.refused = f.D.refused
       /\ a.D.eof >= f.D.eof /\ a.D.eof >= b * BlockSize + BlockSize
       /\ \A c \in Cells : a.D.img[c] = IF c \in b * BlockSize .. b * BlockSize + BlockSize - 1
                                        THEN 0 ELSE f.D.img[c]
  <2> DEFINE at == b * BlockSize
  <2>1. at \in Nat
    BY <1>9
  <2> HIDE DEF at
  <2>2. LET R == HostWrite(f.D, at, Zeros(BlockSize))
        IN  /\ HostOK(R) /\ R.refused = f.D.refused
            /\ R.eof >= f.D.eof /\ R.eof >= at + BlockSize
            /\ \A c \in Cells : R.img[c] = IF c \in at .. at + BlockSize - 1 THEN 0 ELSE f.D.img[c]
    BY <1>6, <2>1, HostZerosIs
  <2> QED BY <1>7, <2>2 DEF at
<1>11. SameOutside(f.D.img, a.D.img, BlockCells(b))
  BY <1>10 DEF SameOutside, BlockCells
<1>12. Sound(f.D.img) /\ Nodes(f.D.img) = Nodes(D.img)
  BY <1>8 DEF Quiet
<1>13. /\ Quiet(f.D.img, a.D.img) /\ Marked(a.D.img) = Marked(f.D.img)
       /\ \A i \in Nodes(f.D.img) : SameRefs(f.D.img, a.D.img, i)
       /\ Unused(a.D.img, b)
  <2>1. a.D.img \in Img
    BY <1>10 DEF HostOK
  <2> QED BY <1>8, <1>11, <1>12, <2>1, UnusedStep
<1>14. Zeroed(a.D.img, b)
  <2>1. ASSUME NEW p \in 0 .. BlockSize - 1 PROVE a.D.img[b * BlockSize + p] = 0
    <3> DEFINE c == b * BlockSize + p
    <3>1. c \in Cells
      BY <1>8, BlockCell, Layout DEF Cells
    <3>2. c \in b * BlockSize .. b * BlockSize + BlockSize - 1
      BY <1>9
    <3> HIDE DEF c
    <3>3. a.D.img[c] = 0
      BY <1>10, <3>1, <3>2
    <3> QED BY <3>3 DEF c
  <2> QED BY <2>1 DEF Zeroed
<1>15. Quiet(D.img, a.D.img)
  BY <1>8, <1>13, QuietTrans
<1>16. \A i \in Nodes(D.img) : SameRefs(D.img, a.D.img, i)
  BY <1>8, <1>12, <1>13 DEF SameRefs
<1>17. HostDisk(a.D)
  <2>1. IsHost(a.D) /\ ~Failed(a.D) /\ a.D.eof \in Nat /\ f.D.eof \in Nat /\ D.eof \in Nat
    BY <1>1, <1>6, <1>10 DEF HostOK
  <2>2. a.D.eof >= D.eof
    BY <1>6, <1>10, <2>1
  <2>3. Sound(a.D.img) /\ Nodes(a.D.img) = Nodes(D.img) /\ Marked(a.D.img) = Marked(D.img) \cup {b}
    BY <1>8, <1>13, <1>15 DEF Quiet
  <2>4. ASSUME NEW i \in Nodes(D.img) PROVE FieldAt(i, 4) < a.D.eof
    <3>1. FieldAt(i, 4) < D.eof
      BY DEF HostDisk
    <3>2. FieldAt(i, 4) \in Int
      BY FieldCell, Layout DEF Nodes
    <3> QED BY <2>1, <2>2, <3>1, <3>2
  <2>5. ASSUME NEW c \in Marked(a.D.img) PROVE c * BlockSize + BlockSize <= a.D.eof
    <3>1. CASE c = b
      BY <1>10, <3>1
    <3>2. CASE c \in Marked(D.img)
      <4>1. c * BlockSize + BlockSize <= D.eof
        BY <3>2 DEF HostDisk
      <4>2. c * BlockSize + BlockSize \in Int
        BY <3>2, Layout DEF Marked, Blocks
      <4> QED BY <2>1, <2>2, <4>1, <4>2
    <3> QED BY <2>3, <3>1, <3>2
  <2>6. 3 * BlockSize <= a.D.eof
    BY <1>1, <1>9, <2>1, <2>2
  <2> QED BY <2>1, <2>3, <2>4, <2>5, <2>6 DEF HostDisk
<1>18. b \in Marked(a.D.img)
  BY <1>8, <1>13
<1> QED BY <1>7, <1>13, <1>14, <1>15, <1>16, <1>17, <1>18

\* The numbers of the blocks of a node are read as they are.
LEMMA SlotRead ==
  ASSUME NEW D, HostDisk(D), NEW i \in Nodes(D.img), NEW s \in Slots, s > 0 => Ref(D.img, i, -1) # 0
  PROVE  HostRead(D, SlotAt(D.img, i, s)) = Ref(D.img, i, s)
<1> DEFINE at == SlotAt(D.img, i, s)
<1>1. Sound(D.img) /\ D.eof \in Nat
  BY DEF HostDisk
<1>2. at \in Nat /\ D.img[at] = Ref(D.img, i, s)
  BY <1>1, SlotHolds
<1>3. at < D.eof
  <2>1. i \in Inodes /\ FieldAt(i, 4) < D.eof /\ FieldAt(i, 4) = FieldAt(i, 3) + 1 /\ FieldAt(i, 3) \in Int
    <3>1. i \in Inodes
      BY DEF Nodes
    <3>2. FieldAt(i, 4) < D.eof
      BY DEF HostDisk
    <3>3. i \in Nat
      BY <3>1 DEF Inodes
    <3> QED BY <3>1, <3>2, <3>3, Layout DEF FieldAt, NodeSize
  <2>2. CASE s = -1 \/ s = 0
    BY <1>1, <2>1, <2>2 DEF SlotAt, Direct, Indirect
  <2>3. CASE s # -1 /\ s # 0
    <3> DEFINE b == Ref(D.img, i, -1)
               p == s - 1
    <3>1. s > 0 /\ p \in 0 .. BlockSize - 1
      BY <2>3, SlotIs, Layout
    <3>2. at = b * BlockSize + p
      BY <2>3 DEF SlotAt, Ref
    <3>3. b \in Marked(D.img) /\ b \in Nat
      BY <1>1, <3>1, SoundRef, SlotIs
    <3>4. b * BlockSize + BlockSize <= D.eof
      BY <3>3 DEF HostDisk
    <3>5. b * BlockSize \in Nat /\ BlockSize \in Nat
      BY <3>3, Layout
    <3> DEFINE e == b * BlockSize
    <3> HIDE DEF at, b, p, e
    <3>6. at = e + p /\ e + BlockSize <= D.eof /\ e \in Nat
      BY <3>2, <3>4, <3>5 DEF e
    <3> QED BY <1>1, <3>1, <3>5, <3>6
  <2> QED BY <2>2, <2>3
<1> QED BY <1>2, <1>3 DEF HostRead

\* The block in a slot of a node, which is allocated if there is none.
LEMMA HostBlockAtIs ==
  ASSUME NEW D, HostDisk(D), NEW i \in Nodes(D.img), NEW s \in Slots, s > 0 => Ref(D.img, i, -1) # 0,
         NEW r, r = HostBlockAt(D, SlotAt(D.img, i, s)), ~Failed(r.D)
  PROVE  /\ HostDisk(r.D) /\ Quiet(D.img, r.D.img)
         /\ r.block = Ref(r.D.img, i, s) /\ r.block # 0
         /\ r = [D |-> r.D, block |-> r.block]
<1> DEFINE at == SlotAt(D.img, i, s)
           a  == HostAllocate(D)
<1>1. HostRead(D, at) = Ref(D.img, i, s) /\ Sound(D.img) /\ HostOK(D) /\ IsHost(D)
  BY SlotRead, HostDiskOK
<1>2. CASE Ref(D.img, i, s) # 0
  <2>1. r = [D |-> D, block |-> Ref(D.img, i, s)]
    BY <1>1, <1>2 DEF HostBlockAt
  <2> QED BY <1>1, <1>2, <2>1, QuietRefl
<1>3. CASE Ref(D.img, i, s) = 0
  <2>1. r = HostStored(a, at)
    BY <1>1, <1>3 DEF HostBlockAt
  <2>2. \E d, b : a = [D |-> d, block |-> b]
    BY DEF HostAllocate, HostCleared
  <2>3. After(D, a.D)
    BY <1>1, HostAllocateAfter
  <2> HIDE DEF a
  <2> DEFINE n == a.block
  <2>4. r = [D |-> HostWrite(a.D, at, <<n>>), block |-> n]
    BY <2>1, <2>2 DEF HostStored
  <2>5. After(a.D, r.D)
    BY <2>3, <2>4, HostWriteAfter DEF After
  <2>6. ~Failed(a.D)
    BY <2>5 DEF After
  <2>7. /\ HostDisk(a.D) /\ Quiet(D.img, a.D.img)
        /\ \A j \in Nodes(D.img) : SameRefs(D.img, a.D.img, j)
        /\ n \in Marked(a.D.img) /\ Unused(a.D.img, n) /\ Zeroed(a.D.img, n)
    BY <2>6, HostAllocateIs DEF a
  <2>8. \A t \in Slots : Ref(a.D.img, i, t) = Ref(D.img, i, t)
    BY <2>7 DEF SameRefs
  <2>9. Sound(a.D.img) /\ Nodes(a.D.img) = Nodes(D.img)
    BY <2>7 DEF Quiet
  <2>10. MayStore(a.D.img, i, s, n)
    BY <1>3, <2>7, <2>8, <2>9, SlotIs DEF MayStore
  <2>11. at = SlotAt(a.D.img, i, s)
    BY <2>8, SlotIs DEF SlotAt, Ref
  <2>12. n \in Nat /\ n # 0 /\ at \in Nat
    <3>1. n \in Blocks
      BY <2>7 DEF Marked
    <3> QED BY <1>1, <3>1, BlockCell, Layout, SlotHolds
  <2> HIDE DEF n, at
  <2>13. HostOK(a.D)
    BY <2>7, HostDiskOK
  <2>14. r.D = HostWrite(a.D, at, <<n>>) /\ r.block = n /\ r = [D |-> r.D, block |-> r.block]
    BY <2>4
  <2>15. /\ HostOK(r.D) /\ r.D.img = CellPut(a.D.img, at, n) /\ r.D.eof >= a.D.eof
    BY <2>12, <2>13, <2>14, HostCellIs
  <2>16. Quiet(a.D.img, r.D.img) /\ Marked(r.D.img) = Marked(a.D.img) /\ Ref(r.D.img, i, s) = n
    BY <2>10, <2>11, <2>15, StoreStep
  <2>17. Quiet(D.img, r.D.img)
    BY <2>7, <2>16, QuietTrans
  <2>18. HostDisk(r.D)
    BY <2>7, <2>15, <2>16, HostKept DEF HostOK, Quiet
  <2> QED BY <2>12, <2>14, <2>16, <2>17, <2>18
<1> QED BY <1>2, <1>3

\* getBlockNumber has a block for every cell of a file, if nothing fails.
LEMMA HostBlockNumberIs ==
  ASSUME NEW D, HostDisk(D), NEW i \in Nodes(D.img), NEW k, k \in Nat,
         NEW r, r = HostBlockNumber(D, i, k), ~Failed(r.D)
  PROVE  /\ HostDisk(r.D) /\ Quiet(D.img, r.D.img)
         /\ k \in 0 .. BlockSize /\ r.block = Ref(r.D.img, i, k) /\ r.block # 0
<1>0. IsHost(D)
  BY HostDiskOK
<1>1. CASE k = 0
  <2>1. FieldAt(i, Direct) = SlotAt(D.img, i, 0) /\ 0 \in Slots
    BY SlotIs DEF SlotAt
  <2>2. r = HostBlockAt(D, SlotAt(D.img, i, 0))
    BY <1>1, <2>1 DEF HostBlockNumber
  <2>3. /\ HostDisk(r.D) /\ Quiet(D.img, r.D.img)
        /\ r.block = Ref(r.D.img, i, 0) /\ r.block # 0
    BY <2>1, <2>2, HostBlockAtIs
  <2> QED BY <1>1, <2>3, Layout
<1>2. CASE k # 0 /\ k - 1 >= BlockSize
  <2>1. r.D = [D EXCEPT !.refused = @ \cup {i}]
    BY <1>2 DEF HostBlockNumber
  <2> QED BY <1>0, <2>1, RefuseAfter
<1>3. CASE k # 0 /\ ~(k - 1 >= BlockSize)
  <2> DEFINE ind == HostBlockAt(D, SlotAt(D.img, i, -1))
             p   == k - 1
  <2>1. FieldAt(i, Indirect) = SlotAt(D.img, i, -1) /\ -1 \in Slots
    BY SlotIs DEF SlotAt
  <2>2. p \in 0 .. BlockSize - 1 /\ k = p + 1 /\ k \in Slots /\ k # -1 /\ k # 0 /\ k \in 0 .. BlockSize
    BY <1>3, SlotIs, Layout DEF Slots
  <2>3. r = HostEntryOf(ind, p)
    BY <1>3, <2>1 DEF HostBlockNumber
  <2>4. After(D, ind.D)
    BY <1>0, HostBlockAtAfter
  <2> HIDE DEF ind, p
  <2>5. r = HostBlockAt(ind.D, ind.block * BlockSize + p)
    BY <2>3 DEF HostEntryOf
  <2>6. After(ind.D, r.D)
    BY <2>4, <2>5, HostBlockAtAfter DEF After
  <2>7. ~Failed(ind.D)
    BY <2>6 DEF After
  <2>8. /\ HostDisk(ind.D) /\ Quiet(D.img, ind.D.img)
        /\ ind.block = Ref(ind.D.img, i, -1) /\ ind.block # 0
    BY <2>1, <2>7, HostBlockAtIs DEF ind
  <2>9. ind.block * BlockSize + p = SlotAt(ind.D.img, i, k)
    BY <2>2, <2>8 DEF SlotAt, Ref
  <2>10. i \in Nodes(ind.D.img)
    BY <2>8 DEF Quiet
  <2>11. /\ HostDisk(r.D) /\ Quiet(ind.D.img, r.D.img)
         /\ r.block = Ref(r.D.img, i, k) /\ r.block # 0
    BY <2>2, <2>5, <2>8, <2>9, <2>10, HostBlockAtIs
  <2> QED BY <2>2, <2>8, <2>11, QuietTrans
<1> QED BY <1>1, <1>2, <1>3

\* A field of a node is read as it is.
LEMMA HostFieldIs ==
  ASSUME NEW D, HostDisk(D), NEW i \in Nodes(D.img), NEW f \in Fields
  PROVE  HostField(D, i, f) = Field(D.img, i, f) /\ Field(D.img, i, f) \in Nat
<1>1. i \in Inodes /\ i \in Nat /\ D.img \in Img /\ D.eof \in Nat
  BY DEF Nodes, Inodes, HostDisk, Sound
<1>2. FieldAt(i, 4) < D.eof
  BY DEF HostDisk
<1>3. f \in 0 .. 4
  BY DEF Fields, Type, Links, Size, Direct, Indirect
<1>4. FieldAt(i, f) < D.eof
  BY <1>1, <1>2, <1>3, Layout DEF FieldAt, NodeSize
<1>5. Field(D.img, i, f) = D.img[FieldAt(i, f)] /\ Field(D.img, i, f) \in Nat
  BY <1>1, FieldIs
<1> QED BY <1>4, <1>5 DEF HostField, HostRead

\* What a piece of a write leaves alone.
OneFile(x, y, i) ==
  /\ Nodes(y) = Nodes(x) /\ SameHead(x, y)
  /\ \A j \in Nodes(x) : j # i => SameNode(x, y, j)
  /\ Field(y, i, Type) = Field(x, i, Type) /\ Field(y, i, Links) = Field(x, i, Links)

\* The cells of a piece reach the block of a node.
LEMMA HostPutIs ==
  ASSUME NEW b, HostDisk(b.D), NEW i \in Nodes(b.D.img), NEW off \in Nat,
         off \div BlockSize \in 0 .. BlockSize,
         b.block = Ref(b.D.img, i, off \div BlockSize), b.block # 0,
         NEW cells \in Seq(Nat), cells # <<>>, (off % BlockSize) + Len(cells) <= BlockSize,
         NEW c, c = HostPut(b, off, cells)
  PROVE  /\ HostDisk(c) /\ OneFile(b.D.img, c.img, i)
         /\ Field(c.img, i, Size) = Field(b.D.img, i, Size)
         /\ CellsPut(b.D.img, c.img, i, off, cells)
<1> DEFINE x == b.D.img
           k == off \div BlockSize
           p == off % BlockSize
           at == b.block * BlockSize + p
<1>1. HostOK(b.D) /\ Sound(x) /\ i \in Nodes(x)
  BY HostDiskOK
<1>2. k \in Nat /\ p \in 0 .. BlockSize - 1 /\ off = k * BlockSize + p
  BY FileCell
<1>3. k \in Slots /\ Ref(x, i, k) # 0 /\ k \in 0 .. BlockSize
  BY Layout DEF Slots
<1>4. b.block \in Blocks
  BY <1>1, <1>3, SoundRef
<1>5. at \in Nat
  BY <1>2, <1>4, BlockCell, Layout, SMTT(30)
<1>6. c = HostWrite(b.D, at, cells)
  BY DEF HostPut
<1> HIDE DEF at
<1>7. HostOK(c) /\ c.img = Overlay(x, at, cells) /\ c.eof >= b.D.eof
  BY <1>1, <1>5, <1>6, HostWriteIs
<1>8. c.img = Overlay(x, Ref(x, i, k) * BlockSize + p, cells)
  BY <1>7 DEF at
<1> HIDE DEF k, p, x
<1>9. p + Len(cells) <= BlockSize
  BY DEF p
<1>10. /\ Sound(c.img) /\ Nodes(c.img) = Nodes(x) /\ Marked(c.img) = Marked(x) /\ SameHead(x, c.img)
       /\ \A j \in Nodes(x) : j # i => SameNode(x, c.img, j)
       /\ SameFields(x, c.img, i)
       /\ CellsPut(x, c.img, i, k * BlockSize + p, cells)
  BY <1>1, <1>2, <1>3, <1>8, <1>9, DataStep
<1>11. HostDisk(c)
  <2>1. IsHost(c) /\ ~Failed(c) /\ c.eof \in Nat /\ c.eof >= b.D.eof
    BY <1>7 DEF HostOK
  <2> QED BY <1>10, <2>1, HostKept DEF x
<1>12. OneFile(x, c.img, i) /\ Field(c.img, i, Size) = Field(x, i, Size)
  BY <1>10 DEF SameFields, OneFile
<1>13. CellsPut(x, c.img, i, off, cells)
  BY <1>2, <1>10
<1> QED BY <1>11, <1>12, <1>13 DEF x

\* The size of the node goes up to where the piece ends, not down.
LEMMA HostGrownIs ==
  ASSUME NEW D, HostDisk(D), NEW i \in Nodes(D.img), NEW end, end \in Nat,
         NEW R, R = HostGrown(D, i, end)
  PROVE  /\ HostDisk(R) /\ OneFile(D.img, R.img, i) /\ SameCells(D.img, R.img, i)
         /\ Field(R.img, i, Size) = IF end > Field(D.img, i, Size) THEN end ELSE Field(D.img, i, Size)
<1>1. HostOK(D) /\ Sound(D.img)
  BY HostDiskOK
<1>2. HostField(D, i, Size) = Field(D.img, i, Size)
  BY HostFieldIs DEF Fields
<1>3. CASE end > Field(D.img, i, Size)
  <2>1. R = HostWrite(D, FieldAt(i, Size), <<end>>)
    BY <1>2, <1>3 DEF HostGrown, HostSetField
  <2>2. FieldAt(i, Size) \in Nat
    <3>1. i \in Inodes
      BY DEF Nodes
    <3>2. D.img \in Img
      BY <1>1 DEF Sound
    <3>3. FieldAt(i, Size) \in Cells
      BY <3>1, <3>2, FieldIs DEF Fields
    <3> QED BY <3>3, Layout DEF Cells
  <2>3. HostOK(R) /\ R.img = CellPut(D.img, FieldAt(i, Size), end) /\ R.eof >= D.eof
    BY <1>1, <2>1, <2>2, HostCellIs
  <2>4. /\ Sound(R.img) /\ Nodes(R.img) = Nodes(D.img) /\ Marked(R.img) = Marked(D.img)
        /\ SameHead(D.img, R.img)
        /\ \A j \in Nodes(D.img) : SameCells(D.img, R.img, j)
        /\ \A j \in Nodes(D.img) : j # i => SameNode(D.img, R.img, j)
        /\ Field(R.img, i, Size) = end
        /\ \A f \in Fields : f # Size => Field(R.img, i, f) = Field(D.img, i, f)
    BY <1>1, <2>3, FieldStep
  <2>5. HostDisk(R)
    <3>1. IsHost(R) /\ ~Failed(R) /\ R.eof \in Nat
      BY <2>3 DEF HostOK
    <3> QED BY <2>3, <2>4, <3>1, HostKept
  <2>6. Field(R.img, i, Type) = Field(D.img, i, Type) /\ Field(R.img, i, Links) = Field(D.img, i, Links)
    BY <2>4 DEF Fields, Type, Links, Size
  <2> QED BY <1>3, <2>4, <2>5, <2>6 DEF OneFile
<1>4. CASE ~(end > Field(D.img, i, Size))
  <2>1. R = D
    BY <1>2, <1>4 DEF HostGrown
  <2>2. Quiet(D.img, D.img)
    BY <1>1, QuietRefl
  <2> QED BY <1>4, <2>1, <2>2 DEF Quiet, OneFile, SameNode
<1> QED BY <1>3, <1>4

\* Two changes of a file are one.
LEMMA OneFileTrans ==
  ASSUME NEW x, NEW y, NEW z, NEW i, OneFile(x, y, i), OneFile(y, z, i)
  PROVE  OneFile(x, z, i)
<1>1. ASSUME NEW j \in Nodes(x), j # i PROVE SameNode(x, z, j)
  BY <1>1 DEF OneFile, SameNode, SameFields, SameCells
<1>2. SameHead(x, z)
  BY DEF OneFile, SameHead
<1> QED BY <1>1, <1>2 DEF OneFile

\* One round of the builder's writeAll.
LEMMA HostWritePieceIs ==
  ASSUME NEW D, HostDisk(D), NEW i \in Nodes(D.img), NEW off \in Nat,
         NEW cells \in Seq(Nat), cells # <<>>, (off % BlockSize) + Len(cells) <= BlockSize,
         NEW R, R = HostWritePiece(D, i, off, cells), ~Failed(R)
  PROVE  /\ HostDisk(R) /\ OneFile(D.img, R.img, i)
         /\ off \div BlockSize <= BlockSize
         /\ CellsPut(D.img, R.img, i, off, cells)
         /\ Field(R.img, i, Size) = IF off + Len(cells) > Field(D.img, i, Size)
                                    THEN off + Len(cells) ELSE Field(D.img, i, Size)
<1> DEFINE b == HostBlockNumber(D, i, off \div BlockSize)
           c == HostPut(b, off, cells)
           e == off + Len(cells)
<1>1. R = HostGrown(c, i, e)
  BY DEF HostWritePiece
<1>2. After(D, b.D) /\ After(b.D, c) /\ After(c, R)
  <2>1. After(D, b.D)
    BY HostDiskOK, HostBlockNumberAfter
  <2> HIDE DEF b
  <2>2. After(b.D, c)
    BY <2>1, HostPutAfter DEF After
  <2> HIDE DEF c, e
  <2>3. After(c, R)
    BY <1>1, <2>2, HostGrownAfter DEF After
  <2> QED BY <2>1, <2>2, <2>3
<1>3. ~Failed(b.D)
  BY <1>2 DEF After
<1> DEFINE k == off \div BlockSize
<1>4. k \in Nat /\ e \in Nat
  BY FileCell
<1> HIDE DEF e
<1>5. /\ HostDisk(b.D) /\ Quiet(D.img, b.D.img)
      /\ k \in 0 .. BlockSize /\ b.block = Ref(b.D.img, i, k) /\ b.block # 0
  <2> HIDE DEF k
  <2>1. b = HostBlockNumber(D, i, k)
    BY DEF k
  <2> HIDE DEF b
  <2> QED BY <1>3, <1>4, <2>1, HostBlockNumberIs
<1> HIDE DEF b
<1>6. i \in Nodes(b.D.img)
  BY <1>5 DEF Quiet
<1>7. /\ HostDisk(c) /\ OneFile(b.D.img, c.img, i)
      /\ Field(c.img, i, Size) = Field(b.D.img, i, Size)
      /\ CellsPut(b.D.img, c.img, i, off, cells)
  BY <1>5, <1>6, HostPutIs
<1> HIDE DEF c
<1>8. i \in Nodes(c.img)
  BY <1>6, <1>7 DEF OneFile
<1>9. /\ HostDisk(R) /\ OneFile(c.img, R.img, i) /\ SameCells(c.img, R.img, i)
      /\ Field(R.img, i, Size) = IF e > Field(c.img, i, Size) THEN e ELSE Field(c.img, i, Size)
  BY <1>1, <1>4, <1>7, <1>8, HostGrownIs
<1>10. OneFile(D.img, b.D.img, i) /\ SameNode(D.img, b.D.img, i)
  BY <1>5 DEF Quiet, OneFile, SameNode, SameFields
<1>11. OneFile(D.img, R.img, i)
  BY <1>7, <1>9, <1>10, OneFileTrans
<1>12. CellsPut(D.img, R.img, i, off, cells)
  BY <1>7, <1>9, <1>10 DEF CellsPut, SameNode, SameCells
<1>13. Field(b.D.img, i, Size) = Field(D.img, i, Size)
  BY <1>10 DEF SameNode, SameFields
<1>14. off \div BlockSize <= BlockSize
  BY <1>5, Layout
<1> QED BY <1>7, <1>9, <1>11, <1>12, <1>13, <1>14 DEF e

-----------------------------------------------------------------------------
(* New nodes *)

\* A node k that begins in y: its bit is set, its fields are type, links and zeros.
Begins(x, y, k, type, links) ==
  /\ k \in Inodes /\ k \notin Nodes(x)
  /\ Nodes(y) = Nodes(x) \cup {k} /\ SameHead(x, y)
  /\ \A j \in Nodes(x) : SameNode(x, y, j)
  /\ Field(y, k, Type) = type /\ Field(y, k, Links) = links /\ Field(y, k, Size) = 0

\* The bit of an inode makes a node, and nothing else.
LEMMA NodeBit ==
  ASSUME NEW x, Sound(x), NEW k \in Inodes, k \notin Nodes(x),
         NEW y, y = CellPut(x, InodeBitmapBase + k \div WordBits,
                            x[InodeBitmapBase + k \div WordBits] + Power[k % WordBits])
  PROVE  /\ y \in Img /\ Nodes(y) = Nodes(x) \cup {k} /\ Marked(y) = Marked(x)
         /\ SameOutside(x, y, InodeBitmapBase .. InodeBitmapBase + BlockSize - 1)
<1>1. x \in Img /\ k \in 0 .. Bits - 1 /\ ~BitIsSet(x, InodeBitmapBase, k)
  BY DEF Sound, Inodes, Nodes
<1> DEFINE base == InodeBitmapBase
<1>2. /\ y \in Img
      /\ \A j \in 0 .. Bits - 1 : BitIsSet(y, base, j) <=> BitIsSet(x, base, j) \/ j = k
      /\ \A a \in Cells : a \notin base .. base + BlockSize - 1 => y[a] = x[a]
  BY <1>1, BitSet
<1>3. Nodes(y) = Nodes(x) \cup {k}
  BY <1>1, <1>2 DEF Nodes, Inodes
<1>4. SameOutside(x, y, base .. base + BlockSize - 1)
  BY <1>2 DEF SameOutside
<1>5. \A j \in 0 .. BlockSize - 1 : y[DataBitmapBase + j] = x[DataBitmapBase + j]
  <2> SUFFICES ASSUME NEW j \in 0 .. BlockSize - 1
               PROVE  y[DataBitmapBase + j] = x[DataBitmapBase + j]
    OBVIOUS
  <2>1. DataBitmapBase + j \in Cells /\ DataBitmapBase + j \notin base .. base + BlockSize - 1
    BY Layout DEF Cells
  <2> QED BY <1>2, <2>1
<1>6. Marked(y) = Marked(x)
  <2>1. ASSUME NEW b \in Blocks
        PROVE  BitIsSet(y, DataBitmapBase, b - FirstBlock) <=> BitIsSet(x, DataBitmapBase, b - FirstBlock)
    <3>1. b - FirstBlock \in 0 .. Bits - 1
      BY Layout DEF Blocks, FirstBlock
    <3> QED BY <1>5, <3>1, SameBits
  <2> QED BY <2>1 DEF Marked
<1> QED BY <1>2, <1>3, <1>4, <1>6

\* The fields of a fresh inode.
LEMMA FreshCells ==
  ASSUME NEW type, type \in Nat, NEW links, links \in Nat
  PROVE  /\ <<type, links, 0, 0, 0>> \in Seq(Nat) /\ Len(<<type, links, 0, 0, 0>>) = 5
         /\ <<type, links, 0, 0, 0>> # <<>>
         /\ <<type, links, 0, 0, 0>>[1] = type /\ <<type, links, 0, 0, 0>>[2] = links
         /\ <<type, links, 0, 0, 0>>[3] = 0 /\ <<type, links, 0, 0, 0>>[4] = 0
         /\ <<type, links, 0, 0, 0>>[5] = 0
OBVIOUS

\* The bit of a new node is set and its fields are written: the other nodes are the same.
LEMMA FreshStep ==
  ASSUME NEW x, Sound(x), NEW k \in Inodes, k \notin Nodes(x),
         NEW y, y = CellPut(x, InodeBitmapBase + k \div WordBits,
                            x[InodeBitmapBase + k \div WordBits] + Power[k % WordBits]),
         NEW type, type \in Nat, NEW links, links \in Nat,
         NEW z, z = Overlay(y, FieldAt(k, Type), <<type, links, 0, 0, 0>>)
  PROVE  /\ Sound(z) /\ Marked(z) = Marked(x) /\ Begins(x, z, k, type, links)
<1> DEFINE base == InodeBitmapBase
           at == FieldAt(k, Type)
           s == <<type, links, 0, 0, 0>>
           A == base .. base + BlockSize - 1
           F == at .. at + 4
<1>1. /\ y \in Img /\ Nodes(y) = Nodes(x) \cup {k} /\ Marked(y) = Marked(x) /\ SameOutside(x, y, A)
  BY NodeBit
<1>2. x \in Img
  BY DEF Sound
<1>3. k \in Nat /\ at = InodeBase + k * 5 /\ at \in Nat
  BY Layout DEF Inodes, FieldAt, NodeSize, Type
<1>4. \A f \in 0 .. 4 : FieldAt(k, f) = at + f
  BY <1>3, Layout DEF FieldAt, NodeSize
<1>5. s \in Seq(Nat) /\ Len(s) = 5
  BY FreshCells
<1>6. /\ z \in Img
      /\ \A a \in Cells : z[a] = IF a \in F THEN s[a - at + 1] ELSE y[a]
  <2> HIDE DEF s, at
  <2>1. z = Overlay(y, at, s)
    BY DEF s, at
  <2>2. /\ z \in Img
        /\ \A a \in Cells : z[a] = IF a \in at .. at + Len(s) - 1 THEN s[a - at + 1] ELSE y[a]
    <3>1. y \in Img /\ at \in Nat /\ s \in Seq(Nat)
      BY <1>1, <1>3, <1>5
    <3>2. /\ Overlay(y, at, s) \in Img
          /\ \A a \in Cells : Overlay(y, at, s)[a] =
               IF a \in at .. at + Len(s) - 1 THEN s[a - at + 1] ELSE y[a]
      BY <3>1, OverlayIs, ZenonT(30)
    <3> QED BY <2>1, <3>2
  <2>3. at + Len(s) - 1 = at + 4
    BY <1>3, <1>5
  <2> QED BY <2>2, <2>3
<1>7. \A f \in 0 .. 4 : Field(z, k, f) = s[f + 1]
  <2> SUFFICES ASSUME NEW f \in 0 .. 4 PROVE Field(z, k, f) = s[f + 1]
    OBVIOUS
  <2>1. FieldAt(k, f) \in Cells
    BY FieldCell, Layout DEF Cells
  <2>2. at + f \in F /\ (at + f) - at + 1 = f + 1
    BY <1>3
  <2> HIDE DEF at, s, F
  <2> QED BY <1>4, <1>6, <2>1, <2>2 DEF Field
<1>8. /\ Field(z, k, Type) = type /\ Field(z, k, Links) = links /\ Field(z, k, Size) = 0
      /\ Field(z, k, Direct) = 0 /\ Field(z, k, Indirect) = 0
  <2>1. /\ Field(z, k, 0) = s[1] /\ Field(z, k, 1) = s[2] /\ Field(z, k, 2) = s[3]
        /\ Field(z, k, 3) = s[4] /\ Field(z, k, 4) = s[5]
    <3> HIDE DEF s
    <3> QED BY <1>7
  <2>2. s[1] = type /\ s[2] = links /\ s[3] = 0 /\ s[4] = 0 /\ s[5] = 0
    BY FreshCells
  <2> HIDE DEF s
  <2> QED BY <2>1, <2>2 DEF Type, Links, Size, Direct, Indirect
<1>9. F \subseteq InodeBase .. DataBase - 1 /\ A \subseteq 2 * BlockSize .. InodeBase - 1
  <2>1. FieldAt(k, 0) \in InodeBase .. DataBase - 1 /\ FieldAt(k, 4) \in InodeBase .. DataBase - 1
    BY FieldCell
  <2>2. FieldAt(k, 0) = at /\ FieldAt(k, 4) = at + 4
    BY <1>3, <1>4
  <2> HIDE DEF at
  <2> QED BY <1>3, <2>1, <2>2, Layout
<1>10. SameOutside(y, z, F)
  BY <1>6 DEF SameOutside
<1>11. SameOutside(x, z, A \cup F)
  BY <1>1, <1>10 DEF SameOutside
<1> HIDE DEF A, F, s, at
<1>12. Nodes(z) = Nodes(y) /\ Marked(z) = Marked(y)
  <2>1. \A a \in BlockSize .. 3 * BlockSize - 1 : a \notin F
    BY <1>9, Layout
  <2> QED BY <1>1, <1>6, <1>10, <2>1, BitmapsFrame
<1>13. SameHead(x, z)
  <2>1. ASSUME NEW a \in 0 .. BlockSize - 1 PROVE a \in Cells /\ a \notin A \cup F
    BY <1>9, Layout DEF Cells
  <2> QED BY <1>11, <2>1 DEF SameHead, SameOutside
<1>14. \A c \in Blocks : SameBlock(x, z, c)
  <2> SUFFICES ASSUME NEW c \in Blocks PROVE SameBlock(x, z, c)
    OBVIOUS
  <2>1. ASSUME NEW p \in 0 .. BlockSize - 1 PROVE c * BlockSize + p \notin A \cup F
    <3>1. c * BlockSize + p \in DataBase .. DiskSize - 1
      BY BlockCell
    <3> QED BY <1>9, <3>1, Layout
  <2> QED BY <1>2, <1>6, <1>11, <2>1, BlockFrame
<1>15. ASSUME NEW j \in Nodes(x) PROVE SameRefs(x, z, j) /\ SameNode(x, z, j)
  <2>1. j \in Inodes /\ j # k
    BY DEF Nodes
  <2>2. ASSUME NEW f \in Fields PROVE Field(z, j, f) = Field(x, j, f)
    <3>1. f \in 0 .. 4 /\ FieldAt(j, f) \in InodeBase .. DataBase - 1
      BY <1>2, <2>1, FieldIs
    <3>2. FieldAt(j, f) \notin F
      <4> SUFFICES ASSUME FieldAt(j, f) \in F PROVE FALSE
        OBVIOUS
      <4>1. F = at .. at + 4
        BY DEF F
      <4> DEFINE g == FieldAt(j, f) - at
      <4>2. g \in 0 .. 4 /\ FieldAt(j, f) = at + g
        BY <1>3, <3>1, <4>1, Layout
      <4> HIDE DEF g
      <4>3. FieldAt(j, f) = FieldAt(k, g)
        BY <1>4, <4>2
      <4> QED BY <2>1, <3>1, <4>2, <4>3, FieldCell
    <3>3. FieldAt(j, f) \notin A \cup F
      BY <1>9, <3>1, <3>2, Layout
    <3> QED BY <1>2, <1>6, <1>11, <2>1, <3>3, FieldFrame
  <2>3. \A s1 \in Slots : Ref(x, j, s1) # 0 => SameBlock(x, z, Ref(x, j, s1))
    BY <1>14, SoundRef
  <2> QED BY <2>2, <2>3, NodeFrame
<1>16. \A t \in Slots : Ref(z, k, t) = 0
  <2> SUFFICES ASSUME NEW t \in Slots PROVE Ref(z, k, t) = 0
    OBVIOUS
  <2>1. -1 \in Slots
    BY SlotIs
  <2>2. Ref(z, k, -1) = 0
    BY <1>8, <2>1, RefIs
  <2> QED BY <1>8, <2>2, RefIs
<1>17. Nodes(z) = Nodes(x) \cup {k} /\ Marked(z) = Marked(x)
  BY <1>1, <1>12
<1>18. Sound(z)
  <2>1. \A i \in Nodes(z), t \in Slots : Ref(z, i, t) # 0 => i \in Nodes(x) /\ Ref(z, i, t) = Ref(x, i, t)
    BY <1>15, <1>16, <1>17 DEF SameRefs
  <2>2. \A i \in Nodes(z), t \in Slots : Ref(z, i, t) \in Marked(z) \cup {0}
    BY <1>17, <2>1 DEF Sound
  <2>3. ASSUME NEW i \in Nodes(z), NEW j \in Nodes(z), NEW t \in Slots, NEW u \in Slots,
               Ref(z, i, t) # 0, Ref(z, i, t) = Ref(z, j, u)
        PROVE  i = j /\ t = u
    <3>1. i \in Nodes(x) /\ Ref(z, i, t) = Ref(x, i, t) /\ j \in Nodes(x) /\ Ref(z, j, u) = Ref(x, j, u)
      BY <2>1, <2>3
    <3> QED BY <2>3, <3>1 DEF Sound
  <2> QED BY <1>6, <2>2, <2>3 DEF Sound
<1> QED BY <1>8, <1>13, <1>15, <1>17, <1>18 DEF Begins

\* A new node on the disk of the builder.
LEMMA FreshDisk ==
  ASSUME NEW D, HostDisk(D), NEW k \in Inodes, k \notin Nodes(D.img),
         NEW f, HostOK(f), f.eof >= D.eof,
         f.img = CellPut(D.img, InodeBitmapBase + k \div WordBits,
                         D.img[InodeBitmapBase + k \div WordBits] + Power[k % WordBits]),
         NEW type, type \in Nat, NEW links, links \in Nat,
         NEW R, R = FreshNode(f, k, type, links)
  PROVE  HostDisk(R) /\ Begins(D.img, R.img, k, type, links)
<1> DEFINE at == FieldAt(k, Type)
           s == <<type, links, 0, 0, 0>>
<1>1. Sound(D.img) /\ D.eof \in Nat /\ 3 * BlockSize <= D.eof
  BY DEF HostDisk
<1>2. at \in Nat /\ at + 5 > FieldAt(k, 4)
  <2>1. k \in Nat
    BY DEF Inodes
  <2> QED BY <2>1, Layout DEF FieldAt, NodeSize, Type
<1>3. s \in Seq(Nat) /\ Len(s) = 5 /\ s # <<>>
  BY FreshCells
<1>4. R = HostWrite(f, at, s)
  BY DEF FreshNode
<1>5. HostOK(R) /\ R.img = Overlay(f.img, at, s) /\ R.eof >= f.eof /\ R.eof >= at + 5
  <2> HIDE DEF at, s
  <2>1. /\ HostOK(HostWrite(f, at, s)) /\ HostWrite(f, at, s).img = Overlay(f.img, at, s)
        /\ HostWrite(f, at, s).eof >= f.eof /\ HostWrite(f, at, s).eof >= at + Len(s)
    BY <1>2, <1>3, HostWriteIs
  <2> QED BY <1>3, <1>4, <2>1
<1>6. Sound(R.img) /\ Marked(R.img) = Marked(D.img) /\ Begins(D.img, R.img, k, type, links)
  BY <1>1, <1>5, FreshStep
<1>7. HostDisk(R)
  <2>1. IsHost(R) /\ ~Failed(R) /\ R.eof \in Nat /\ f.eof \in Nat
    BY <1>5 DEF HostOK
  <2>2. R.eof >= D.eof
    BY <1>1, <1>5, <2>1
  <2>3. 3 * BlockSize <= R.eof
    BY <1>1, <2>1, <2>2, Layout
  <2>4. ASSUME NEW i \in Nodes(R.img) PROVE FieldAt(i, 4) < R.eof
    <3>1. i \in Inodes /\ i \in Nat
      BY DEF Nodes, Inodes
    <3>2. FieldAt(i, 4) \in Nat
      BY <3>1, Layout DEF FieldAt, NodeSize
    <3>3. CASE i = k
      BY <1>2, <1>5, <2>1, <3>2, <3>3
    <3>4. CASE i # k
      <4>1. i \in Nodes(D.img)
        BY <1>6, <3>4 DEF Begins
      <4>2. FieldAt(i, 4) < D.eof
        BY <4>1 DEF HostDisk
      <4> QED BY <1>1, <2>1, <2>2, <3>2, <4>2
    <3> QED BY <3>3, <3>4
  <2>5. ASSUME NEW b \in Marked(R.img) PROVE b * BlockSize + BlockSize <= R.eof
    <3>1. b * BlockSize + BlockSize <= D.eof
      BY <1>6, <2>5 DEF HostDisk
    <3>2. b \in Blocks
      BY <2>5 DEF Marked
    <3>3. b \in Nat
      BY <3>2, Layout DEF Blocks, FirstBlock
    <3>4. b * BlockSize \in Nat /\ BlockSize \in Nat
      BY <3>3, Layout
    <3> DEFINE e == b * BlockSize
    <3> HIDE DEF e
    <3>5. e + BlockSize <= D.eof /\ e \in Nat
      BY <3>1, <3>4 DEF e
    <3>6. e + BlockSize <= R.eof
      BY <1>1, <2>1, <2>2, <3>4, <3>5
    <3> QED BY <3>6 DEF e
  <2> QED BY <1>6, <2>1, <2>3, <2>4, <2>5 DEF HostDisk
<1> QED BY <1>6, <1>7

\* newFile and newDirectory: a node that nobody had, with one link.
LEMMA NewNodeIs ==
  ASSUME NEW D, HostDisk(D), NEW i \in Nodes(D.img), NEW name, NEW type, type \in Nat,
         NEW n, n = NewNode(D, i, name, type), ~Failed(n.linked.D)
  PROVE  /\ HostDisk(n.linked.D) /\ Begins(D.img, n.linked.D.img, n.inode, type, 1)
         /\ n.linked.writing = [inode |-> i, off |-> Field(D.img, i, Size),
                                rest |-> EntryCells(n.inode, name)]
<1> DEFINE f == HostFind(D, InodeBitmapBase)
           c == Counted(f)
           k == f.index
           F == FreshNode(c, k, type, 0)
<1>1. HostOK(D) /\ IsHost(D) /\ 3 * BlockSize <= D.eof /\ Sound(D.img)
  BY HostDiskOK
<1>2. n = [inode |-> k, linked |-> LinkNode(F, i, name, k)]
  BY DEF NewNode, NewNodeAt
<1>3. /\ f = [D |-> f.D, index |-> k]
      /\ \/ k = -1
         \/ /\ k \in 0 .. Bits - 1 /\ ~BitIsSet(D.img, InodeBitmapBase, k)
            /\ HostOK(f.D) /\ f.D.refused = D.refused /\ f.D.eof >= D.eof
            /\ f.D.img = CellPut(D.img, InodeBitmapBase + k \div WordBits,
                                 D.img[InodeBitmapBase + k \div WordBits] + Power[k % WordBits])
  BY <1>1, HostFindIs
<1>4. After(D, f.D)
  BY <1>1, HostFindAfter
<1>5. After(f.D, c) /\ (k = -1 => Failed(c)) /\ (k # -1 => c = f.D)
  <2>1. IsHost(f.D)
    BY <1>4 DEF After
  <2> HIDE DEF f
  <2> QED BY <2>1, RefuseAfter, AfterRefl DEF Counted, NoNode
<1>6. After(c, F)
  BY <1>5, HostWriteAfter DEF After, FreshNode
<1>7. After(F, n.linked.D)
  <2> HIDE DEF F, k
  <2> QED BY <1>2, <1>6, LinkNodeAfter DEF After
<1>8. ~Failed(F) /\ ~Failed(c)
  BY <1>6, <1>7 DEF After
<1>9. /\ k # -1 /\ c = f.D /\ k \in 0 .. Bits - 1
  BY <1>3, <1>5, <1>8
<1>10. k \in Inodes /\ k \notin Nodes(D.img)
  BY <1>3, <1>9 DEF Inodes, Nodes
<1> HIDE DEF f, k
<1>11. HostDisk(F) /\ Begins(D.img, F.img, k, type, 0)
  BY <1>3, <1>9, <1>10, FreshDisk
<1> HIDE DEF c, F
<1>12. i \in Nodes(F.img) /\ k \in Nodes(F.img) /\ i # k
  BY <1>10, <1>11 DEF Begins
<1>13. HostField(F, k, Links) = 0 /\ HostField(F, i, Size) = Field(D.img, i, Size)
  <2>1. HostField(F, k, Links) = Field(F.img, k, Links) /\ HostField(F, i, Size) = Field(F.img, i, Size)
    BY <1>11, <1>12, HostFieldIs DEF Fields
  <2>2. Field(F.img, i, Size) = Field(D.img, i, Size)
    BY <1>11 DEF Begins, SameNode, SameFields
  <2> QED BY <1>11, <2>1, <2>2 DEF Begins
<1> DEFINE R == n.linked.D
<1>14. R = HostWrite(F, FieldAt(k, Links), <<1>>)
  BY <1>2, <1>13 DEF LinkNode, Linked, HostSetField
<1>15. n.linked.writing = [inode |-> i, off |-> Field(D.img, i, Size), rest |-> EntryCells(n.inode, name)]
  BY <1>2, <1>13 DEF LinkNode
<1>16. n.inode = k
  BY <1>2
<1> HIDE DEF R
<1>17. HostOK(F) /\ Sound(F.img)
  BY <1>11, HostDiskOK
<1>18. FieldAt(k, Links) \in Nat
  <2>1. k \in Nat
    BY <1>10 DEF Inodes
  <2> QED BY <2>1, Layout DEF FieldAt, NodeSize, Links
<1>19. HostOK(R) /\ R.img = CellPut(F.img, FieldAt(k, Links), 1) /\ R.eof >= F.eof
  BY <1>14, <1>17, <1>18, HostCellIs
<1>20. /\ Sound(R.img) /\ Nodes(R.img) = Nodes(F.img) /\ Marked(R.img) = Marked(F.img)
       /\ SameHead(F.img, R.img)
       /\ \A j \in Nodes(F.img) : j # k => SameNode(F.img, R.img, j)
       /\ Field(R.img, k, Links) = 1
       /\ \A g \in Fields : g # Links => Field(R.img, k, g) = Field(F.img, k, g)
  BY <1>12, <1>17, <1>19, FieldStep
<1>21. HostDisk(R)
  <2>1. IsHost(R) /\ ~Failed(R) /\ R.eof \in Nat
    BY <1>19 DEF HostOK
  <2> QED BY <1>11, <1>19, <1>20, <2>1, HostKept
<1>22. Begins(D.img, R.img, k, type, 1)
  <2>1. Type \in Fields /\ Size \in Fields /\ Type # Links /\ Size # Links
    BY DEF Fields, Type, Size, Links
  <2>2. Field(R.img, k, Type) = type /\ Field(R.img, k, Size) = 0
    BY <1>11, <1>20, <2>1 DEF Begins
  <2>3. ASSUME NEW j \in Nodes(D.img) PROVE SameNode(D.img, R.img, j)
    <3>1. SameNode(D.img, F.img, j) /\ SameNode(F.img, R.img, j)
      BY <1>10, <1>11, <1>20, <2>3 DEF Begins
    <3> QED BY <3>1 DEF SameNode, SameFields, SameCells
  <2>4. SameHead(D.img, R.img)
    BY <1>11, <1>20 DEF Begins, SameHead
  <2> QED BY <1>10, <1>11, <1>20, <2>2, <2>3, <2>4 DEF Begins
<1> QED BY <1>15, <1>16, <1>21, <1>22 DEF R

-----------------------------------------------------------------------------
(* The empty file system *)

\* A word of zeros has no bits.
LEMMA NoBits ==
  ASSUME NEW x, NEW base, NEW k \in 0 .. Bits - 1, x[base + k \div WordBits] = 0
  PROVE  ~BitIsSet(x, base, k)
<1>1. k % WordBits \in 0 .. WordBits
  BY WordCell, Layout
<1>2. Power[k % WordBits] \in Nat /\ Power[k % WordBits] > 0
  BY <1>1, PowerStep
<1> DEFINE p == Power[k % WordBits]
<1>3. 0 * p + 0 = 0 /\ 0 \in 0 .. p - 1
  BY <1>2
<1> HIDE DEF p
<1>4. p \in Nat
  BY <1>2 DEF p
<1>5. 0 \div p = 0
  <2>1. (0 * p + 0) \div p = 0
    BY <1>3, <1>4, DivIs
  <2> QED BY <1>3, <2>1
<1>6. x[base + k \div WordBits] \div Power[k % WordBits] = 0
  BY <1>5 DEF p
<1> QED BY <1>6 DEF BitIsSet

\* A disk without nodes.
LEMMA NoNodes ==
  ASSUME NEW x \in Img, \A a \in Cells : a >= BlockSize => x[a] = 0
  PROVE  Sound(x) /\ Nodes(x) = {} /\ Marked(x) = {}
<1>1. ASSUME NEW base \in {DataBitmapBase, InodeBitmapBase}, NEW k \in 0 .. Bits - 1
      PROVE  ~BitIsSet(x, base, k)
  <2>1. k \div WordBits \in 0 .. BlockSize - 1
    BY WordCell
  <2>2. base + k \div WordBits \in Cells /\ base + k \div WordBits >= BlockSize
    BY <2>1, Layout DEF Cells
  <2> QED BY <2>2, NoBits
<1>2. Nodes(x) = {}
  BY <1>1 DEF Nodes, Inodes
<1>3. Marked(x) = {}
  <2> SUFFICES ASSUME NEW b \in Blocks PROVE ~BitIsSet(x, DataBitmapBase, b - FirstBlock)
    BY DEF Marked
  <2>1. b - FirstBlock \in 0 .. Bits - 1
    BY Layout DEF Blocks, FirstBlock
  <2> QED BY <1>1, <2>1
<1> QED BY <1>2, <1>3 DEF Sound

\* The host file before the first write.
LEMMA EmptyFileIs == HostOK(EmptyFile) /\ EmptyFile.eof = 0 /\ \A a \in Cells : EmptyFile.img[a] = 0
BY Layout DEF EmptyFile, HostOK, IsHost, Failed, Img, Cells

\* The first block and the bitmap of the inodes.
LEMMA HeadIs ==
  ASSUME NEW c, c = HostClear(HostWrite(HostWrite(HostWrite(EmptyFile, 0, Zeros(BlockSize)), 0, Magic),
                                        RootAt, <<RootInode>>), InodeBitmapBase)
  PROVE  /\ HostDisk(c) /\ Nodes(c.img) = {} /\ Superblock(c.img)
         /\ \A a \in Cells : a >= BlockSize => c.img[a] = 0
<1> DEFINE s1 == HostWrite(EmptyFile, 0, Zeros(BlockSize))
           s2 == HostWrite(s1, 0, Magic)
           s3 == HostWrite(s2, RootAt, <<RootInode>>)
<1>1. c = HostWrite(s3, InodeBitmapBase, Zeros(BlockSize))
  BY DEF HostClear
<1>2. /\ HostOK(s1) /\ \A a \in Cells : s1.img[a] = IF a \in 0 .. 0 + BlockSize - 1 THEN 0 ELSE EmptyFile.img[a]
  BY EmptyFileIs, HostZerosIs
<1>3. \A a \in Cells : s1.img[a] = 0
  BY <1>2, EmptyFileIs
<1> HIDE DEF s1
<1> DEFINE m == Magic
           z == 0
<1>4. m \in Seq(Nat) /\ m # <<>> /\ Len(m) = 2 /\ m[1] = 4 /\ m[2] = 3
  BY DEF Magic
<1>5. s2 = HostWrite(s1, z, m) /\ z \in Nat
  OBVIOUS
<1> HIDE DEF m, z
<1>6. HostOK(s2) /\ s2.img = Overlay(s1.img, z, m)
  <2>1. HostOK(HostWrite(s1, z, m)) /\ HostWrite(s1, z, m).img = Overlay(s1.img, z, m)
    <3>1. HostOK(s1) /\ z \in Nat /\ m \in Seq(Nat) /\ m # <<>>
      BY <1>2, <1>4, <1>5
    <3>2. \A R : R = HostWrite(s1, z, m) => HostOK(R) /\ R.img = Overlay(s1.img, z, m)
      BY <3>1, HostWriteIs
    <3> QED BY <3>2
  <2> QED BY <1>5, <2>1
<1>7. \A a \in Cells : s2.img[a] = IF a \in 0 .. 0 + Len(m) - 1 THEN m[a - 0 + 1] ELSE s1.img[a]
  <2>1. \A a \in Cells : Overlay(s1.img, z, m)[a] =
          IF a \in z .. z + Len(m) - 1 THEN m[a - z + 1] ELSE s1.img[a]
    BY <1>2, <1>4, <1>5, OverlayIs DEF HostOK
  <2> QED BY <1>6, <2>1 DEF z
<1>8. 0 \in Cells /\ 1 \in Cells /\ 2 \in Cells /\ RootAt = 2 /\ RootInode \in Nat
  BY Layout DEF Cells, RootAt, Inodes
<1>9. s2.img[0] = 4 /\ s2.img[1] = 3 /\ \A a \in Cells : a >= BlockSize => s2.img[a] = 0
  <2>1. s2.img[0] = m[1] /\ s2.img[1] = m[2]
    BY <1>4, <1>7, <1>8
  <2>2. ASSUME NEW a \in Cells, a >= BlockSize PROVE s2.img[a] = 0
    <3>1. a \notin 0 .. 0 + Len(m) - 1
      BY <1>4, <2>2, Layout
    <3> QED BY <1>3, <1>7, <3>1
  <2> QED BY <1>4, <2>1, <2>2
<1> HIDE DEF s2
<1>10. HostOK(s3) /\ s3.img = CellPut(s2.img, RootAt, RootInode)
  <2>1. \A R : R = HostWrite(s2, RootAt, <<RootInode>>) =>
                 HostOK(R) /\ R.img = CellPut(s2.img, RootAt, RootInode)
    BY <1>6, <1>8, HostCellIs
  <2> QED BY <2>1
<1>11. \A a \in Cells : s3.img[a] = IF a = RootAt THEN RootInode ELSE s2.img[a]
  BY <1>6, <1>8, <1>10, OverlayCell DEF HostOK
<1>12. /\ s3.img[0] = 4 /\ s3.img[1] = 3 /\ s3.img[2] = RootInode
       /\ \A a \in Cells : a >= BlockSize => s3.img[a] = 0
  BY <1>8, <1>9, <1>11, Layout DEF Cells
<1> HIDE DEF s3
<1>13. InodeBitmapBase \in Nat /\ InodeBitmapBase = 2 * BlockSize
  BY Layout
<1>14. /\ HostOK(c) /\ c.eof >= InodeBitmapBase + BlockSize
       /\ \A a \in Cells : c.img[a] =
            IF a \in InodeBitmapBase .. InodeBitmapBase + BlockSize - 1 THEN 0 ELSE s3.img[a]
  BY <1>1, <1>10, <1>13, HostZerosIs
<1>15. \A a \in Cells : a >= BlockSize => c.img[a] = 0
  BY <1>12, <1>14
<1>16. c.img[0] = 4 /\ c.img[1] = 3 /\ c.img[2] = RootInode
  <2>1. \A a \in {0, 1, 2} : a \notin InodeBitmapBase .. InodeBitmapBase + BlockSize - 1
    BY <1>13, Layout
  <2> QED BY <1>8, <1>12, <1>14, <2>1
<1>17. Sound(c.img) /\ Nodes(c.img) = {} /\ Marked(c.img) = {}
  BY <1>14, <1>15, NoNodes DEF HostOK
<1>18. Superblock(c.img)
  <2>1. ReadCells(c.img, 0, 2) = <<c.img[0], c.img[1]>>
    <3>1. ReadCells(c.img, 0, 2) = [j \in 1 .. 2 |-> c.img[j - 1]]
      BY DEF ReadCells
    <3> QED BY <3>1
  <2> QED BY <1>16, <2>1 DEF Superblock, Magic, Root, RootAt
<1>19. c.eof \in Nat /\ 3 * BlockSize <= c.eof /\ IsHost(c) /\ ~Failed(c)
  BY <1>13, <1>14, Layout DEF HostOK
<1> QED BY <1>15, <1>17, <1>18, <1>19 DEF HostDisk

\* The file system as mkfs begins: a root directory without entries.
LEMMA MkfsIs ==
  /\ HostDisk(Mkfs) /\ Superblock(Mkfs.img) /\ Mkfs.refused = {}
  /\ Nodes(Mkfs.img) = {RootInode} /\ Field(Mkfs.img, RootInode, Type) = DIR_TYPE
  /\ Field(Mkfs.img, RootInode, Size) = 0
  /\ HostRead(Mkfs, RootAt) = RootInode
<1> DEFINE c == HostClear(HostWrite(HostWrite(HostWrite(EmptyFile, 0, Zeros(BlockSize)), 0, Magic),
                                    RootAt, <<RootInode>>), InodeBitmapBase)
           t == HostSet(c, InodeBitmapBase, RootInode)
           d == HostClear(t, DataBitmapBase)
<1>1. Mkfs = FreshNode(d, RootInode, DIR_TYPE, 1)
  BY DEF Mkfs
<1>2. /\ HostDisk(c) /\ Nodes(c.img) = {} /\ Superblock(c.img)
      /\ \A a \in Cells : a >= BlockSize => c.img[a] = 0
  BY HeadIs
<1> HIDE DEF c
<1>3. RootInode \in Inodes /\ RootInode \in 0 .. Bits - 1 /\ RootInode \notin Nodes(c.img)
  BY <1>2, Layout DEF Inodes
<1>4. HostOK(c) /\ 3 * BlockSize <= c.eof
  BY <1>2, HostDiskOK
<1> DEFINE base == InodeBitmapBase
           w == base + RootInode \div WordBits
           v == c.img[w] + Power[RootInode % WordBits]
<1>5. HostRead(c, w) = c.img[w] /\ HostBit(c, base, RootInode) # 1
  <2>1. ~BitIsSet(c.img, base, RootInode)
    BY <1>3 DEF Nodes
  <2>2. /\ HostRead(c, base + RootInode \div WordBits) = c.img[base + RootInode \div WordBits]
        /\ HostBit(c, base, RootInode) = 1 <=> BitIsSet(c.img, base, RootInode)
    BY <1>3, <1>4, HostBitIs DEF HostOK
  <2> QED BY <2>1, <2>2
<1>6. t = HostWrite(c, w, <<v>>)
  BY <1>5 DEF HostSet
<1>7. w \in Nat /\ v \in Nat /\ w >= BlockSize
  <2>1. RootInode \div WordBits \in 0 .. BlockSize - 1 /\ RootInode % WordBits \in 0 .. WordBits
    BY <1>3, WordCell, Layout
  <2>2. w \in Cells /\ w \in Nat /\ w >= BlockSize
    BY <2>1, Layout DEF Cells
  <2>3. c.img[w] \in Nat
    BY <1>4, <2>2 DEF HostOK, Img
  <2>4. Power[RootInode % WordBits] \in Nat
    BY <2>1, PowerStep
  <2> QED BY <2>2, <2>3, <2>4
<1> HIDE DEF t, v, w
<1>8. HostOK(t) /\ t.img = CellPut(c.img, w, v) /\ t.eof >= c.eof
  <2>1. HostOK(HostWrite(c, w, <<v>>)) /\ HostWrite(c, w, <<v>>).eof >= c.eof
        /\ HostWrite(c, w, <<v>>).img = CellPut(c.img, w, v)
    BY <1>4, <1>7, HostCellIs
  <2> QED BY <1>6, <2>1
<1>9. d = HostWrite(t, DataBitmapBase, Zeros(BlockSize))
  BY DEF HostClear
<1> HIDE DEF d
<1>10. /\ HostOK(d) /\ d.eof >= t.eof
       /\ \A a \in Cells : d.img[a] =
            IF a \in DataBitmapBase .. DataBitmapBase + BlockSize - 1 THEN 0 ELSE t.img[a]
  BY <1>8, <1>9, HostZerosIs, Layout
<1>11. d.img = t.img
  <2>1. ASSUME NEW a \in Cells PROVE d.img[a] = t.img[a]
    <3>1. CASE a \in DataBitmapBase .. DataBitmapBase + BlockSize - 1
      <4>1. a >= BlockSize /\ a # w
        <5>1. w >= InodeBitmapBase
          BY <1>3, WordCell, Layout DEF w
        <5> QED BY <1>7, <3>1, <5>1, Layout
      <4>2. t.img[a] = c.img[a]
        BY <1>4, <1>7, <1>8, <4>1, OverlayCell DEF HostOK
      <4> QED BY <1>2, <1>10, <3>1, <4>1, <4>2
    <3> QED BY <1>10, <3>1
  <2> QED BY <1>8, <1>10, <2>1 DEF HostOK, Img
<1>12. HostDisk(Mkfs) /\ Begins(c.img, Mkfs.img, RootInode, DIR_TYPE, 1)
  <2>1. d.eof >= c.eof
    BY <1>4, <1>8, <1>10 DEF HostOK
  <2>2. d.img = CellPut(c.img, InodeBitmapBase + RootInode \div WordBits,
                        c.img[InodeBitmapBase + RootInode \div WordBits] + Power[RootInode % WordBits])
    BY <1>8, <1>11 DEF w, v
  <2>3. DIR_TYPE \in Nat /\ 1 \in Nat
    BY DEF DIR_TYPE
  <2> QED BY <1>1, <1>2, <1>3, <1>10, <2>1, <2>2, <2>3, FreshDisk
<1>13. Superblock(Mkfs.img)
  BY <1>2, <1>12, SuperblockFrame DEF Begins
<1>14. HostRead(Mkfs, RootAt) = RootInode
  <2>1. 3 * BlockSize <= Mkfs.eof /\ Mkfs.eof \in Nat
    BY <1>12 DEF HostDisk
  <2>2. RootAt < Mkfs.eof
    BY <2>1, Layout DEF RootAt
  <2> QED BY <1>13, <2>2 DEF HostRead, Superblock, Root
<1>15. Mkfs.refused = {}
  BY <1>12 DEF HostDisk, Failed
<1> QED BY <1>2, <1>12, <1>13, <1>14, <1>15 DEF Begins

-----------------------------------------------------------------------------
(* The invariant of the builder *)

\* The tree so far: of the host directory of node c, the first P[c] entries.
TreeSoFar(x, g, P) ==
  /\ g \in Ghosts /\ P \in [Inodes -> Nat]
  /\ RootInode \in Dirs(x) /\ g.list[RootInode] = tree
  /\ \A c \in Dirs(x) : /\ GoodDir(g, c, P[c])
                        /\ \A m \in 1 .. Len(g.kids[c]) : KidOK(x, g, g.kids[c][m])

\* Node i has the first n cells of its data.
Reached(x, i, data, n) ==
  /\ Field(x, i, Size) = n
  /\ \A o \in 1 .. n : o - 1 \in FileCells /\ CellOf(x, i, o - 1) = data[o]

\* What is still to be written, w, is the rest of the data of its node.
Unwritten(x, g, w) ==
  /\ w \in [inode : Nodes(x), off : Nat, rest : Seq(Nat)]
  /\ Reached(x, w.inode, g.data[w.inode], w.off)
  /\ w.off + Len(w.rest) = Len(g.data[w.inode])
  /\ \A j \in 1 .. Len(w.rest) : w.rest[j] = g.data[w.inode][w.off + j]

DataSoFar(x, g, w) ==
  /\ w.rest \in Seq(Nat)
  /\ w.rest # <<>> => Unwritten(x, g, w)
  /\ \A i \in Nodes(x) : (w.rest # <<>> /\ i = w.inode) \/ Holds(x, i, g.data[i])

\* The file that is copied, c, has the rest of its data still to come.
FileSoFar(g, c, k) ==
  IF c.inode = k.inode THEN g.data[k.inode] \o c.rest = k.entry.data
  ELSE g.data[k.inode] = k.entry.data

CopyingOK(x, g, c) ==
  /\ c \in [inode : Nodes(x), off : Nat, rest : Seq(Nat)]
  /\ Field(x, c.inode, Type) = FILE_TYPE /\ c.off = Len(g.data[c.inode])

FilesSoFar(x, g, c) ==
  /\ c # NotCopying => CopyingOK(x, g, c)
  /\ \A d \in Dirs(x) : \A m \in 1 .. Len(g.kids[d]) :
       g.kids[d][m].entry.kind = "file" => FileSoFar(g, c, g.kids[d][m])

\* A call of "one" has its directory, and the entries that are still to come.
FrameOK(x, g, P, f) ==
  /\ f.dir \in Dirs(x) /\ f.rest \in Seq(Entries)
  /\ P[f.dir] + Len(f.rest) = Len(g.list[f.dir])
  /\ \A j \in 1 .. Len(f.rest) : f.rest[j] = g.list[f.dir][P[f.dir] + j]

Directories == [dir : Inodes, rest : Seq(Entries)]

FramesSoFar(x, g, P, fs) ==
  /\ fs \in Seq(Directories)
  /\ \A a \in 1 .. Len(fs) : FrameOK(x, g, P, fs[a])
  /\ \A a, b \in 1 .. Len(fs) : fs[a].dir = fs[b].dir => a = b
  /\ \A c \in Dirs(x) : P[c] = Len(g.list[c]) \/ \E a \in 1 .. Len(fs) : fs[a].dir = c

BuilderAt(g, P) ==
  /\ HostDisk(image) /\ Superblock(image.img)
  /\ TreeSoFar(image.img, g, P) /\ DataSoFar(image.img, g, writing)
  /\ FilesSoFar(image.img, g, copying) /\ FramesSoFar(image.img, g, P, frames)
  /\ frames = <<>> => copying = NotCopying /\ writing.rest = <<>>

\* As long as nothing has failed.
BuilderOK == IsHost(image) /\ (~Failed(image) => \E g, P : BuilderAt(g, P))

\* What the nodes are for, one by one.
LEMMA GhostIs ==
  ASSUME NEW g \in Ghosts, NEW i \in Inodes
  PROVE  /\ g.list[i] \in Listings /\ g.list[i] \in Seq(Entries)
         /\ g.kids[i] \in Seq(Kids) /\ g.data[i] \in Seq(Nat)
<1>1. g.list[i] \in Listings /\ g.kids[i] \in Seq(Kids) /\ g.data[i] \in Seq(Nat)
  BY DEF Ghosts
<1> QED BY <1>1, ListingIs

\* When all has been written, the node holds its data.
LEMMA ReachedAll ==
  ASSUME NEW x, NEW i, NEW data
  PROVE  Reached(x, i, data, Len(data)) <=> Holds(x, i, data)
BY DEF Reached, Holds, HasCells

\* The builder is done when there is no call left.
LEMMA DoneOK == BuilderOK => BuilderDone
<1> SUFFICES ASSUME BuilderOK, Built, Fits
             PROVE  /\ Sound(image.img) /\ Superblock(image.img)
                    /\ \E g : TreeOK(image.img, g, tree) /\ Filled(image.img, g)
  BY DEF BuilderDone
<1> DEFINE x == image.img
<1>1. ~Failed(image)
  BY DEF Built, Fits, Failed, BuilderOK, IsHost
<1>2. PICK g, P : BuilderAt(g, P)
  BY <1>1 DEF BuilderOK
<1>3. Sound(x) /\ Superblock(x)
  BY <1>2 DEF BuilderAt, HostDisk
<1>4. TreeSoFar(x, g, P) /\ DataSoFar(x, g, writing) /\ FilesSoFar(x, g, copying) /\ FramesSoFar(x, g, P, frames)
  BY <1>2 DEF BuilderAt
<1>5. frames = <<>> /\ copying = NotCopying /\ writing.rest = <<>>
  BY <1>2 DEF BuilderAt, Built
<1> HIDE DEF x
<1>6. \A c \in Dirs(x) : P[c] = Len(g.list[c])
  BY <1>4, <1>5 DEF FramesSoFar
<1>7. \A i \in Nodes(x) : Holds(x, i, g.data[i])
  BY <1>4, <1>5 DEF DataSoFar
<1>8. TreeOK(x, g, tree)
  <2>1. \A c \in Dirs(x) : c \in Nodes(x)
    BY DEF Dirs
  <2> QED BY <1>4, <1>6, <1>7, <2>1 DEF TreeOK, TreeSoFar
<1>9. Filled(x, g)
  <2> SUFFICES ASSUME NEW c \in Dirs(x), NEW m \in 1 .. Len(g.kids[c]), g.kids[c][m].entry.kind = "file"
               PROVE  Holds(x, g.kids[c][m].inode, g.kids[c][m].entry.data)
    BY DEF Filled
  <2> DEFINE k == g.kids[c][m]
  <2>1. KidOK(x, g, k)
    BY <1>4 DEF TreeSoFar
  <2>2. FileSoFar(g, copying, k)
    BY <1>4 DEF FilesSoFar
  <2> HIDE DEF k
  <2>3. k.inode \in Nodes(x)
    BY <2>1 DEF KidOK
  <2>4. k.inode # -1
    BY <2>3 DEF Nodes, Inodes
  <2>5. g.data[k.inode] = k.entry.data
    BY <1>5, <2>2, <2>4 DEF FileSoFar, NotCopying, NoNode
  <2>6. Holds(x, k.inode, k.entry.data)
    BY <1>7, <2>3, <2>5
  <2> QED BY <2>6 DEF k
<1> QED BY <1>3, <1>8, <1>9 DEF x

-----------------------------------------------------------------------------
(* The steps of the builder *)

\* The same nodes, of the same types and with the same links: the same tree.
SameKinds(x, y) ==
  /\ Nodes(y) = Nodes(x)
  /\ \A i \in Nodes(x) : Field(y, i, Type) = Field(x, i, Type) /\ Field(y, i, Links) = Field(x, i, Links)

\* The same kinds: the same directories, files and calls.
LEMMA KindsFrame ==
  ASSUME NEW x, NEW y, SameKinds(x, y), NEW g, NEW P
  PROVE  /\ Dirs(y) = Dirs(x)
         /\ TreeSoFar(x, g, P) => TreeSoFar(y, g, P)
         /\ \A c : FilesSoFar(x, g, c) => FilesSoFar(y, g, c)
         /\ \A fs : FramesSoFar(x, g, P, fs) => FramesSoFar(y, g, P, fs)
<1>1. Dirs(y) = Dirs(x)
  BY DEF SameKinds, Dirs
<1>2. \A k : KidOK(x, g, k) => KidOK(y, g, k)
  BY DEF SameKinds, KidOK
<1>3. \A c : CopyingOK(x, g, c) => CopyingOK(y, g, c)
  BY DEF SameKinds, CopyingOK
<1>4. \A f : FrameOK(x, g, P, f) => FrameOK(y, g, P, f)
  BY <1>1 DEF FrameOK
<1>5. TreeSoFar(x, g, P) => TreeSoFar(y, g, P)
  BY <1>1, <1>2 DEF TreeSoFar
<1>6. \A c : FilesSoFar(x, g, c) => FilesSoFar(y, g, c)
  BY <1>1, <1>3 DEF FilesSoFar
<1>7. \A fs : FramesSoFar(x, g, P, fs) => FramesSoFar(y, g, P, fs)
  BY <1>1, <1>4 DEF FramesSoFar
<1> QED BY <1>1, <1>5, <1>6, <1>7

\* A change of one file's cells changes no kinds.
LEMMA OneFileKinds ==
  ASSUME NEW x, NEW y, NEW i, OneFile(x, y, i)
  PROVE  SameKinds(x, y)
BY DEF OneFile, SameKinds, SameNode, SameFields

\* A round of writeAll: more of the data has been written.
LEMMA DataWritten ==
  ASSUME NEW D, HostDisk(D), NEW g \in Ghosts, NEW w, DataSoFar(D.img, g, w), w.rest # <<>>,
         NEW n, n = PieceLength(w.off, Len(w.rest), BlockSize),
         NEW R, R = HostWritePiece(D, w.inode, w.off, SubSeq(w.rest, 1, n)), ~Failed(R),
         NEW v, v = [w EXCEPT !.off = @ + n, !.rest = SubSeq(@, n + 1, Len(@))]
  PROVE  HostDisk(R) /\ OneFile(D.img, R.img, w.inode) /\ DataSoFar(R.img, g, v)
<1> DEFINE x == D.img
           y == R.img
           i == w.inode
           off == w.off
           rest == w.rest
           data == g.data[i]
           cells == SubSeq(rest, 1, n)
           more == SubSeq(rest, n + 1, Len(rest))
<1>1. /\ w \in [inode : Nodes(x), off : Nat, rest : Seq(Nat)]
      /\ Reached(x, i, data, off) /\ off + Len(rest) = Len(data)
      /\ \A j \in 1 .. Len(rest) : rest[j] = data[off + j]
  BY DEF DataSoFar, Unwritten
<1>2. i \in Nodes(x) /\ off \in Nat /\ rest \in Seq(Nat) /\ rest # <<>> /\ Len(rest) \in Nat /\ Len(rest) > 0
  BY <1>1
<1>3. v = [inode |-> i, off |-> off + n, rest |-> more]
  BY <1>1
<1>4. data \in Seq(Nat) /\ Len(data) \in Nat
  <2>1. i \in Inodes
    BY <1>2 DEF Nodes
  <2> HIDE DEF i
  <2> QED BY <2>1, GhostIs
<1> HIDE DEF i, off, rest, data
<1>5. n \in Nat /\ n > 0 /\ n <= Len(rest) /\ (off % BlockSize) + n <= BlockSize
  <2>1. n = PieceLength(off, Len(rest), BlockSize)
    BY DEF off, rest
  <2> QED BY <1>2, <2>1, PieceIs
<1>6. cells \in Seq(Nat) /\ Len(cells) = n /\ \A j \in 1 .. n : cells[j] = rest[j]
  <2>1. /\ SubSeq(rest, 0 + 1, 0 + n) \in Seq(Nat) /\ Len(SubSeq(rest, 0 + 1, 0 + n)) = n
        /\ \A j \in 1 .. n : SubSeq(rest, 0 + 1, 0 + n)[j] = rest[0 + j]
    BY <1>2, <1>5, SubSeqIs
  <2>2. 0 + 1 = 1 /\ 0 + n = n /\ \A j \in 1 .. n : 0 + j = j
    BY <1>5
  <2> QED BY <2>1, <2>2
<1>7. more \in Seq(Nat) /\ Len(more) = Len(rest) - n /\ \A j \in 1 .. Len(rest) - n : more[j] = rest[n + j]
  <2> DEFINE l == Len(rest) - n
  <2>1. l \in Nat /\ n + l = Len(rest)
    BY <1>2, <1>5
  <2> HIDE DEF l
  <2>2. /\ SubSeq(rest, n + 1, n + l) \in Seq(Nat) /\ Len(SubSeq(rest, n + 1, n + l)) = l
        /\ \A j \in 1 .. l : SubSeq(rest, n + 1, n + l)[j] = rest[n + j]
    <3>1. rest \in Seq(Nat) /\ n \in Nat /\ l \in Nat /\ n + l <= Len(rest)
      BY <1>2, <1>5, <2>1
    <3> QED BY ONLY <3>1, SubSeqIs
  <2> QED BY <2>1, <2>2 DEF l
<1>8. cells # <<>>
  BY <1>5, <1>6
<1> HIDE DEF cells, more
<1>9. /\ HostDisk(R) /\ OneFile(x, y, i) /\ off \div BlockSize <= BlockSize
      /\ CellsPut(x, y, i, off, cells)
      /\ Field(y, i, Size) = IF off + Len(cells) > Field(x, i, Size)
                             THEN off + Len(cells) ELSE Field(x, i, Size)
  <2>1. R = HostWritePiece(D, i, off, cells)
    BY DEF i, off, rest, cells
  <2> QED BY <1>2, <1>5, <1>6, <1>8, <2>1, HostWritePieceIs
<1> HIDE DEF x, y
<1>10. Field(y, i, Size) = off + n
  <2>1. Field(x, i, Size) = off
    BY <1>1 DEF Reached
  <2> QED BY <1>2, <1>5, <1>6, <1>9, <2>1
<1>11. Reached(y, i, data, off + n)
  <2> SUFFICES ASSUME NEW o \in 1 .. off + n
               PROVE  o - 1 \in FileCells /\ CellOf(y, i, o - 1) = data[o]
    BY <1>10 DEF Reached
  <2>1. CASE o > off
    <3> DEFINE j == o - off
               a == o - 1
    <3>1. j \in 1 .. n /\ a \in off .. off + n - 1 /\ a - off + 1 = j /\ j \in 1 .. Len(rest) /\ off + j = o
      BY <1>2, <1>5, <2>1, SMTT(30)
    <3> HIDE DEF j, a
    <3>2. a \in FileCells
      BY <1>2, <1>5, <1>9, <3>1, PieceCells
    <3>3. CellOf(y, i, a) = cells[j]
      BY <1>6, <1>9, <3>1, <3>2 DEF CellsPut
    <3>4. cells[j] = data[o]
      BY <1>1, <1>6, <3>1
    <3> QED BY <3>2, <3>3, <3>4 DEF a
  <2>2. CASE ~(o > off)
    <3> DEFINE a == o - 1
    <3>1. o \in 1 .. off /\ a \notin off .. off + n - 1
      BY <1>2, <1>5, <2>2
    <3>2. a \in FileCells /\ CellOf(x, i, a) = data[o]
      BY <1>1, <3>1 DEF Reached
    <3> HIDE DEF a
    <3>3. CellOf(y, i, a) = CellOf(x, i, a)
      BY <1>6, <1>9, <3>1, <3>2 DEF CellsPut
    <3> QED BY <3>2, <3>3 DEF a
  <2> QED BY <2>1, <2>2
<1>12. Nodes(y) = Nodes(x)
  BY <1>9 DEF OneFile
<1>13. off + n \in Nat /\ (off + n) + Len(more) = Len(data)
  BY <1>1, <1>2, <1>4, <1>5, <1>7, SMTT(30)
<1>14. v.inode = i /\ v.off = off + n /\ v.rest = more
  BY <1>3 DEF i, off, rest, more
<1>15. ASSUME more # <<>> PROVE Unwritten(y, g, v)
  <2>1. v \in [inode : Nodes(y), off : Nat, rest : Seq(Nat)]
    BY <1>2, <1>3, <1>7, <1>12, <1>13
  <2>2. \A j \in 1 .. Len(more) : more[j] = data[(off + n) + j]
    <3> SUFFICES ASSUME NEW j \in 1 .. Len(more) PROVE more[j] = data[(off + n) + j]
      OBVIOUS
    <3>1. j \in 1 .. Len(rest) - n /\ n + j \in 1 .. Len(rest) /\ off + (n + j) = (off + n) + j
      BY <1>2, <1>5, <1>7, SMTT(30)
    <3> QED BY <1>1, <1>7, <3>1
  <2> HIDE DEF y
  <2>3. Reached(y, i, data, off + n)
    BY <1>11
  <2> DEFINE e == off + n
  <2> HIDE DEF e, data
  <2>4. /\ Reached(y, i, data, e) /\ e + Len(more) = Len(data)
        /\ \A j \in 1 .. Len(more) : more[j] = data[e + j]
    BY <1>13, <2>2, <2>3 DEF e
  <2>5. v.inode = i /\ v.off = e /\ v.rest = more /\ g.data[i] = data
    BY <1>14 DEF e, data
  <2> QED BY <2>1, <2>4, <2>5 DEF Unwritten
<1>16. ASSUME more = <<>> PROVE Holds(y, i, data)
  <2>1. off + n = Len(data)
    BY <1>4, <1>13, <1>16
  <2> QED BY <1>11, <2>1, ReachedAll
<1>17. ASSUME NEW j \in Nodes(y), j # i PROVE Holds(y, j, g.data[j])
  <2>1. Holds(x, j, g.data[j])
    BY <1>12, <1>17 DEF DataSoFar, i, x
  <2>2. SameNode(x, y, j)
    BY <1>9, <1>12, <1>17 DEF OneFile
  <2> QED BY <2>1, <2>2, HoldsFrame
<1>18. DataSoFar(y, g, v)
  BY <1>7, <1>14, <1>15, <1>16, <1>17 DEF DataSoFar, data
<1> QED BY <1>9, <1>18 DEF x, y, i

\* A round of writeAll.
LEMMA WriteOnOK ==
  ASSUME NEW g, NEW P, BuilderAt(g, P), WriteOn, ~Failed(image')
  PROVE  BuilderAt(g, P)'
<1> DEFINE n == PieceLength(writing.off, Len(writing.rest), BlockSize)
<1>1. /\ HostDisk(image) /\ Superblock(image.img)
      /\ TreeSoFar(image.img, g, P) /\ DataSoFar(image.img, g, writing)
      /\ FilesSoFar(image.img, g, copying) /\ FramesSoFar(image.img, g, P, frames)
  BY DEF BuilderAt
<1>2. frames = <<>> => copying = NotCopying /\ writing.rest = <<>>
  BY DEF BuilderAt
<1>3. /\ writing.rest # <<>>
      /\ image' = HostWritePiece(image, writing.inode, writing.off, SubSeq(writing.rest, 1, n))
      /\ writing' = [writing EXCEPT !.off = @ + n, !.rest = SubSeq(@, n + 1, Len(@))]
      /\ tree' = tree /\ frames' = frames /\ copying' = copying
  BY DEF WriteOn
<1>4. g \in Ghosts
  BY <1>1 DEF TreeSoFar
<1> HIDE DEF n
<1>5. n = PieceLength(writing.off, Len(writing.rest), BlockSize)
  BY DEF n
<1>6. HostDisk(image') /\ OneFile(image.img, image'.img, writing.inode) /\ DataSoFar(image'.img, g, writing')
  BY <1>1, <1>3, <1>4, <1>5, DataWritten
<1> DEFINE x == image.img
           y == image'.img
<1>7. SameKinds(x, y)
  BY <1>6, OneFileKinds
<1>8. Superblock(y)
  BY <1>1, <1>6, SuperblockFrame DEF OneFile
<1> HIDE DEF x, y
<1>9. TreeSoFar(y, g, P) /\ FilesSoFar(y, g, copying) /\ FramesSoFar(y, g, P, frames)
  BY <1>1, <1>7, KindsFrame DEF x
<1> QED BY <1>2, <1>3, <1>6, <1>8, <1>9 DEF BuilderAt, y, TreeSoFar

\* The cells of an entry.
LEMMA EntryCellsAre ==
  ASSUME NEW k \in Nat, NEW name \in Seq(Nat)
  PROVE  /\ EntryCells(k, name) \in Seq(Nat) /\ Len(EntryCells(k, name)) = 2 + Len(name)
         /\ EntryCells(k, name) # <<>>
         /\ EntryCells(k, name)[1] = k /\ EntryCells(k, name)[2] = Len(name)
         /\ \A j \in 1 .. Len(name) : EntryCells(k, name)[2 + j] = name[j]
<1> DEFINE h == <<k, Len(name)>>
           c == EntryCells(k, name)
<1>1. h \in Seq(Nat) /\ Len(h) = 2 /\ h[1] = k /\ h[2] = Len(name)
  <2>1. Len(name) \in Nat
    OBVIOUS
  <2> QED BY <2>1
<1>2. c = h \o name
  BY DEF EntryCells
<1> HIDE DEF h, c
<1>3. /\ c \in Seq(Nat) /\ Len(c) = Len(h) + Len(name)
      /\ \A j \in 1 .. Len(h) : c[j] = h[j]
      /\ \A j \in 1 .. Len(h) + Len(name) : j > Len(h) => c[j] = name[j - Len(h)]
  <2>1. /\ h \o name \in Seq(Nat) /\ Len(h \o name) = Len(h) + Len(name)
        /\ \A j \in 1 .. Len(h) : (h \o name)[j] = h[j]
        /\ \A j \in 1 .. Len(h) + Len(name) : j > Len(h) => (h \o name)[j] = name[j - Len(h)]
    BY <1>1, ConcatIs
  <2> QED BY <1>2, <2>1
<1>4. Len(name) \in Nat
  OBVIOUS
<1>5. \A j \in 1 .. Len(name) : c[2 + j] = name[j]
  <2> SUFFICES ASSUME NEW j \in 1 .. Len(name) PROVE c[2 + j] = name[j]
    OBVIOUS
  <2>1. 2 + j \in 1 .. Len(h) + Len(name) /\ 2 + j > Len(h) /\ (2 + j) - Len(h) = j
    BY <1>1, <1>4
  <2> QED BY <1>3, <2>1
<1>6. Len(c) = 2 + Len(name) /\ c[1] = k /\ c[2] = Len(name)
  BY <1>1, <1>3
<1>7. c # <<>>
  BY <1>3, <1>4, <1>6
<1> QED BY <1>3, <1>5, <1>6, <1>7 DEF c

\* An entry of a directory ends where the next begins, or at the end.
LEMMA KidEnds ==
  ASSUME NEW ks, NEW size, DirShape(ks, size), NEW m \in 1 .. Len(ks)
  PROVE  ks[m].at + 2 + Len(ks[m].entry.name) <= size
<1>1. NextAt(ks, m, size) = ks[m].at + 2 + Len(ks[m].entry.name)
  BY DEF DirShape
<1>2. ks \in Seq(Kids) /\ size \in Nat /\ Len(ks) \in Nat
  BY DEF DirShape
<1>3. CASE m < Len(ks)
  <2>1. m + 1 \in 1 .. Len(ks)
    BY <1>2, <1>3
  <2>2. ks[m + 1].at < size /\ ks[m + 1].at \in Nat
    BY <2>1, KidIs DEF DirShape
  <2>3. NextAt(ks, m, size) = ks[m + 1].at
    BY <1>3 DEF NextAt
  <2> DEFINE a == ks[m + 1].at
  <2> HIDE DEF a
  <2>4. a < size /\ a \in Nat /\ NextAt(ks, m, size) = a
    BY <2>2, <2>3 DEF a
  <2>5. NextAt(ks, m, size) <= size
    BY <1>2, <2>4
  <2> QED BY <1>1, <2>5
<1>4. CASE ~(m < Len(ks))
  <2>1. NextAt(ks, m, size) = size
    BY <1>4 DEF NextAt
  <2> QED BY <1>1, <1>2, <2>1
<1> QED BY <1>3, <1>4

\* One more at the end of a sequence.
LEMMA AppendIs ==
  ASSUME NEW S, NEW s \in Seq(S), NEW e \in S
  PROVE  /\ Append(s, e) \in Seq(S) /\ Len(Append(s, e)) = Len(s) + 1 /\ Len(s) \in Nat
         /\ \A m \in 1 .. Len(s) : Append(s, e)[m] = s[m]
         /\ Append(s, e)[Len(s) + 1] = e
OBVIOUS

\* An entry at the end of a directory.
LEMMA ShapeMore ==
  ASSUME NEW ks, NEW size, DirShape(ks, size), NEW new, new \in Kids, new.at = size,
         NEW end, end = size + 2 + Len(new.entry.name), NEW ls, ls = Append(ks, new)
  PROVE  DirShape(ls, end)
<1>1. ks \in Seq(Kids) /\ size \in Nat /\ Len(ks) \in Nat /\ Len(ks) <= size
  BY DEF DirShape
<1> DEFINE l == Len(new.entry.name)
           n == Len(ks)
<1>2. l \in Nat
  <2>1. new.entry \in Entries
    BY DEF Kids
  <2>2. new.entry.name \in Seq(Nat)
    BY <2>1 DEF Entries
  <2> QED BY <2>2
<1>3. end = size + 2 + l
  OBVIOUS
<1> HIDE DEF l
<1>4. end \in Nat /\ end > size
  BY ONLY <1>1, <1>2, <1>3
<1>5. /\ ls \in Seq(Kids) /\ Len(ls) = n + 1
      /\ \A m \in 1 .. n : ls[m] = ks[m]
      /\ ls[n + 1] = new
  BY <1>1, AppendIs
<1>6. \A m \in 0 .. n : NextAt(ls, m, end) = NextAt(ks, m, size)
  <2> SUFFICES ASSUME NEW m \in 0 .. n PROVE NextAt(ls, m, end) = NextAt(ks, m, size)
    OBVIOUS
  <2>1. CASE m < n
    <3>1. m + 1 \in 1 .. n /\ m < Len(ls)
      BY <1>1, <1>5, <2>1
    <3>2. NextAt(ls, m, end) = ls[m + 1].at /\ NextAt(ks, m, size) = ks[m + 1].at
      BY <2>1, <3>1 DEF NextAt
    <3> QED BY <1>5, <3>1, <3>2
  <2>2. CASE m = n
    <3>1. m < Len(ls) /\ ~(m < Len(ks))
      BY <1>1, <1>5, <2>2
    <3>2. NextAt(ls, m, end) = ls[m + 1].at /\ NextAt(ks, m, size) = size
      BY <3>1 DEF NextAt
    <3> QED BY <1>5, <2>2, <3>2
  <2>3. m < n \/ m = n
    <3>1. n \in Nat
      BY <1>1
    <3> HIDE DEF n
    <3> QED BY ONLY <3>1, m \in 0 .. n
  <2> QED BY <2>1, <2>2, <2>3
<1>7. ASSUME NEW m \in 1 .. Len(ls)
      PROVE  ls[m].at < end /\ NextAt(ls, m, end) = ls[m].at + 2 + Len(ls[m].entry.name)
  <2>1. CASE m \in 1 .. n
    <3>1. ls[m] = ks[m] /\ m \in 0 .. n
      BY <1>1, <1>5, <2>1
    <3>2. NextAt(ls, m, end) = ks[m].at + 2 + Len(ks[m].entry.name)
      BY <1>6, <2>1, <3>1 DEF DirShape
    <3>3. ks[m].at < size /\ ks[m].at \in Nat
      BY <2>1, KidIs DEF DirShape
    <3> DEFINE a == ks[m].at
    <3>4. a < end
      <4> HIDE DEF a
      <4>1. a < size /\ a \in Nat
        BY <3>3 DEF a
      <4> QED BY ONLY <1>1, <1>4, <4>1
    <3> QED BY <3>1, <3>2, <3>4
  <2>2. CASE m = n + 1
    <3>1. ls[m] = new /\ ~(m < Len(ls))
      BY <1>1, <1>5, <2>2
    <3>2. NextAt(ls, m, end) = end
      BY <3>1 DEF NextAt
    <3> QED BY <1>4, <3>1, <3>2
  <2>3. m \in 1 .. n \/ m = n + 1
    BY <1>1, <1>5
  <2> QED BY <2>1, <2>2, <2>3
<1>8. NextAt(ls, 0, end) = 0
  <2>1. NextAt(ks, 0, size) = 0
    BY DEF DirShape
  <2>2. 0 \in 0 .. n
    BY ONLY <1>1 DEF n
  <2> QED BY <1>6, <2>1, <2>2
<1>9. Len(ls) <= end
  BY ONLY <1>1, <1>4, <1>5 DEF n
<1> QED BY <1>4, <1>5, <1>7, <1>8, <1>9 DEF DirShape

\* The entry is added to the data of the directory.
LEMMA ListedMore ==
  ASSUME NEW data, data \in Seq(Nat), NEW ks, DirShape(ks, Len(data)),
         \A m \in 1 .. Len(ks) : Listed(data, ks[m]),
         NEW new, new \in Kids, new.at = Len(data),
         NEW d, d = data \o EntryCells(new.inode, new.entry.name),
         NEW ls, ls = Append(ks, new)
  PROVE  /\ d \in Seq(Nat) /\ DirShape(ls, Len(d))
         /\ \A m \in 1 .. Len(ls) : Listed(d, ls[m])
<1> DEFINE c == EntryCells(new.inode, new.entry.name)
           nm == new.entry.name
           n == Len(data)
<1>1. new.entry \in Entries /\ new.inode \in Nat /\ nm \in Seq(Nat) /\ Len(nm) \in Nat /\ n \in Nat
  <2>1. new.entry \in Entries /\ new.inode \in Inodes
    BY DEF Kids
  <2>2. nm \in Seq(Nat)
    BY <2>1 DEF Entries
  <2> QED BY <2>1, <2>2 DEF Inodes
<1>2. /\ c \in Seq(Nat) /\ Len(c) = 2 + Len(nm) /\ c # <<>>
      /\ c[1] = new.inode /\ c[2] = Len(nm)
      /\ \A j \in 1 .. Len(nm) : c[2 + j] = nm[j]
  <2> DEFINE i == new.inode
  <2> HIDE DEF nm, i
  <2>1. i \in Nat /\ nm \in Seq(Nat)
    BY <1>1 DEF i
  <2>2. /\ EntryCells(i, nm) \in Seq(Nat) /\ Len(EntryCells(i, nm)) = 2 + Len(nm)
        /\ EntryCells(i, nm) # <<>>
        /\ EntryCells(i, nm)[1] = i /\ EntryCells(i, nm)[2] = Len(nm)
        /\ \A j \in 1 .. Len(nm) : EntryCells(i, nm)[2 + j] = nm[j]
    BY <2>1, EntryCellsAre
  <2> QED BY <2>2 DEF i, nm
<1> HIDE DEF c
<1>3. /\ d \in Seq(Nat) /\ Len(d) = n + Len(c)
      /\ \A j \in 1 .. n : d[j] = data[j]
      /\ \A j \in 1 .. n + Len(c) : j > n => d[j] = c[j - n]
  <2>1. d = data \o c
    BY DEF c
  <2>2. /\ data \o c \in Seq(Nat) /\ Len(data \o c) = Len(data) + Len(c)
        /\ \A j \in 1 .. Len(data) : (data \o c)[j] = data[j]
        /\ \A j \in 1 .. Len(data) + Len(c) : j > Len(data) => (data \o c)[j] = c[j - Len(data)]
    BY <1>2, ConcatIs
  <2> QED BY <2>1, <2>2
<1> HIDE DEF nm, n
<1>4. DirShape(ls, Len(d))
  <2>1. Len(d) = n + 2 + Len(nm)
    BY <1>1, <1>2, <1>3
  <2>2. Len(d) = Len(data) + 2 + Len(new.entry.name)
    BY <2>1 DEF n, nm
  <2> QED BY <2>2, ShapeMore
<1>5. /\ Len(ls) = Len(ks) + 1 /\ Len(ks) \in Nat
      /\ \A m \in 1 .. Len(ks) : ls[m] = ks[m]
      /\ ls[Len(ks) + 1] = new
  BY AppendIs DEF DirShape
<1>6. ASSUME NEW m \in 1 .. Len(ks) PROVE Listed(d, ks[m])
  <2> DEFINE k == ks[m]
             at == k.at
             l == Len(k.entry.name)
  <2>1. at \in Nat /\ l \in Nat
    BY KidIs
  <2>2. at + 2 + l <= n
    BY KidEnds DEF n
  <2>3. /\ data[at + 1] = k.inode /\ data[at + 2] = l
        /\ \A j \in 1 .. l : data[at + 2 + j] = k.entry.name[j]
    BY DEF Listed
  <2>4. \A j \in 1 .. 2 + l : at + j \in 1 .. n
    <3> HIDE DEF at, l
    <3> QED BY <1>1, <2>1, <2>2
  <2>5. d[at + 1] = data[at + 1] /\ d[at + 2] = data[at + 2] /\ \A j \in 1 .. l : d[at + 2 + j] = data[at + 2 + j]
    <3> HIDE DEF at, l
    <3>1. 1 \in 1 .. 2 + l /\ 2 \in 1 .. 2 + l
      BY <2>1
    <3>2. \A j \in 1 .. l : 2 + j \in 1 .. 2 + l /\ at + (2 + j) = at + 2 + j
      BY <2>1
    <3>3. \A j \in 1 .. 2 + l : d[at + j] = data[at + j]
      BY <1>3, <2>4
    <3>4. \A j \in 1 .. l : d[at + (2 + j)] = data[at + (2 + j)]
      BY <3>2, <3>3
    <3> QED BY <3>1, <3>2, <3>3, <3>4
  <2> QED BY <2>3, <2>5 DEF Listed
<1>7. Listed(d, new)
  <2>1. \A j \in 1 .. Len(c) : d[n + j] = c[j]
    <3> SUFFICES ASSUME NEW j \in 1 .. Len(c) PROVE d[n + j] = c[j]
      OBVIOUS
    <3>1. n + j \in 1 .. n + Len(c) /\ n + j > n /\ (n + j) - n = j
      BY <1>1, <1>2
    <3> QED BY <1>3, <3>1
  <2>2. 1 \in 1 .. Len(c) /\ 2 \in 1 .. Len(c) /\ \A j \in 1 .. Len(nm) : 2 + j \in 1 .. Len(c) /\ n + (2 + j) = n + 2 + j
    BY <1>1, <1>2
  <2>3. d[n + 1] = new.inode /\ d[n + 2] = Len(nm)
    BY <1>2, <2>1, <2>2
  <2>4. \A j \in 1 .. Len(nm) : d[n + (2 + j)] = nm[j]
    BY <1>2, <2>1, <2>2
  <2>5. \A j \in 1 .. Len(nm) : d[n + 2 + j] = nm[j]
    BY <2>2, <2>4
  <2>6. new.at = n
    BY DEF n
  <2> QED BY <2>3, <2>5, <2>6 DEF Listed, nm
<1>8. ASSUME NEW m \in 1 .. Len(ls) PROVE Listed(d, ls[m])
  <2>1. m \in 1 .. Len(ks) \/ m = Len(ks) + 1
    BY <1>5
  <2> QED BY <1>5, <1>6, <1>7, <2>1
<1> QED BY <1>3, <1>4, <1>8

\* The entry for e, with inode k, that is added to directory c.
NewKid(g, c, k, e) == [entry |-> e, inode |-> k, at |-> Len(g.data[c])]

\* What the nodes are for when directory c has got the entry e, with the new node k.
Grew(g, P, h, Q, c, k, e) ==
  /\ h \in Ghosts /\ Q \in [Inodes -> Nat]
  /\ h.list[k] = e.sub /\ h.kids[k] = <<>> /\ h.data[k] = <<>> /\ Q[k] = 0
  /\ h.list[c] = g.list[c] /\ Q[c] = P[c] + 1
  /\ h.kids[c] = Append(g.kids[c], NewKid(g, c, k, e))
  /\ h.data[c] = g.data[c] \o EntryCells(k, e.name)
  /\ \A i \in Inodes \ {c, k} : /\ h.list[i] = g.list[i] /\ h.kids[i] = g.kids[i]
                                /\ h.data[i] = g.data[i] /\ Q[i] = P[i]

\* There is always such a growth.
LEMMA GrowthIs ==
  ASSUME NEW g \in Ghosts, NEW P \in [Inodes -> Nat], NEW c \in Inodes, NEW k \in Inodes, c # k,
         NEW e \in Entries
  PROVE  \E h, Q : Grew(g, P, h, Q, c, k, e)
<1> DEFINE new == NewKid(g, c, k, e)
           cells == g.data[c] \o EntryCells(k, e.name)
           ls == Append(g.kids[c], new)
           list == [i \in Inodes |-> IF i = k THEN e.sub ELSE g.list[i]]
           kids == [i \in Inodes |-> IF i = k THEN <<>> ELSE IF i = c THEN ls ELSE g.kids[i]]
           data == [i \in Inodes |-> IF i = k THEN <<>> ELSE IF i = c THEN cells ELSE g.data[i]]
           Q == [i \in Inodes |-> IF i = k THEN 0 ELSE IF i = c THEN P[c] + 1 ELSE P[i]]
           h == [list |-> list, kids |-> kids, data |-> data]
<1>1. \A i \in Inodes : g.list[i] \in Listings /\ g.kids[i] \in Seq(Kids) /\ g.data[i] \in Seq(Nat)
  BY GhostIs
<1>2. new \in Kids
  <2>1. Len(g.data[c]) \in Nat
    BY <1>1
  <2> QED BY <2>1 DEF NewKid, Kids
<1>3. ls \in Seq(Kids)
  BY <1>1, <1>2, AppendIs
<1>4. cells \in Seq(Nat)
  <2>1. e.name \in Seq(Nat) /\ k \in Nat
    BY DEF Entries, Inodes
  <2>2. EntryCells(k, e.name) \in Seq(Nat)
    <3> DEFINE nm == e.name
    <3> HIDE DEF nm
    <3>1. nm \in Seq(Nat)
      BY <2>1 DEF nm
    <3>2. EntryCells(k, nm) \in Seq(Nat)
      BY <2>1, <3>1, EntryCellsAre
    <3> QED BY <3>2 DEF nm
  <2> QED BY <1>1, <2>2, ConcatIs
<1>5. e.sub \in Listings
  BY DEF Entries
<1> HIDE DEF new, ls, cells
<1>6. list \in [Inodes -> Listings]
  BY <1>1, <1>5
<1>7. kids \in [Inodes -> Seq(Kids)]
  BY <1>1, <1>3
<1>8. data \in [Inodes -> Seq(Nat)]
  BY <1>1, <1>4
<1>9. Q \in [Inodes -> Nat]
  OBVIOUS
<1>10. h \in Ghosts
  <2> HIDE DEF list, kids, data
  <2> QED BY <1>6, <1>7, <1>8 DEF Ghosts
<1>11. h.list = list /\ h.kids = kids /\ h.data = data
  <2> HIDE DEF list, kids, data
  <2> QED OBVIOUS
<1>12. /\ list[k] = e.sub /\ kids[k] = <<>> /\ data[k] = <<>> /\ Q[k] = 0
       /\ list[c] = g.list[c] /\ Q[c] = P[c] + 1 /\ kids[c] = ls /\ data[c] = cells
  OBVIOUS
<1>13. \A i \in Inodes \ {c, k} : /\ list[i] = g.list[i] /\ kids[i] = g.kids[i]
                                  /\ data[i] = g.data[i] /\ Q[i] = P[i]
  OBVIOUS
<1> HIDE DEF h, list, kids, data, Q
<1>14. Grew(g, P, h, Q, c, k, e)
  BY <1>9, <1>10, <1>11, <1>12, <1>13 DEF Grew, new, ls, cells
<1> QED BY <1>14

\* One more entry of the host directory.
LEMMA CoversMore ==
  ASSUME NEW ks \in Seq(Kids), NEW list, NEW p \in Nat, Covers(ks, list, p),
         NEW new \in Kids, new.entry = list[p + 1], new.entry.kind # "other"
  PROVE  Covers(Append(ks, new), list, p + 1)
<1> DEFINE ls == Append(ks, new)
<1>1. /\ Len(ls) = Len(ks) + 1 /\ Len(ks) \in Nat
      /\ \A m \in 1 .. Len(ks) : ls[m] = ks[m]
      /\ ls[Len(ks) + 1] = new
  BY AppendIs
<1> HIDE DEF ls
<1>2. ASSUME NEW m \in 1 .. Len(ls)
      PROVE  ls[m].entry.kind # "other" /\ \E j \in 1 .. p + 1 : ls[m].entry = list[j]
  <2>1. CASE m \in 1 .. Len(ks)
    <3>1. ks[m].entry.kind # "other" /\ \E j \in 1 .. p : ks[m].entry = list[j]
      BY <2>1 DEF Covers
    <3>2. \A j \in 1 .. p : j \in 1 .. p + 1
      OBVIOUS
    <3> QED BY <1>1, <2>1, <3>1, <3>2
  <2>2. CASE m = Len(ks) + 1
    <3>1. p + 1 \in 1 .. p + 1
      OBVIOUS
    <3> QED BY <1>1, <2>2, <3>1
  <2> QED BY <1>1, <2>1, <2>2
<1>3. ASSUME NEW j \in 1 .. p + 1, list[j].kind # "other"
      PROVE  \E m \in 1 .. Len(ls) : ls[m].entry = list[j]
  <2>1. CASE j \in 1 .. p
    <3>1. PICK m \in 1 .. Len(ks) : ks[m].entry = list[j]
      BY <1>3, <2>1 DEF Covers
    <3>2. m \in 1 .. Len(ls)
      BY <1>1
    <3> QED BY <1>1, <3>1, <3>2
  <2>2. CASE j = p + 1
    <3>1. Len(ks) + 1 \in 1 .. Len(ls)
      BY <1>1
    <3> QED BY <1>1, <2>2, <3>1
  <2> QED BY <2>1, <2>2
<1> QED BY <1>2, <1>3 DEF Covers, ls

\* An entry that is neither file nor directory.
LEMMA CoversSkip ==
  ASSUME NEW ks, NEW list, NEW p \in Nat, Covers(ks, list, p), list[p + 1].kind = "other"
  PROVE  Covers(ks, list, p + 1)
<1>1. \A j \in 1 .. p + 1 : j \in 1 .. p \/ j = p + 1
  OBVIOUS
<1>2. \A j \in 1 .. p : j \in 1 .. p + 1
  OBVIOUS
<1> QED BY <1>1, <1>2 DEF Covers

\* A new directory has no entries.
LEMMA EmptyDir ==
  ASSUME NEW h, NEW k, h.kids[k] = <<>>, h.data[k] = <<>>
  PROVE  GoodDir(h, k, 0)
<1>1. DirShape(<<>>, 0)
  BY DEF DirShape, NextAt
<1>2. Covers(<<>>, h.list[k], 0)
  BY DEF Covers
<1>3. Len(h.data[k]) = 0 /\ \A m \in 1 .. Len(h.kids[k]) : FALSE
  OBVIOUS
<1> QED BY <1>1, <1>2, <1>3 DEF GoodDir

\* Directory c has an entry more, with the new node k.
Added(x, y, g, P, h, Q, c, k, e) ==
  /\ TreeSoFar(x, g, P) /\ c \in Dirs(x)
  /\ P[c] < Len(g.list[c]) /\ e = g.list[c][P[c] + 1] /\ e.kind # "other"
  /\ Begins(x, y, k, IF e.kind = "dir" THEN DIR_TYPE ELSE FILE_TYPE, 1)
  /\ Grew(g, P, h, Q, c, k, e)

\* What Added says of the nodes.
LEMMA AddedIs ==
  ASSUME NEW x, NEW y, NEW g, NEW P, NEW h, NEW Q, NEW c, NEW k, NEW e,
         Added(x, y, g, P, h, Q, c, k, e)
  PROVE  /\ c \in Nodes(x) /\ c \in Inodes /\ k \in Inodes /\ k \notin Nodes(x) /\ c # k /\ k \in Nat
         /\ g \in Ghosts /\ P[c] \in Nat /\ e \in Entries /\ e.name \in Seq(Nat)
         /\ Nodes(y) = Nodes(x) \cup {k}
         /\ Dirs(y) = IF e.kind = "dir" THEN Dirs(x) \cup {k} ELSE Dirs(x)
         /\ \A i \in Nodes(x) : SameNode(x, y, i) /\ i # k
<1>1. c \in Nodes(x) /\ c \in Inodes
  BY DEF Added, Dirs, Nodes
<1>2. k \in Inodes /\ k \notin Nodes(x) /\ Nodes(y) = Nodes(x) \cup {k}
  BY DEF Added, Begins
<1>3. \A i \in Nodes(x) : SameNode(x, y, i) /\ i # k
  BY <1>2 DEF Added, Begins
<1>4. g \in Ghosts /\ P[c] \in Nat
  BY <1>1 DEF Added, TreeSoFar
<1>5. e \in Entries /\ e.name \in Seq(Nat)
  <2>1. g.list[c] \in Seq(Entries)
    BY <1>1, <1>4, GhostIs
  <2>2. P[c] + 1 \in 1 .. Len(g.list[c])
    BY <1>4, <2>1 DEF Added
  <2>3. e \in Entries
    BY <2>1, <2>2 DEF Added
  <2> QED BY <2>3 DEF Entries
<1>6. Field(y, k, Type) = IF e.kind = "dir" THEN DIR_TYPE ELSE FILE_TYPE
  BY DEF Added, Begins
<1>7. \A i \in Nodes(x) : Field(y, i, Type) = Field(x, i, Type)
  BY <1>3 DEF SameNode, SameFields
<1>8. Dirs(y) = IF e.kind = "dir" THEN Dirs(x) \cup {k} ELSE Dirs(x)
  BY <1>2, <1>6, <1>7 DEF Dirs, DIR_TYPE, FILE_TYPE
<1> QED BY <1>1, <1>2, <1>3, <1>4, <1>5, <1>8 DEF Inodes

\* A directory has its entries, the new one too.
LEMMA AddedDir ==
  ASSUME NEW x, NEW y, NEW g, NEW P, NEW h, NEW Q, NEW c, NEW k, NEW e,
         Added(x, y, g, P, h, Q, c, k, e), NEW d \in Dirs(y)
  PROVE  GoodDir(h, d, Q[d])
<1>1. /\ c \in Nodes(x) /\ c \in Inodes /\ k \in Inodes /\ k \notin Nodes(x) /\ c # k /\ k \in Nat
      /\ g \in Ghosts /\ P[c] \in Nat /\ e \in Entries /\ e.name \in Seq(Nat)
      /\ Nodes(y) = Nodes(x) \cup {k}
      /\ Dirs(y) = IF e.kind = "dir" THEN Dirs(x) \cup {k} ELSE Dirs(x)
  BY AddedIs
<1>2. Grew(g, P, h, Q, c, k, e)
  BY DEF Added
<1>3. CASE d = k
  BY <1>2, <1>3, EmptyDir DEF Grew
<1>4. CASE d # k /\ d # c
  <2>1. d \in Dirs(x) /\ d \in Inodes \ {c, k}
    BY <1>1, <1>4 DEF Dirs, Nodes
  <2>2. GoodDir(g, d, P[d])
    BY <2>1 DEF Added, TreeSoFar
  <2>3. h.list[d] = g.list[d] /\ h.kids[d] = g.kids[d] /\ h.data[d] = g.data[d] /\ Q[d] = P[d]
    BY <1>2, <2>1 DEF Grew
  <2> QED BY <2>2, <2>3 DEF GoodDir
<1>5. CASE d = c
  <2> DEFINE ks == g.kids[c]
             data == g.data[c]
             new == NewKid(g, c, k, e)
             p == P[c]
             list == g.list[c]
             ls == Append(ks, new)
             more == data \o EntryCells(k, e.name)
  <2>1. GoodDir(g, c, p)
    BY DEF Added, TreeSoFar
  <2>2. ks \in Seq(Kids) /\ data \in Seq(Nat) /\ Len(data) \in Nat
    BY <1>1, GhostIs
  <2>3. new \in Kids /\ new.at = Len(data) /\ new.entry = e /\ new.inode = k
    BY <1>1, <2>2 DEF NewKid, Kids
  <2>4. h.list[c] = list /\ Q[c] = p + 1 /\ h.kids[c] = ls /\ h.data[c] = more
    BY <1>2 DEF Grew
  <2>5. e = list[p + 1] /\ e.kind # "other" /\ p \in Nat
    BY <1>1 DEF Added
  <2> HIDE DEF ks, data, new, p, list
  <2>6. /\ DirShape(ks, Len(data)) /\ Covers(ks, list, p)
        /\ \A m \in 1 .. Len(ks) : Listed(data, ks[m])
    BY <2>1 DEF GoodDir, ks, data, list
  <2>7. more = data \o EntryCells(new.inode, new.entry.name)
    BY <2>3
  <2> HIDE DEF more, ls
  <2>8. ls = Append(ks, new)
    BY DEF ls
  <2>9. /\ DirShape(ls, Len(more)) /\ \A m \in 1 .. Len(ls) : Listed(more, ls[m])
    BY <2>2, <2>3, <2>6, <2>7, <2>8, ListedMore
  <2>10. Covers(ls, list, p + 1)
    BY <2>2, <2>3, <2>5, <2>6, <2>8, CoversMore
  <2> QED BY <1>5, <2>4, <2>9, <2>10 DEF GoodDir
<1> QED BY <1>3, <1>4, <1>5

\* The entries lead to their nodes, the new one too.
LEMMA AddedKids ==
  ASSUME NEW x, NEW y, NEW g, NEW P, NEW h, NEW Q, NEW c, NEW k, NEW e,
         Added(x, y, g, P, h, Q, c, k, e),
         NEW d \in Dirs(y), NEW m \in 1 .. Len(h.kids[d])
  PROVE  \/ /\ h.kids[d][m] = NewKid(g, c, k, e)
            /\ KidOK(y, h, h.kids[d][m])
         \/ /\ d \in Dirs(x) /\ m \in 1 .. Len(g.kids[d]) /\ h.kids[d][m] = g.kids[d][m]
            /\ KidOK(x, g, h.kids[d][m]) /\ KidOK(y, h, h.kids[d][m])
<1>1. /\ c \in Nodes(x) /\ c \in Inodes /\ k \in Inodes /\ k \notin Nodes(x) /\ c # k /\ k \in Nat
      /\ g \in Ghosts /\ P[c] \in Nat /\ e \in Entries /\ e.name \in Seq(Nat)
      /\ Nodes(y) = Nodes(x) \cup {k}
      /\ Dirs(y) = IF e.kind = "dir" THEN Dirs(x) \cup {k} ELSE Dirs(x)
      /\ \A i \in Nodes(x) : SameNode(x, y, i) /\ i # k
  BY AddedIs
<1>2. Grew(g, P, h, Q, c, k, e)
  BY DEF Added
<1> DEFINE new == NewKid(g, c, k, e)
<1>3. KidOK(y, h, new)
  <2>1. /\ Field(y, k, Type) = (IF e.kind = "dir" THEN DIR_TYPE ELSE FILE_TYPE) /\ Field(y, k, Links) = 1
    BY DEF Added, Begins
  <2>2. h.list[k] = e.sub /\ k \in Nodes(y)
    BY <1>1, <1>2 DEF Grew
  <2>3. new.inode = k /\ new.entry = e
    BY DEF NewKid
  <2> HIDE DEF new
  <2> QED BY <2>1, <2>2, <2>3 DEF KidOK
<1>4. ASSUME NEW b \in Dirs(x), NEW a \in 1 .. Len(g.kids[b])
      PROVE  KidOK(x, g, g.kids[b][a]) /\ KidOK(y, h, g.kids[b][a])
  <2> DEFINE kid == g.kids[b][a]
  <2>1. KidOK(x, g, kid)
    BY <1>4 DEF Added, TreeSoFar
  <2> HIDE DEF kid
  <2> DEFINE i == kid.inode
  <2>2. i \in Nodes(x) /\ i \in Inodes /\ SameNode(x, y, i) /\ i # k
    BY <1>1, <2>1 DEF KidOK, Nodes
  <2>3. Field(y, i, Type) = Field(x, i, Type) /\ Field(y, i, Links) = Field(x, i, Links)
    BY <2>2 DEF SameNode, SameFields
  <2>4. h.list[i] = g.list[i]
    BY <1>1, <1>2, <2>2 DEF Grew
  <2>5. KidOK(y, h, kid)
    BY <1>1, <2>1, <2>2, <2>3, <2>4 DEF KidOK
  <2> QED BY <2>1, <2>5 DEF kid
<1>5. CASE d = k
  <2>1. h.kids[d] = <<>>
    BY <1>2, <1>5 DEF Grew
  <2>2. Len(h.kids[d]) = 0
    BY <2>1
  <2> QED BY <2>2
<1>6. CASE d # k /\ d # c
  <2>1. d \in Dirs(x) /\ d \in Inodes \ {c, k}
    BY <1>1, <1>6 DEF Dirs, Nodes
  <2>2. h.kids[d] = g.kids[d]
    BY <1>2, <2>1 DEF Grew
  <2> QED BY <1>4, <2>1, <2>2
<1>7. CASE d = c
  <2>1. g.kids[c] \in Seq(Kids) /\ new \in Kids
    <3>1. g.kids[c] \in Seq(Kids) /\ Len(g.data[c]) \in Nat
      BY <1>1, GhostIs
    <3> QED BY <1>1, <3>1 DEF NewKid, Kids
  <2>2. h.kids[c] = Append(g.kids[c], new)
    BY <1>2 DEF Grew
  <2> HIDE DEF new
  <2>3. /\ Len(h.kids[c]) = Len(g.kids[c]) + 1 /\ Len(g.kids[c]) \in Nat
        /\ \A a \in 1 .. Len(g.kids[c]) : h.kids[c][a] = g.kids[c][a]
        /\ h.kids[c][Len(g.kids[c]) + 1] = new
    BY <2>1, <2>2, AppendIs
  <2>4. c \in Dirs(x)
    BY DEF Added
  <2>5. m \in 1 .. Len(g.kids[c]) \/ m = Len(g.kids[c]) + 1
    BY <1>7, <2>3
  <2>6. CASE m \in 1 .. Len(g.kids[c])
    BY <1>4, <1>7, <2>3, <2>4, <2>6
  <2>7. CASE m = Len(g.kids[c]) + 1
    BY <1>3, <1>7, <2>3, <2>7 DEF new
  <2> QED BY <2>5, <2>6, <2>7
<1> QED BY <1>5, <1>6, <1>7

\* The tree so far, with the new entry.
LEMMA AddedTree ==
  ASSUME NEW x, NEW y, NEW g, NEW P, NEW h, NEW Q, NEW c, NEW k, NEW e,
         Added(x, y, g, P, h, Q, c, k, e)
  PROVE  TreeSoFar(y, h, Q)
<1>1. /\ c \in Nodes(x) /\ c \in Inodes /\ k \in Inodes /\ k \notin Nodes(x) /\ c # k
      /\ Dirs(y) = IF e.kind = "dir" THEN Dirs(x) \cup {k} ELSE Dirs(x)
  BY AddedIs
<1>2. Grew(g, P, h, Q, c, k, e)
  BY DEF Added
<1>3. h \in Ghosts /\ Q \in [Inodes -> Nat]
  BY <1>2 DEF Grew
<1>4. RootInode \in Dirs(y) /\ h.list[RootInode] = tree
  <2>1. RootInode \in Dirs(x) /\ g.list[RootInode] = tree
    BY DEF Added, TreeSoFar
  <2>2. RootInode \in Inodes /\ RootInode # k
    BY <1>1, <2>1 DEF Dirs, Nodes
  <2>3. h.list[RootInode] = g.list[RootInode]
    BY <1>2, <2>2 DEF Grew
  <2> QED BY <1>1, <2>1, <2>3
<1>5. \A d \in Dirs(y) : GoodDir(h, d, Q[d])
  BY AddedDir
<1>6. \A d \in Dirs(y) : \A m \in 1 .. Len(h.kids[d]) : KidOK(y, h, h.kids[d][m])
  BY AddedKids
<1> QED BY <1>3, <1>4, <1>5, <1>6 DEF TreeSoFar

\* What is added to the data of a node is what is to be written.
LEMMA UnwrittenIs ==
  ASSUME NEW y, NEW c \in Nodes(y), NEW data \in Seq(Nat), Holds(y, c, data), NEW cells \in Seq(Nat),
         NEW h, h.data[c] = data \o cells,
         NEW w, w = [inode |-> c, off |-> Len(data), rest |-> cells]
  PROVE  Unwritten(y, h, w)
<1> DEFINE n == Len(data)
<1>1. n \in Nat /\ Len(cells) \in Nat
  OBVIOUS
<1>2. /\ Len(h.data[c]) = n + Len(cells)
      /\ \A j \in 1 .. n : h.data[c][j] = data[j]
      /\ \A j \in 1 .. n + Len(cells) : j > n => h.data[c][j] = cells[j - n]
  <2>1. /\ Len(data \o cells) = Len(data) + Len(cells)
        /\ \A j \in 1 .. Len(data) : (data \o cells)[j] = data[j]
        /\ \A j \in 1 .. Len(data) + Len(cells) : j > Len(data) => (data \o cells)[j] = cells[j - Len(data)]
    BY ConcatIs
  <2> QED BY <2>1
<1>3. w \in [inode : Nodes(y), off : Nat, rest : Seq(Nat)]
  BY <1>1
<1>4. w.inode = c /\ w.off = n /\ w.rest = cells
  OBVIOUS
<1>5. Field(y, c, Size) = n /\ \A o \in 1 .. n : o - 1 \in FileCells /\ CellOf(y, c, o - 1) = data[o]
  BY DEF Holds, HasCells
<1> HIDE DEF n
<1>6. Reached(y, c, h.data[c], n)
  BY <1>2, <1>5 DEF Reached
<1>7. \A j \in 1 .. Len(cells) : cells[j] = h.data[c][n + j]
  <2> SUFFICES ASSUME NEW j \in 1 .. Len(cells) PROVE cells[j] = h.data[c][n + j]
    OBVIOUS
  <2>1. n + j \in 1 .. n + Len(cells) /\ n + j > n /\ (n + j) - n = j
    BY <1>1
  <2> QED BY <1>2, <2>1
<1> QED BY <1>2, <1>3, <1>4, <1>6, <1>7 DEF Unwritten

\* The entry is what is to be written.
LEMMA AddedData ==
  ASSUME NEW x, NEW y, NEW g, NEW P, NEW h, NEW Q, NEW c, NEW k, NEW e,
         Added(x, y, g, P, h, Q, c, k, e), \A i \in Nodes(x) : Holds(x, i, g.data[i]),
         NEW w, w = [inode |-> c, off |-> Field(x, c, Size), rest |-> EntryCells(k, e.name)]
  PROVE  DataSoFar(y, h, w)
<1>1. /\ c \in Nodes(x) /\ c \in Inodes /\ k \in Inodes /\ k \notin Nodes(x) /\ c # k /\ k \in Nat
      /\ g \in Ghosts /\ e.name \in Seq(Nat)
      /\ Nodes(y) = Nodes(x) \cup {k}
      /\ \A i \in Nodes(x) : SameNode(x, y, i) /\ i # k
  BY AddedIs
<1>2. Grew(g, P, h, Q, c, k, e)
  BY DEF Added
<1> DEFINE cells == EntryCells(k, e.name)
           data == g.data[c]
           n == Len(data)
<1>3. cells \in Seq(Nat) /\ Len(cells) \in Nat
  <2> DEFINE nm == e.name
  <2> HIDE DEF nm
  <2>1. nm \in Seq(Nat)
    BY <1>1 DEF nm
  <2>2. EntryCells(k, nm) \in Seq(Nat)
    BY <1>1, <2>1, EntryCellsAre
  <2>3. cells \in Seq(Nat)
    BY <2>2 DEF nm
  <2> QED BY <2>3
<1>4. data \in Seq(Nat) /\ n \in Nat
  BY <1>1, GhostIs
<1>5. Holds(x, c, data) /\ Field(x, c, Size) = n
  BY <1>1 DEF Holds
<1>6. w = [inode |-> c, off |-> n, rest |-> cells]
  BY <1>5
<1>7. h.data[c] = data \o cells
  BY <1>2 DEF Grew
<1>8. Holds(y, c, data)
  BY <1>1, <1>5, HoldsFrame
<1>9. w.inode = c /\ w.rest = cells
  BY <1>6
<1> HIDE DEF cells, data
<1>10. c \in Nodes(y) /\ w = [inode |-> c, off |-> Len(data), rest |-> cells]
  BY <1>1, <1>6
<1>11. Unwritten(y, h, w)
  BY <1>3, <1>4, <1>7, <1>8, <1>10, UnwrittenIs
<1>12. ASSUME NEW i \in Nodes(y), i # c PROVE Holds(y, i, h.data[i])
  <2>1. CASE i = k
    <3>1. h.data[k] = <<>> /\ Field(y, k, Size) = 0
      BY <1>2 DEF Grew, Added, Begins
    <3>2. Len(h.data[k]) = 0 /\ \A o \in 1 .. Len(h.data[k]) : FALSE
      BY <3>1
    <3> QED BY <2>1, <3>1, <3>2 DEF Holds, HasCells
  <2>2. CASE i # k
    <3>1. i \in Nodes(x) /\ i \in Inodes \ {c, k}
      BY <1>1, <1>12, <2>2 DEF Nodes
    <3>2. h.data[i] = g.data[i] /\ Holds(x, i, g.data[i])
      BY <1>2, <3>1 DEF Grew
    <3> QED BY <1>1, <3>1, <3>2, HoldsFrame
  <2> QED BY <2>1, <2>2
<1>13. cells # <<>>
  <2>1. Len(cells) = 2 + Len(e.name) /\ Len(e.name) \in Nat
    <3> DEFINE nm == e.name
    <3> HIDE DEF nm
    <3>1. nm \in Seq(Nat) /\ Len(nm) \in Nat
      BY <1>1 DEF nm
    <3>2. Len(EntryCells(k, nm)) = 2 + Len(nm)
      BY <1>1, <3>1, EntryCellsAre
    <3> QED BY <3>1, <3>2 DEF nm, cells
  <2> QED BY <2>1
<1> QED BY <1>3, <1>9, <1>11, <1>12, <1>13 DEF DataSoFar

-----------------------------------------------------------------------------
(* The calls of "one" *)

\* A sequence with one element changed.
LEMMA ExceptIs ==
  ASSUME NEW S, NEW s \in Seq(S), NEW n \in 1 .. Len(s), NEW e \in S
  PROVE  /\ [s EXCEPT ![n] = e] \in Seq(S) /\ Len([s EXCEPT ![n] = e]) = Len(s)
         /\ \A a \in 1 .. Len(s) : [s EXCEPT ![n] = e][a] = IF a = n THEN e ELSE s[a]
OBVIOUS

\* A sequence without its last element.
LEMMA FrontIs ==
  ASSUME NEW S, NEW s \in Seq(S), s # <<>>
  PROVE  /\ Front(s) \in Seq(S) /\ Len(Front(s)) = Len(s) - 1
         /\ \A a \in 1 .. Len(s) - 1 : Front(s)[a] = s[a]
<1> DEFINE n == Len(s) - 1
<1>1. n \in Nat /\ 0 + n <= Len(s) /\ 0 + n = n /\ 0 + 1 = 1
  OBVIOUS
<1> HIDE DEF n
<1>2. /\ SubSeq(s, 0 + 1, 0 + n) \in Seq(S) /\ Len(SubSeq(s, 0 + 1, 0 + n)) = n
      /\ \A j \in 1 .. n : SubSeq(s, 0 + 1, 0 + n)[j] = s[0 + j]
  BY <1>1, SubSeqIs
<1>3. \A j \in 1 .. n : 0 + j = j
  BY <1>1
<1>4. /\ SubSeq(s, 1, n) \in Seq(S) /\ Len(SubSeq(s, 1, n)) = n
      /\ \A j \in 1 .. n : SubSeq(s, 1, n)[j] = s[j]
  BY <1>1, <1>2, <1>3
<1>5. Front(s) = SubSeq(s, 1, n)
  BY DEF Front, n
<1> QED BY <1>4, <1>5 DEF n

\* The calls ls when D are the directories that have been begun before this step.
Stack(D, y, h, Q, ls) ==
  /\ ls # <<>> /\ ls \in Seq(Directories)
  /\ \A a \in 1 .. Len(ls) : FrameOK(y, h, Q, ls[a]) /\ ls[a].dir \in D
  /\ \A a, b \in 1 .. Len(ls) : ls[a].dir = ls[b].dir => a = b
  /\ \A d \in D : Q[d] = Len(h.list[d]) \/ \E a \in 1 .. Len(ls) : ls[a].dir = d

Shorter(fs) == [fs EXCEPT ![Len(fs)].rest = Tail(@)]

\* Directory c has one entry more behind it; the others are where they were.
Behind(x, g, P, y, h, Q, c) ==
  /\ Dirs(x) \subseteq Dirs(y)
  /\ P[c] \in Nat /\ Q[c] = P[c] + 1 /\ \A d \in Dirs(x) : d # c => Q[d] = P[d]
  /\ \A d \in Dirs(x) : h.list[d] = g.list[d]

\* What is left of the calls when the entry at hand has been taken.
LEMMA FramesAdvance ==
  ASSUME NEW x, NEW g, NEW P, NEW fs, FramesSoFar(x, g, P, fs), fs # <<>>,
         NEW t, t = Last(fs), t.rest # <<>>,
         NEW ls, ls = Shorter(fs),
         NEW y, NEW h, NEW Q, Behind(x, g, P, y, h, Q, t.dir)
  PROVE  /\ t.dir \in Dirs(x) /\ P[t.dir] < Len(g.list[t.dir])
         /\ Head(t.rest) = g.list[t.dir][P[t.dir] + 1]
         /\ Stack(Dirs(x), y, h, Q, ls)
<1> DEFINE n == Len(fs)
           c == t.dir
           s == [t EXCEPT !.rest = Tail(@)]
           r == t.rest
<1>0. /\ Dirs(x) \subseteq Dirs(y)
      /\ P[c] \in Nat /\ Q[c] = P[c] + 1 /\ \A d \in Dirs(x) : d # c => Q[d] = P[d]
      /\ \A d \in Dirs(x) : h.list[d] = g.list[d]
  BY DEF Behind
<1>1. fs \in Seq(Directories) /\ n \in Nat /\ n > 0 /\ n \in 1 .. n
  BY DEF FramesSoFar
<1>2. t = fs[n]
  BY DEF Last
<1>3. t \in Directories
  BY <1>1, <1>2
<1>4. r \in Seq(Entries) /\ r # <<>>
  BY <1>3 DEF Directories
<1>5. s.dir = c /\ s.rest = Tail(r)
  BY <1>3 DEF Directories
<1>6. /\ Tail(r) \in Seq(Entries) /\ Len(Tail(r)) = Len(r) - 1 /\ Len(r) \in Nat /\ Len(r) > 0
      /\ \A j \in 1 .. Len(r) - 1 : Tail(r)[j] = r[j + 1]
      /\ Head(r) = r[1]
  <2> HIDE DEF r
  <2> QED BY <1>4
<1>7. s \in Directories
  <2>1. Tail(t.rest) \in Seq(Entries)
    BY <1>6
  <2> QED BY <1>3, <2>1 DEF Directories
<1>8. ls = [fs EXCEPT ![n] = s]
  BY <1>1, <1>2 DEF Shorter
<1> HIDE DEF s
<1>9. /\ ls \in Seq(Directories) /\ Len(ls) = n
      /\ \A a \in 1 .. n : ls[a] = IF a = n THEN s ELSE fs[a]
  <2> HIDE DEF n
  <2>1. n \in 1 .. Len(fs) /\ n = Len(fs)
    BY <1>1 DEF n
  <2>2. /\ [fs EXCEPT ![n] = s] \in Seq(Directories) /\ Len([fs EXCEPT ![n] = s]) = n
        /\ \A a \in 1 .. n : [fs EXCEPT ![n] = s][a] = IF a = n THEN s ELSE fs[a]
    BY <1>1, <1>7, <2>1, ExceptIs
  <2> QED BY <1>8, <2>2
<1>10. FrameOK(x, g, P, t)
  BY <1>1, <1>2 DEF FramesSoFar
<1>11. /\ c \in Dirs(x) /\ P[c] + Len(r) = Len(g.list[c])
       /\ \A j \in 1 .. Len(r) : r[j] = g.list[c][P[c] + j]
  BY <1>10 DEF FrameOK
<1>12. P[c] < Len(g.list[c]) /\ Head(r) = g.list[c][P[c] + 1]
  <2>1. 1 \in 1 .. Len(r)
    BY <1>6
  <2>2. Head(r) = g.list[c][P[c] + 1]
    BY <1>6, <1>11, <2>1
  <2> DEFINE p == P[c]
             l == Len(r)
  <2>3. p \in Nat /\ l \in Nat /\ l > 0 /\ p + l = Len(g.list[c])
    BY <1>0, <1>6, <1>11
  <2> HIDE DEF p, l
  <2>4. p < Len(g.list[c])
    BY <2>3
  <2> QED BY <2>2, <2>4 DEF p
<1>13. \A a \in 1 .. n : ls[a].dir = fs[a].dir
  BY <1>2, <1>5, <1>9
<1>14. FrameOK(y, h, Q, s)
  <2> DEFINE p == P[c]
             l == Len(r)
             list == g.list[c]
             tl == Tail(r)
  <2>1. h.list[c] = list /\ Q[c] = p + 1 /\ c \in Dirs(y)
    BY <1>0, <1>11
  <2>2. p \in Nat /\ l \in Nat /\ l > 0 /\ p + l = Len(list) /\ \A j \in 1 .. l : r[j] = list[p + j]
    BY <1>0, <1>6, <1>11
  <2>3. tl \in Seq(Entries) /\ Len(tl) = l - 1 /\ \A j \in 1 .. l - 1 : tl[j] = r[j + 1]
    BY <1>6
  <2>4. s.dir = c /\ s.rest = tl
    BY <1>5
  <2> HIDE DEF p, l, list, tl, r, c
  <2>5. (p + 1) + Len(tl) = Len(list)
    <3>1. Len(tl) = l - 1 /\ p + l = Len(list)
      BY <2>2, <2>3
    <3>2. (p + 1) + (l - 1) = p + l
      BY <2>2
    <3> QED BY <3>1, <3>2
  <2>6. \A j \in 1 .. Len(tl) : tl[j] = list[(p + 1) + j]
    <3> SUFFICES ASSUME NEW j \in 1 .. Len(tl) PROVE tl[j] = list[(p + 1) + j]
      OBVIOUS
    <3>1. j \in 1 .. l - 1 /\ j + 1 \in 1 .. l /\ p + (j + 1) = (p + 1) + j
      BY <2>2, <2>3
    <3> QED BY <2>2, <2>3, <3>1
  <2> QED BY <2>1, <2>3, <2>4, <2>5, <2>6 DEF FrameOK
<1>15. ASSUME NEW a \in 1 .. n PROVE FrameOK(y, h, Q, ls[a]) /\ ls[a].dir \in Dirs(x)
  <2>1. CASE a = n
    BY <1>5, <1>9, <1>11, <1>14, <2>1
  <2>2. CASE a # n
    <3>1. ls[a] = fs[a]
      BY <1>9, <2>2
    <3>2. FrameOK(x, g, P, fs[a]) /\ fs[a].dir # c
      BY <1>1, <1>2, <2>2 DEF FramesSoFar
    <3> DEFINE f == fs[a]
    <3> HIDE DEF f
    <3>3. FrameOK(x, g, P, f) /\ f.dir # c
      BY <3>2 DEF f
    <3>4. f.dir \in Dirs(x) /\ Q[f.dir] = P[f.dir] /\ h.list[f.dir] = g.list[f.dir]
      BY <1>0, <3>3 DEF FrameOK
    <3>5. FrameOK(y, h, Q, f)
      BY <1>0, <3>3, <3>4 DEF FrameOK
    <3> QED BY <3>1, <3>4, <3>5 DEF f
  <2> QED BY <2>1, <2>2
<1>16. \A a, b \in 1 .. n : ls[a].dir = ls[b].dir => a = b
  BY <1>13 DEF FramesSoFar
<1>17. ASSUME NEW d \in Dirs(x) PROVE Q[d] = Len(h.list[d]) \/ \E a \in 1 .. n : ls[a].dir = d
  <2>1. CASE d = c
    <3>1. ls[n].dir = d
      BY <1>1, <1>2, <1>13, <2>1
    <3> QED BY <1>1, <3>1
  <2>2. CASE d # c
    <3>1. P[d] = Len(g.list[d]) \/ \E a \in 1 .. n : fs[a].dir = d
      BY DEF FramesSoFar
    <3>2. Q[d] = P[d] /\ h.list[d] = g.list[d]
      BY <1>0, <2>2
    <3> QED BY <1>13, <3>1, <3>2
  <2> QED BY <2>1, <2>2
<1>18. ls # <<>>
  BY <1>1, <1>9
<1> HIDE DEF n
<1>19. Stack(Dirs(x), y, h, Q, ls)
  BY <1>9, <1>15, <1>16, <1>17, <1>18 DEF Stack
<1> QED BY <1>11, <1>12, <1>19

\* A call for a new directory.
LEMMA FramesPush ==
  ASSUME NEW y, NEW h, NEW Q, NEW D, NEW k \in Inodes, k \notin D, Dirs(y) = D \cup {k},
         NEW ls, Stack(D, y, h, Q, ls),
         NEW sub \in Seq(Entries), h.list[k] = sub, Q[k] = 0
  PROVE  FramesSoFar(y, h, Q, Append(ls, [dir |-> k, rest |-> sub]))
<1> DEFINE f == [dir |-> k, rest |-> sub]
           fs == Append(ls, f)
<1>0. /\ ls \in Seq(Directories)
      /\ \A a \in 1 .. Len(ls) : FrameOK(y, h, Q, ls[a]) /\ ls[a].dir \in D
      /\ \A a, b \in 1 .. Len(ls) : ls[a].dir = ls[b].dir => a = b
      /\ \A d \in D : Q[d] = Len(h.list[d]) \/ \E a \in 1 .. Len(ls) : ls[a].dir = d
  BY DEF Stack
<1>1. f \in Directories /\ f.dir = k /\ f.rest = sub
  BY DEF Directories
<1> HIDE DEF f
<1>2. /\ fs \in Seq(Directories) /\ Len(fs) = Len(ls) + 1 /\ Len(ls) \in Nat
      /\ \A a \in 1 .. Len(ls) : fs[a] = ls[a]
      /\ fs[Len(ls) + 1] = f
  BY <1>0, <1>1, AppendIs
<1> HIDE DEF fs
<1>3. FrameOK(y, h, Q, f)
  <2>1. Len(sub) \in Nat /\ 0 + Len(sub) = Len(sub) /\ \A j \in 1 .. Len(sub) : 0 + j = j
    OBVIOUS
  <2> QED BY <1>1, <2>1 DEF FrameOK
<1>4. \A a \in 1 .. Len(fs) : a \in 1 .. Len(ls) \/ a = Len(ls) + 1
  BY <1>2
<1>5. \A a \in 1 .. Len(fs) : FrameOK(y, h, Q, fs[a])
  BY <1>0, <1>2, <1>3, <1>4
<1>6. \A a, b \in 1 .. Len(fs) : fs[a].dir = fs[b].dir => a = b
  <2> SUFFICES ASSUME NEW a \in 1 .. Len(fs), NEW b \in 1 .. Len(fs), fs[a].dir = fs[b].dir
               PROVE  a = b
    OBVIOUS
  <2>1. CASE a \in 1 .. Len(ls) /\ b \in 1 .. Len(ls)
    BY <1>0, <1>2, <2>1
  <2>2. CASE a = Len(ls) + 1 /\ b = Len(ls) + 1
    BY <2>2
  <2>3. CASE a \in 1 .. Len(ls) /\ b = Len(ls) + 1
    BY <1>0, <1>1, <1>2, <2>3
  <2>4. CASE b \in 1 .. Len(ls) /\ a = Len(ls) + 1
    BY <1>0, <1>1, <1>2, <2>4
  <2> QED BY <1>4, <2>1, <2>2, <2>3, <2>4
<1>7. ASSUME NEW d \in Dirs(y) PROVE Q[d] = Len(h.list[d]) \/ \E a \in 1 .. Len(fs) : fs[a].dir = d
  <2>1. CASE d = k
    <3>1. Len(ls) + 1 \in 1 .. Len(fs)
      BY <1>2
    <3> QED BY <1>1, <1>2, <2>1, <3>1
  <2>2. CASE d \in D
    <3>1. CASE \E a \in 1 .. Len(ls) : ls[a].dir = d
      <4>1. PICK a \in 1 .. Len(ls) : ls[a].dir = d
        BY <3>1
      <4>2. a \in 1 .. Len(fs) /\ fs[a].dir = d
        BY <1>2, <4>1
      <4> QED BY <4>2
    <3> QED BY <1>0, <2>2, <3>1
  <2> QED BY <2>1, <2>2
<1> QED BY <1>2, <1>5, <1>6, <1>7 DEF FramesSoFar, fs, f

\* The calls when no directory has been added.
LEMMA FramesStay ==
  ASSUME NEW y, NEW h, NEW Q, NEW ls, Stack(Dirs(y), y, h, Q, ls)
  PROVE  FramesSoFar(y, h, Q, ls)
BY DEF Stack, FramesSoFar

\* The end of a directory.
LEMMA FramesPop ==
  ASSUME NEW x, NEW g, NEW P, P \in [Inodes -> Nat], NEW fs, FramesSoFar(x, g, P, fs), fs # <<>>, Last(fs).rest = <<>>
  PROVE  FramesSoFar(x, g, P, Front(fs))
<1> DEFINE n == Len(fs)
           ls == Front(fs)
           t == fs[n]
<1>1. fs \in Seq(Directories) /\ n \in Nat /\ n > 0 /\ n \in 1 .. n
  BY DEF FramesSoFar
<1>2. /\ ls \in Seq(Directories) /\ Len(ls) = n - 1
      /\ \A a \in 1 .. n - 1 : ls[a] = fs[a]
  BY <1>1, FrontIs
<1>3. FrameOK(x, g, P, t) /\ t.rest = <<>>
  BY <1>1 DEF FramesSoFar, Last
<1>4. P[t.dir] = Len(g.list[t.dir])
  <2>1. t.dir \in Inodes
    BY <1>3 DEF FrameOK, Dirs, Nodes
  <2>2. P[t.dir] \in Nat
    BY <2>1
  <2>3. P[t.dir] + Len(t.rest) = Len(g.list[t.dir]) /\ Len(t.rest) = 0
    BY <1>3 DEF FrameOK
  <2> HIDE DEF t
  <2> QED BY <2>2, <2>3
<1> HIDE DEF ls
<1>5. \A a \in 1 .. Len(ls) : a \in 1 .. n /\ ls[a] = fs[a]
  BY <1>1, <1>2
<1>6. \A a \in 1 .. n : a \in 1 .. Len(ls) \/ a = n
  BY <1>1, <1>2
<1>7. \A d \in Dirs(x) : P[d] = Len(g.list[d]) \/ \E a \in 1 .. Len(ls) : ls[a].dir = d
  <2> SUFFICES ASSUME NEW d \in Dirs(x), P[d] # Len(g.list[d])
               PROVE  \E a \in 1 .. Len(ls) : ls[a].dir = d
    OBVIOUS
  <2>1. PICK a \in 1 .. n : fs[a].dir = d
    BY DEF FramesSoFar
  <2>2. a # n
    BY <1>4, <2>1
  <2> QED BY <1>5, <1>6, <2>1, <2>2
<1>8. \A a \in 1 .. Len(ls) : FrameOK(x, g, P, ls[a])
  BY <1>5 DEF FramesSoFar
<1>9. \A a, b \in 1 .. Len(ls) : ls[a].dir = ls[b].dir => a = b
  BY <1>5 DEF FramesSoFar
<1> QED BY <1>2, <1>7, <1>8, <1>9 DEF FramesSoFar, ls

\* The empty sequence before and after another.
LEMMA EmptyFirst ==
  ASSUME NEW s \in Seq(Nat)
  PROVE  <<>> \o s = s /\ s \o <<>> = s
OBVIOUS

\* The new file is the one that is copied.
LEMMA AddedFiles ==
  ASSUME NEW x, NEW y, NEW g, NEW P, NEW h, NEW Q, NEW c, NEW k, NEW e,
         Added(x, y, g, P, h, Q, c, k, e), FilesSoFar(x, g, NotCopying),
         NEW v, v = IF e.kind = "file" THEN [inode |-> k, off |-> 0, rest |-> e.data] ELSE NotCopying
  PROVE  FilesSoFar(y, h, v)
<1>1. /\ c \in Nodes(x) /\ c \in Inodes /\ k \in Inodes /\ k \notin Nodes(x) /\ c # k /\ k \in Nat
      /\ e \in Entries /\ Nodes(y) = Nodes(x) \cup {k}
      /\ \A i \in Nodes(x) : i # k
  BY AddedIs
<1>2. Grew(g, P, h, Q, c, k, e)
  BY DEF Added
<1>3. h.data[k] = <<>>
  BY <1>2 DEF Grew
<1>4. e.data \in Seq(Nat)
  BY <1>1 DEF Entries
<1>5. e.kind = "file" => v.inode = k /\ v.off = 0 /\ v.rest = e.data
  OBVIOUS
<1>6. e.kind # "file" => v = NotCopying
  OBVIOUS
<1>7. NotCopying.inode = -1 /\ k # -1
  BY <1>1 DEF NotCopying, NoNode
<1>8. ASSUME v # NotCopying PROVE CopyingOK(y, h, v)
  <2>1. e.kind = "file" /\ v = [inode |-> k, off |-> 0, rest |-> e.data]
    BY <1>6, <1>8
  <2>2. k \in Nodes(y)
    BY <1>1
  <2>3. v \in [inode : Nodes(y), off : Nat, rest : Seq(Nat)]
    BY <1>4, <2>1, <2>2
  <2>4. Field(y, k, Type) = FILE_TYPE
    BY <2>1 DEF Added, Begins
  <2>5. Len(h.data[k]) = 0
    BY <1>3
  <2> QED BY <1>5, <2>1, <2>3, <2>4, <2>5 DEF CopyingOK
<1>9. ASSUME NEW d \in Dirs(y), NEW m \in 1 .. Len(h.kids[d]), h.kids[d][m].entry.kind = "file"
      PROVE  FileSoFar(h, v, h.kids[d][m])
  <2> DEFINE kid == h.kids[d][m]
  <2>1. \/ kid = NewKid(g, c, k, e)
        \/ /\ d \in Dirs(x) /\ m \in 1 .. Len(g.kids[d]) /\ kid = g.kids[d][m]
           /\ KidOK(x, g, kid)
    BY AddedKids
  <2>2. CASE kid = NewKid(g, c, k, e)
    <3>1. kid.inode = k /\ kid.entry = e
      BY <2>2 DEF NewKid
    <3>2. e.kind = "file"
      BY <1>9, <3>1
    <3>3. h.data[k] \o e.data = e.data
      BY <1>3, <1>4, EmptyFirst
    <3> HIDE DEF kid
    <3>4. FileSoFar(h, v, kid)
      BY <1>5, <3>1, <3>2, <3>3 DEF FileSoFar
    <3> QED BY <3>4 DEF kid
  <2>3. CASE d \in Dirs(x) /\ m \in 1 .. Len(g.kids[d]) /\ kid = g.kids[d][m] /\ KidOK(x, g, kid)
    <3>1. FileSoFar(g, NotCopying, kid) /\ kid.entry.kind = "file"
      BY <1>9, <2>3 DEF FilesSoFar
    <3> DEFINE i == kid.inode
    <3>2. i \in Nodes(x) /\ Field(x, i, Type) = FILE_TYPE
      BY <2>3, <3>1 DEF KidOK
    <3>3. Field(x, c, Type) = DIR_TYPE
      BY DEF Added, Dirs
    <3>4. i \in Inodes \ {c, k} /\ i # -1
      BY <1>1, <3>2, <3>3 DEF Nodes, Inodes, DIR_TYPE, FILE_TYPE
    <3>5. h.data[i] = g.data[i]
      BY <1>2, <3>4 DEF Grew
    <3> HIDE DEF kid
    <3>6. v.inode # i
      BY <1>5, <1>6, <1>7, <3>4
    <3>7. g.data[i] = kid.entry.data
      BY <1>7, <3>1, <3>4 DEF FileSoFar
    <3>8. FileSoFar(h, v, kid)
      BY <3>5, <3>6, <3>7 DEF FileSoFar
    <3> QED BY <3>8 DEF kid
  <2> QED BY <2>1, <2>2, <2>3
<1> QED BY <1>8, <1>9 DEF FilesSoFar

\* The entry at hand.
LEMMA TopIs ==
  ASSUME NEW x, NEW g, NEW P, TreeSoFar(x, g, P), FramesSoFar(x, g, P, frames),
         frames # <<>>, Top.rest # <<>>
  PROVE  /\ Top.dir \in Dirs(x) /\ P[Top.dir] \in Nat /\ P[Top.dir] < Len(g.list[Top.dir])
         /\ Head(Top.rest) = g.list[Top.dir][P[Top.dir] + 1]
         /\ Head(Top.rest) \in Entries /\ g \in Ghosts /\ P \in [Inodes -> Nat]
<1> DEFINE t == Top
           c == t.dir
           Q == [P EXCEPT ![c] = P[c] + 1]
           ls == Shorter(frames)
<1>1. P \in [Inodes -> Nat] /\ g \in Ghosts
  BY DEF TreeSoFar
<1>2. t = Last(frames)
  BY DEF Top
<1>3. c \in Inodes
  <2>1. frames \in Seq(Directories)
    BY DEF FramesSoFar
  <2>2. t \in Directories
    BY <1>2, <2>1 DEF Last
  <2> QED BY <2>2 DEF Directories
<1>4. P[c] \in Nat
  BY <1>1, <1>3
<1>5. Q[c] = P[c] + 1 /\ \A d \in Dirs(x) : d # c => Q[d] = P[d]
  BY <1>1, <1>3 DEF Dirs, Nodes
<1> HIDE DEF Q, ls
<1>6. c \in Dirs(x) /\ P[c] < Len(g.list[c]) /\ Head(t.rest) = g.list[c][P[c] + 1]
  <2>1. ls = Shorter(frames)
    BY DEF ls
  <2>2. t.rest # <<>>
    OBVIOUS
  <2> HIDE DEF t
  <2>3. Behind(x, g, P, x, g, Q, t.dir)
    BY <1>4, <1>5 DEF Behind
  <2> QED BY <1>2, <2>1, <2>2, <2>3, FramesAdvance
<1>7. Head(t.rest) \in Entries
  <2>1. g.list[c] \in Seq(Entries)
    BY <1>1, <1>3, GhostIs
  <2>2. P[c] + 1 \in 1 .. Len(g.list[c])
    BY <1>4, <1>6, <2>1
  <2> QED BY <1>6, <2>1, <2>2
<1> QED BY <1>1, <1>4, <1>6, <1>7

\* newFile and newDirectory.
LEMMA AddIs ==
  ASSUME NEW g, NEW P, BuilderAt(g, P), InDirectory, Top.rest # <<>>,
         NEW e, e = Head(Top.rest), e.kind # "other",
         NEW type, type = IF e.kind = "dir" THEN DIR_TYPE ELSE FILE_TYPE,
         NEW n, n = NewNode(image, Top.dir, e.name, type), ~Failed(n.linked.D)
  PROVE  \E h, Q : /\ Added(image.img, n.linked.D.img, g, P, h, Q, Top.dir, n.inode, e)
                   /\ HostDisk(n.linked.D) /\ Superblock(n.linked.D.img)
                   /\ DataSoFar(n.linked.D.img, h, n.linked.writing)
<1> DEFINE x == image.img
           D == n.linked.D
           y == D.img
           c == Top.dir
           k == n.inode
<1>1. /\ HostDisk(image) /\ Superblock(x) /\ TreeSoFar(x, g, P)
      /\ DataSoFar(x, g, writing) /\ FramesSoFar(x, g, P, frames)
  BY DEF BuilderAt
<1>2. writing.rest = <<>> /\ frames # <<>>
  BY DEF InDirectory
<1>3. /\ c \in Dirs(x) /\ P[c] \in Nat /\ P[c] < Len(g.list[c])
      /\ e = g.list[c][P[c] + 1] /\ e \in Entries /\ g \in Ghosts /\ P \in [Inodes -> Nat]
  BY <1>1, <1>2, TopIs
<1>4. c \in Nodes(x) /\ c \in Inodes
  BY <1>3 DEF Dirs, Nodes
<1>5. type \in Nat
  BY DEF DIR_TYPE, FILE_TYPE
<1>6. /\ HostDisk(D) /\ Begins(x, y, k, type, 1)
      /\ n.linked.writing = [inode |-> c, off |-> Field(x, c, Size), rest |-> EntryCells(k, e.name)]
  <2> HIDE DEF c
  <2>1. n = NewNode(image, c, e.name, type)
    BY DEF c
  <2> QED BY <1>1, <1>4, <1>5, <2>1, NewNodeIs
<1>7. k \in Inodes /\ k \notin Nodes(x) /\ SameHead(x, y)
  BY <1>6 DEF Begins
<1>8. PICK h, Q : Grew(g, P, h, Q, c, k, e)
  BY <1>3, <1>4, <1>7, GrowthIs
<1>9. Added(x, y, g, P, h, Q, c, k, e)
  BY <1>1, <1>3, <1>6, <1>8 DEF Added
<1>10. \A i \in Nodes(x) : Holds(x, i, g.data[i])
  BY <1>1, <1>2 DEF DataSoFar
<1> HIDE DEF x, y, c, k
<1>11. DataSoFar(y, h, n.linked.writing)
  BY <1>6, <1>9, <1>10, AddedData
<1>12. Superblock(y)
  BY <1>1, <1>7, SuperblockFrame
<1> QED BY <1>6, <1>9, <1>11, <1>12 DEF x, y, c, k

\* The calls after an entry.
LEMMA AddedFrames ==
  ASSUME NEW x, NEW y, NEW g, NEW P, NEW h, NEW Q, NEW k, NEW e,
         Added(x, y, g, P, h, Q, Top.dir, k, e), FramesSoFar(x, g, P, frames),
         frames # <<>>, Top.rest # <<>>
  PROVE  Stack(Dirs(x), y, h, Q, Advance)
<1> DEFINE t == Top
           c == t.dir
           ls == Advance
<1>1. /\ k \notin Nodes(x) /\ c # k /\ P[c] \in Nat
      /\ Dirs(y) = IF e.kind = "dir" THEN Dirs(x) \cup {k} ELSE Dirs(x)
  BY AddedIs
<1>2. Grew(g, P, h, Q, c, k, e)
  BY DEF Added
<1>3. t = Last(frames) /\ ls = Shorter(frames) /\ t.rest # <<>>
  BY DEF Top, Advance, Shorter
<1>4. \A d \in Dirs(x) : d \in Inodes /\ d # k
  BY <1>1 DEF Dirs, Nodes
<1>5. Q[c] = P[c] + 1 /\ \A d \in Dirs(x) : d # c => Q[d] = P[d]
  BY <1>2, <1>4 DEF Grew
<1>6. \A d \in Dirs(x) : h.list[d] = g.list[d]
  BY <1>2, <1>4 DEF Grew
<1>7. Dirs(x) \subseteq Dirs(y)
  BY <1>1
<1> HIDE DEF ls, t
<1>8. Stack(Dirs(x), y, h, Q, ls)
  <2>1. Behind(x, g, P, y, h, Q, t.dir)
    BY <1>1, <1>5, <1>6, <1>7 DEF Behind
  <2> QED BY <1>3, <2>1, FramesAdvance
<1> QED BY <1>8 DEF ls

\* The parts of the builder's invariant after a step.
LEMMA BuilderAfter ==
  ASSUME NEW g, NEW P, tree' = tree,
         HostDisk(image'), Superblock(image'.img),
         TreeSoFar(image'.img, g, P), DataSoFar(image'.img, g, writing'),
         FilesSoFar(image'.img, g, copying'), FramesSoFar(image'.img, g, P, frames'),
         frames' = <<>> => copying' = NotCopying /\ writing'.rest = <<>>
  PROVE  BuilderAt(g, P)'
BY DEF BuilderAt, TreeSoFar

\* An entry of a file.
LEMMA AddFileOK ==
  ASSUME NEW g, NEW P, BuilderAt(g, P), AddFile, ~Failed(image')
  PROVE  \E h, Q : BuilderAt(h, Q)'
<1> DEFINE e == Head(Top.rest)
           n == NewNode(image, Top.dir, e.name, FILE_TYPE)
           x == image.img
           y == image'.img
           k == n.inode
<1>1. /\ InDirectory /\ Top.rest # <<>> /\ e.kind = "file"
      /\ image' = n.linked.D /\ writing' = n.linked.writing
      /\ copying' = [inode |-> k, off |-> 0, rest |-> e.data]
      /\ frames' = Advance /\ tree' = tree
  BY DEF AddFile
<1>2. /\ FilesSoFar(x, g, copying) /\ FramesSoFar(x, g, P, frames)
  BY DEF BuilderAt
<1>3. copying = NotCopying /\ frames # <<>>
  BY <1>1 DEF InDirectory
<1>4. FILE_TYPE = IF e.kind = "dir" THEN DIR_TYPE ELSE FILE_TYPE
  BY <1>1
<1>5. n = NewNode(image, Top.dir, e.name, FILE_TYPE) /\ e = Head(Top.rest) /\ e.kind # "other"
  BY <1>1
<1>6. ~Failed(n.linked.D)
  BY <1>1
<1> HIDE DEF e, n
<1>7. PICK h, Q : /\ Added(x, n.linked.D.img, g, P, h, Q, Top.dir, n.inode, e)
                  /\ HostDisk(n.linked.D) /\ Superblock(n.linked.D.img)
                  /\ DataSoFar(n.linked.D.img, h, n.linked.writing)
  BY <1>1, <1>4, <1>5, <1>6, AddIs
<1>8. Added(x, y, g, P, h, Q, Top.dir, k, e) /\ HostDisk(image') /\ Superblock(y) /\ DataSoFar(y, h, writing')
  BY <1>1, <1>7
<1> HIDE DEF x, y, k
<1>9. TreeSoFar(y, h, Q)
  BY <1>8, AddedTree
<1>10. FilesSoFar(y, h, copying')
  <2>1. copying' = IF e.kind = "file" THEN [inode |-> k, off |-> 0, rest |-> e.data] ELSE NotCopying
    BY <1>1
  <2>2. FilesSoFar(x, g, NotCopying)
    BY <1>2, <1>3 DEF x
  <2> QED BY <1>8, <2>1, <2>2, AddedFiles
<1>11. Stack(Dirs(x), y, h, Q, frames')
  BY <1>1, <1>2, <1>3, <1>8, AddedFrames DEF x
<1>12. Dirs(y) = Dirs(x)
  BY <1>1, <1>8, AddedIs
<1>13. FramesSoFar(y, h, Q, frames') /\ frames' # <<>>
  <2>1. Stack(Dirs(y), y, h, Q, frames')
    BY <1>11, <1>12
  <2> QED BY <2>1, FramesStay DEF Stack
<1>14. BuilderAt(h, Q)'
  BY <1>1, <1>8, <1>9, <1>10, <1>13, BuilderAfter DEF y
<1> QED BY <1>14

\* An entry of a directory.
LEMMA AddDirectoryOK ==
  ASSUME NEW g, NEW P, BuilderAt(g, P), AddDirectory, ~Failed(image')
  PROVE  \E h, Q : BuilderAt(h, Q)'
<1> DEFINE e == Head(Top.rest)
           n == NewNode(image, Top.dir, e.name, DIR_TYPE)
           x == image.img
           y == image'.img
           k == n.inode
<1>1. /\ InDirectory /\ Top.rest # <<>> /\ e.kind = "dir"
      /\ image' = n.linked.D /\ writing' = n.linked.writing
      /\ copying' = copying
      /\ frames' = Append(Advance, [dir |-> k, rest |-> e.sub]) /\ tree' = tree
  BY DEF AddDirectory
<1>2. /\ FilesSoFar(x, g, copying) /\ FramesSoFar(x, g, P, frames)
  BY DEF BuilderAt
<1>3. copying = NotCopying /\ frames # <<>>
  BY <1>1 DEF InDirectory
<1>4. DIR_TYPE = IF e.kind = "dir" THEN DIR_TYPE ELSE FILE_TYPE
  BY <1>1
<1>5. n = NewNode(image, Top.dir, e.name, DIR_TYPE) /\ e = Head(Top.rest) /\ e.kind # "other"
  BY <1>1
<1>6. ~Failed(n.linked.D)
  BY <1>1
<1> HIDE DEF e, n
<1>7. PICK h, Q : /\ Added(x, n.linked.D.img, g, P, h, Q, Top.dir, n.inode, e)
                  /\ HostDisk(n.linked.D) /\ Superblock(n.linked.D.img)
                  /\ DataSoFar(n.linked.D.img, h, n.linked.writing)
  BY <1>1, <1>4, <1>5, <1>6, AddIs
<1>8. Added(x, y, g, P, h, Q, Top.dir, k, e) /\ HostDisk(image') /\ Superblock(y) /\ DataSoFar(y, h, writing')
  BY <1>1, <1>7
<1> HIDE DEF x, y, k
<1>9. TreeSoFar(y, h, Q)
  BY <1>8, AddedTree
<1>10. FilesSoFar(y, h, copying')
  <2>1. copying' = IF e.kind = "file" THEN [inode |-> k, off |-> 0, rest |-> e.data] ELSE NotCopying
    BY <1>1, <1>3
  <2>2. FilesSoFar(x, g, NotCopying)
    BY <1>2, <1>3 DEF x
  <2> QED BY <1>8, <2>1, <2>2, AddedFiles
<1>11. Stack(Dirs(x), y, h, Q, Advance)
  BY <1>1, <1>2, <1>3, <1>8, AddedFrames DEF x
<1>12. Dirs(y) = Dirs(x) \cup {k} /\ k \in Inodes /\ k \notin Nodes(x) /\ e \in Entries
  BY <1>1, <1>8, AddedIs
<1>13. FramesSoFar(y, h, Q, frames') /\ frames' # <<>>
  <2> DEFINE sub == e.sub
  <2>1. h.list[k] = sub /\ Q[k] = 0
    BY <1>8 DEF Added, Grew
  <2>2. sub \in Listings
    BY <1>12 DEF Entries
  <2>3. sub \in Seq(Entries)
    BY <2>2, ListingIs
  <2>4. k \notin Dirs(x)
    BY <1>12 DEF Dirs
  <2> DEFINE ls == Advance
  <2>5. Stack(Dirs(x), y, h, Q, ls) /\ frames' = Append(ls, [dir |-> k, rest |-> sub])
    BY <1>1, <1>11
  <2> HIDE DEF ls, sub
  <2>6. FramesSoFar(y, h, Q, Append(ls, [dir |-> k, rest |-> sub]))
    BY <1>12, <2>1, <2>3, <2>4, <2>5, FramesPush
  <2>7. Append(ls, [dir |-> k, rest |-> sub]) # <<>>
    <3>1. ls \in Seq(Directories) /\ [dir |-> k, rest |-> sub] \in Directories
      BY <1>12, <2>3, <2>5 DEF Stack, Directories
    <3> DEFINE f == [dir |-> k, rest |-> sub]
    <3> HIDE DEF f
    <3>2. Append(ls, f) # <<>>
      <4>1. Len(Append(ls, f)) = Len(ls) + 1 /\ Len(ls) \in Nat
        BY <3>1, AppendIs DEF f
      <4> QED BY <4>1
    <3> QED BY <3>2 DEF f
  <2> QED BY <2>5, <2>6, <2>7
<1>14. BuilderAt(h, Q)'
  BY <1>1, <1>8, <1>9, <1>10, <1>13, BuilderAfter DEF y
<1> QED BY <1>14

\* An entry that is neither.
LEMMA SkipEntryOK ==
  ASSUME NEW g, NEW P, BuilderAt(g, P), SkipEntry
  PROVE  \E h, Q : BuilderAt(h, Q)'
<1> DEFINE t == Top
           c == t.dir
           x == image.img
<1>1. /\ InDirectory /\ t.rest # <<>> /\ Head(t.rest).kind = "other"
      /\ image' = image /\ writing' = writing /\ copying' = copying
      /\ frames' = Advance /\ tree' = tree
  BY DEF SkipEntry
<1>2. /\ HostDisk(image) /\ Superblock(x)
      /\ TreeSoFar(x, g, P) /\ DataSoFar(x, g, writing)
      /\ FilesSoFar(x, g, copying) /\ FramesSoFar(x, g, P, frames)
  BY DEF BuilderAt
<1>3. frames # <<>>
  BY <1>1 DEF InDirectory
<1> HIDE DEF x
<1>4. /\ c \in Dirs(x) /\ P[c] \in Nat /\ Head(t.rest) = g.list[c][P[c] + 1]
      /\ P \in [Inodes -> Nat]
  BY <1>1, <1>2, <1>3, TopIs
<1>5. c \in Inodes
  BY <1>4 DEF Dirs, Nodes
<1> PICK Q : Q = [P EXCEPT ![c] = P[c] + 1]
  OBVIOUS
<1>6. Q \in [Inodes -> Nat] /\ Q[c] = P[c] + 1 /\ \A d \in Inodes : d # c => Q[d] = P[d]
  BY <1>4, <1>5
<1> HIDE DEF c
<1>7. GoodDir(g, c, Q[c])
  <2> DEFINE p == P[c]
  <2>1. GoodDir(g, c, p)
    BY <1>2, <1>4 DEF TreeSoFar
  <2>2. p \in Nat /\ g.list[c][p + 1].kind = "other"
    BY <1>1, <1>4
  <2> HIDE DEF p
  <2>3. Covers(g.kids[c], g.list[c], p + 1)
    BY <2>1, <2>2, CoversSkip DEF GoodDir
  <2>4. GoodDir(g, c, p + 1)
    BY <2>1, <2>3 DEF GoodDir
  <2> QED BY <1>6, <2>4 DEF p
<1>8. \A d \in Dirs(x) : d \in Inodes
  BY DEF Dirs, Nodes
<1>9. TreeSoFar(x, g, Q)
  BY <1>2, <1>6, <1>7, <1>8 DEF TreeSoFar
<1>10. Behind(x, g, P, x, g, Q, c)
  BY <1>4, <1>6, <1>8 DEF Behind
<1>11. Stack(Dirs(x), x, g, Q, frames')
  <2> DEFINE ls == Advance
  <2>1. t = Last(frames) /\ ls = Shorter(frames) /\ t.rest # <<>>
    BY <1>1 DEF Top, Advance, Shorter
  <2> HIDE DEF ls, t
  <2>2. Behind(x, g, P, x, g, Q, t.dir)
    BY <1>10 DEF c
  <2>3. Stack(Dirs(x), x, g, Q, ls)
    BY <1>2, <1>3, <2>1, <2>2, FramesAdvance
  <2> QED BY <1>1, <2>3 DEF ls
<1>12. FramesSoFar(x, g, Q, frames') /\ frames' # <<>>
  BY <1>11, FramesStay DEF Stack
<1>13. BuilderAt(g, Q)'
  <2>1. image'.img = x
    BY <1>1 DEF x
  <2>2. /\ HostDisk(image') /\ Superblock(image'.img) /\ TreeSoFar(image'.img, g, Q)
        /\ DataSoFar(image'.img, g, writing') /\ FilesSoFar(image'.img, g, copying')
        /\ FramesSoFar(image'.img, g, Q, frames')
    BY <1>1, <1>2, <1>9, <1>12, <2>1
  <2>3. tree' = tree /\ (frames' = <<>> => copying' = NotCopying /\ writing'.rest = <<>>)
    BY <1>1, <1>12
  <2> QED BY <2>2, <2>3, BuilderAfter
<1> QED BY <1>13

\* The end of a directory.
LEMMA EndOfDirectoryOK ==
  ASSUME NEW g, NEW P, BuilderAt(g, P), EndOfDirectory
  PROVE  BuilderAt(g, P)'
<1> DEFINE x == image.img
<1>1. /\ InDirectory /\ Top.rest = <<>>
      /\ image' = image /\ writing' = writing /\ copying' = copying
      /\ frames' = Front(frames) /\ tree' = tree
  BY DEF EndOfDirectory
<1>2. /\ HostDisk(image) /\ Superblock(x)
      /\ TreeSoFar(x, g, P) /\ DataSoFar(x, g, writing)
      /\ FilesSoFar(x, g, copying) /\ FramesSoFar(x, g, P, frames)
  BY DEF BuilderAt
<1>3. copying = NotCopying /\ writing.rest = <<>> /\ frames # <<>>
  BY <1>1 DEF InDirectory
<1> HIDE DEF x
<1>4. Last(frames).rest = <<>>
  BY <1>1 DEF Top
<1>5. P \in [Inodes -> Nat]
  BY <1>2 DEF TreeSoFar
<1>6. FramesSoFar(x, g, P, Front(frames))
  BY <1>2, <1>3, <1>4, <1>5, FramesPop
<1> QED
  <2>1. image'.img = x
    BY <1>1 DEF x
  <2> QED BY <1>1, <1>2, <1>3, <1>6, <2>1, BuilderAfter

-----------------------------------------------------------------------------
(* CopyBuffer *)

\* A sequence cut in two.
LEMMA CutIs ==
  ASSUME NEW s \in Seq(Nat), NEW n \in 1 .. Len(s)
  PROVE  /\ SubSeq(s, 1, n) \in Seq(Nat) /\ SubSeq(s, n + 1, Len(s)) \in Seq(Nat)
         /\ Len(SubSeq(s, 1, n)) = n /\ SubSeq(s, 1, n) # <<>>
<1>1. /\ SubSeq(s, 1, n) \in Seq(Nat) /\ SubSeq(s, n + 1, Len(s)) \in Seq(Nat)
      /\ Len(SubSeq(s, 1, n)) = n
  OBVIOUS
<1> QED BY <1>1

\* One after another after another.
LEMMA JoinAssociative ==
  ASSUME NEW p \in Seq(Nat), NEW q \in Seq(Nat), NEW r \in Seq(Nat)
  PROVE  (p \o q) \o r = p \o (q \o r)
BY ConcatAssociative, SMTT(30)

\* What is cut in two and joined again, after something else.
LEMMA CutJoined ==
  ASSUME NEW d \in Seq(Nat), NEW s \in Seq(Nat), NEW n \in 1 .. Len(s)
  PROVE  (d \o SubSeq(s, 1, n)) \o SubSeq(s, n + 1, Len(s)) = d \o s
<1> DEFINE a == SubSeq(s, 1, n)
           b == SubSeq(s, n + 1, Len(s))
<1>1. a \in Seq(Nat) /\ b \in Seq(Nat)
  BY CutIs
<1>2. a \o b = SubSeq(s, 1, Len(s))
  <2>1. 1 \in 1 .. Len(s) + 1 /\ n \in 1 - 1 .. Len(s) /\ Len(s) \in n .. Len(s)
    OBVIOUS
  <2> QED BY <2>1, ConcatAdjacentSubSeq
<1>3. SubSeq(s, 1, Len(s)) = s
  BY SubSeqFull
<1> HIDE DEF a, b
<1>4. (d \o a) \o b = d \o (a \o b)
  BY <1>1, JoinAssociative
<1> QED BY <1>2, <1>3, <1>4 DEF a, b

\* Node i, a file, holds more.
Longer(g, h, i, a) ==
  /\ h \in Ghosts /\ h.list = g.list /\ h.kids = g.kids /\ h.data[i] = g.data[i] \o a
  /\ \A j \in Inodes : j # i => h.data[j] = g.data[j]

\* There is always such a longer file.
LEMMA LongerIs ==
  ASSUME NEW g \in Ghosts, NEW i \in Inodes, NEW a \in Seq(Nat)
  PROVE  \E h : Longer(g, h, i, a)
<1>1. g.list \in [Inodes -> Listings] /\ g.kids \in [Inodes -> Seq(Kids)] /\ g.data \in [Inodes -> Seq(Nat)]
  BY DEF Ghosts
<1> DEFINE d == g.data[i] \o a
           f == [g.data EXCEPT ![i] = d]
           h == [list |-> g.list, kids |-> g.kids, data |-> f]
<1>2. d \in Seq(Nat)
  BY <1>1
<1> HIDE DEF d
<1>3. f \in [Inodes -> Seq(Nat)] /\ f[i] = d /\ \A j \in Inodes : j # i => f[j] = g.data[j]
  BY <1>1, <1>2
<1> HIDE DEF f
<1>4. h \in Ghosts /\ h.list = g.list /\ h.kids = g.kids /\ h.data = f
  BY <1>1, <1>3 DEF Ghosts
<1> HIDE DEF h
<1>5. Longer(g, h, i, a)
  BY <1>3, <1>4 DEF Longer, d
<1> QED BY <1>5

\* The tree does not depend on what the files hold.
LEMMA LongerTree ==
  ASSUME NEW x, NEW g, NEW h, NEW i, NEW a, Longer(g, h, i, a),
         Field(x, i, Type) = FILE_TYPE, NEW P, TreeSoFar(x, g, P)
  PROVE  TreeSoFar(x, h, P)
<1>1. \A d \in Dirs(x) : d \in Inodes /\ d # i
  BY DEF Dirs, Nodes, DIR_TYPE, FILE_TYPE
<1>2. h.list = g.list /\ h.kids = g.kids /\ \A d \in Dirs(x) : h.data[d] = g.data[d]
  BY <1>1 DEF Longer
<1>3. \A k : KidOK(x, g, k) => KidOK(x, h, k)
  BY <1>2 DEF KidOK
<1>4. \A d \in Dirs(x) : GoodDir(g, d, P[d]) => GoodDir(h, d, P[d])
  BY <1>2 DEF GoodDir
<1> QED BY <1>2, <1>3, <1>4 DEF TreeSoFar, Longer

\* Nor do the calls.
LEMMA LongerFrames ==
  ASSUME NEW x, NEW g, NEW h, NEW i, NEW a, Longer(g, h, i, a), NEW P, NEW fs, FramesSoFar(x, g, P, fs)
  PROVE  FramesSoFar(x, h, P, fs)
<1>1. h.list = g.list
  BY DEF Longer
<1>2. \A f : FrameOK(x, g, P, f) => FrameOK(x, h, P, f)
  BY <1>1 DEF FrameOK
<1> QED BY <1>1, <1>2 DEF FramesSoFar

\* The buffer is what is to be written.
LEMMA LongerData ==
  ASSUME NEW x, NEW g, NEW h, NEW i \in Nodes(x), NEW a \in Seq(Nat), Longer(g, h, i, a), g \in Ghosts,
         \A j \in Nodes(x) : Holds(x, j, g.data[j]),
         NEW v, v.inode = i, v.off = Len(g.data[i]), v.rest = a
  PROVE  v \in [inode : Nodes(x), off : Nat, rest : Seq(Nat)] => DataSoFar(x, h, v)
<1> SUFFICES ASSUME v \in [inode : Nodes(x), off : Nat, rest : Seq(Nat)] PROVE DataSoFar(x, h, v)
  OBVIOUS
<1> DEFINE data == g.data[i]
           w == [inode |-> i, off |-> Len(data), rest |-> a]
<1>1. \A j \in Nodes(x) : j \in Inodes
  BY DEF Nodes
<1>2. data \in Seq(Nat)
  BY <1>1, GhostIs
<1>3. Holds(x, i, data) /\ h.data[i] = data \o a
  BY DEF Longer
<1> HIDE DEF data
<1>4. w = [inode |-> i, off |-> Len(data), rest |-> a]
  OBVIOUS
<1> HIDE DEF w
<1>5. Unwritten(x, h, w)
  BY <1>2, <1>3, <1>4, UnwrittenIs
<1>6. v.inode = w.inode /\ v.off = w.off /\ v.rest = w.rest
  BY <1>4 DEF data
<1>7. Unwritten(x, h, v)
  BY <1>5, <1>6 DEF Unwritten
<1>8. \A j \in Nodes(x) : j # i => Holds(x, j, h.data[j])
  BY <1>1 DEF Longer
<1>9. a = <<>> => Holds(x, i, h.data[i])
  <2>1. SUFFICES ASSUME a = <<>> PROVE Holds(x, i, h.data[i])
    OBVIOUS
  <2>2. data \o a = data
    BY <1>2, <2>1, EmptyFirst
  <2> QED BY <1>3, <2>2
<1> QED BY <1>7, <1>8, <1>9 DEF DataSoFar

\* The rest of the file is still to come.
LEMMA LongerFiles ==
  ASSUME NEW x, NEW g, NEW h, NEW c, NEW n, n \in 1 .. Len(c.rest), g \in Ghosts,
         Longer(g, h, c.inode, SubSeq(c.rest, 1, n)), CopyingOK(x, g, c), FilesSoFar(x, g, c),
         \A d \in Dirs(x) : \A m \in 1 .. Len(g.kids[d]) : KidOK(x, g, g.kids[d][m]),
         NEW v, v \in [inode : Nodes(x), off : Nat, rest : Seq(Nat)],
         v.inode = c.inode, v.off = c.off + n, v.rest = SubSeq(c.rest, n + 1, Len(c.rest))
  PROVE  FilesSoFar(x, h, v)
<1> DEFINE i == c.inode
           rest == c.rest
           a == SubSeq(rest, 1, n)
           b == SubSeq(rest, n + 1, Len(rest))
           data == g.data[i]
<1>1. i \in Nodes(x) /\ i \in Inodes /\ rest \in Seq(Nat) /\ Field(x, i, Type) = FILE_TYPE /\ c.off = Len(data)
  BY DEF CopyingOK, Nodes
<1>2. data \in Seq(Nat)
  BY <1>1, GhostIs
<1>3. h.data[i] = data \o a /\ h.kids = g.kids /\ \A j \in Inodes : j # i => h.data[j] = g.data[j]
  BY DEF Longer
<1>4. v.inode = i /\ v.off = Len(data) + n /\ v.rest = b
  BY <1>1
<1>5. a \in Seq(Nat) /\ Len(a) = n /\ (data \o a) \o b = data \o rest
  <2> HIDE DEF rest, data
  <2>1. n \in 1 .. Len(rest)
    BY DEF rest
  <2> QED BY <1>1, <1>2, <2>1, CutIs, CutJoined
<1> HIDE DEF i, rest, a, b, data
<1>6. CopyingOK(x, h, v)
  <2>1. Len(h.data[i]) = Len(data) + n
    <3>1. Len(data \o a) = Len(data) + Len(a)
      BY <1>2, <1>5, ConcatIs
    <3> QED BY <1>3, <1>5, <3>1
  <2> QED BY <1>1, <1>4, <2>1 DEF CopyingOK
<1>7. ASSUME NEW d \in Dirs(x), NEW m \in 1 .. Len(h.kids[d]), h.kids[d][m].entry.kind = "file"
      PROVE  FileSoFar(h, v, h.kids[d][m])
  <2> DEFINE k == g.kids[d][m]
  <2>1. h.kids[d][m] = k /\ FileSoFar(g, c, k) /\ KidOK(x, g, k)
    BY <1>3, <1>7 DEF FilesSoFar
  <2> HIDE DEF k
  <2>2. k.inode \in Inodes
    BY <2>1 DEF KidOK, Nodes
  <2>3. CASE k.inode = i
    <3>1. data \o rest = k.entry.data
      BY <2>1, <2>3 DEF FileSoFar, i, rest, data
    <3>2. h.data[i] \o v.rest = k.entry.data
      BY <1>3, <1>4, <1>5, <3>1
    <3> QED BY <1>4, <2>1, <2>3, <3>2 DEF FileSoFar
  <2>4. CASE k.inode # i
    <3>1. g.data[k.inode] = k.entry.data
      BY <2>1, <2>4 DEF FileSoFar, i
    <3>2. h.data[k.inode] = k.entry.data
      BY <1>3, <2>2, <2>4, <3>1
    <3> QED BY <1>4, <2>1, <2>4, <3>2 DEF FileSoFar
  <2> QED BY <2>3, <2>4
<1> QED BY <1>6, <1>7 DEF FilesSoFar

\* A buffer of the file that is copied, or its end.
LEMMA CopyBufferOK ==
  ASSUME NEW g, NEW P, BuilderAt(g, P), CopyBuffer
  PROVE  \E h : BuilderAt(h, P)'
<1> DEFINE x == image.img
<1>1. /\ HostDisk(image) /\ Superblock(x)
      /\ TreeSoFar(x, g, P) /\ DataSoFar(x, g, writing)
      /\ FilesSoFar(x, g, copying) /\ FramesSoFar(x, g, P, frames)
      /\ frames = <<>> => copying = NotCopying
  BY DEF BuilderAt
<1>2. /\ copying # NotCopying /\ writing.rest = <<>>
      /\ tree' = tree /\ image' = image /\ frames' = frames
  BY DEF CopyBuffer
<1>3. CopyingOK(x, g, copying) /\ frames # <<>>
  BY <1>1, <1>2 DEF FilesSoFar
<1> PICK n : n = Min({BlockSize, Len(copying.rest)})
  OBVIOUS
<1>4. IF n = 0 THEN copying' = NotCopying /\ writing' = writing
      ELSE /\ writing' = [copying EXCEPT !.rest = SubSeq(@, 1, n)]
           /\ copying' = [copying EXCEPT !.off = @ + n, !.rest = SubSeq(@, n + 1, Len(@))]
  BY DEF CopyBuffer
<1> HIDE DEF x
<1>5. copying \in [inode : Nodes(x), off : Nat, rest : Seq(Nat)] /\ copying.rest \in Seq(Nat)
  BY <1>3 DEF CopyingOK
<1>6. n \in 0 .. Len(copying.rest) /\ (n = 0 => Len(copying.rest) = 0)
  <2> DEFINE l == Len(copying.rest)
  <2>1. l \in Nat /\ BlockSize \in Nat /\ BlockSize > 0 /\ n = Min({BlockSize, l})
    BY <1>5, BobFSAssumption
  <2> HIDE DEF l
  <2>2. n = IF BlockSize <= l THEN BlockSize ELSE l
    BY <2>1, MinOfTwo
  <2>3. n \in 0 .. l /\ (n = 0 => l = 0)
    BY <2>1, <2>2
  <2> QED BY <2>3 DEF l
<1>7. /\ tree' = tree /\ HostDisk(image') /\ Superblock(image'.img) /\ frames' # <<>> /\ image'.img = x
      /\ frames' = frames
  BY <1>1, <1>2, <1>3 DEF x
<1>8. CASE n = 0
  <2>1. copying.rest = <<>>
    BY <1>5, <1>6, <1>8
  <2>2. FilesSoFar(x, g, NotCopying)
    <3> SUFFICES ASSUME NEW d \in Dirs(x), NEW m \in 1 .. Len(g.kids[d]), g.kids[d][m].entry.kind = "file"
                 PROVE  FileSoFar(g, NotCopying, g.kids[d][m])
      BY DEF FilesSoFar
    <3> DEFINE k == g.kids[d][m]
    <3>1. FileSoFar(g, copying, k) /\ KidOK(x, g, k)
      BY <1>1 DEF FilesSoFar, TreeSoFar
    <3> HIDE DEF k
    <3>2. k.inode \in Inodes /\ g \in Ghosts
      BY <1>1, <3>1 DEF KidOK, Nodes, TreeSoFar
    <3> DEFINE data == g.data[k.inode]
    <3>3. data \in Seq(Nat)
      BY <3>2, GhostIs
    <3> HIDE DEF data
    <3>4. data \o <<>> = data
      BY <3>3, EmptyFirst
    <3>5. data = k.entry.data
      BY <2>1, <3>1, <3>4 DEF FileSoFar, data
    <3>6. NotCopying.inode # k.inode
      BY <3>2 DEF NotCopying, NoNode, Inodes
    <3> QED BY <3>5, <3>6 DEF FileSoFar, k, data
  <2>3. BuilderAt(g, P)'
    <3>1. DataSoFar(image'.img, g, writing') /\ FilesSoFar(image'.img, g, copying')
      BY <1>1, <1>4, <1>7, <1>8, <2>2
    <3>2. TreeSoFar(image'.img, g, P) /\ FramesSoFar(image'.img, g, P, frames')
      BY <1>1, <1>7
    <3> QED BY <1>7, <3>1, <3>2, BuilderAfter
  <2> QED BY <2>3
<1>9. CASE n # 0
  <2> DEFINE i == copying.inode
             rest == copying.rest
             a == SubSeq(rest, 1, n)
             b == SubSeq(rest, n + 1, Len(rest))
  <2>1. /\ i \in Nodes(x) /\ i \in Inodes /\ rest \in Seq(Nat) /\ copying.off \in Nat
        /\ Field(x, i, Type) = FILE_TYPE /\ copying.off = Len(g.data[i])
    BY <1>3 DEF CopyingOK, Nodes
  <2>2. n \in 1 .. Len(rest)
    BY <1>6, <1>9, <2>1
  <2>3. a \in Seq(Nat) /\ b \in Seq(Nat)
    <3> HIDE DEF rest
    <3> QED BY <2>1, <2>2, CutIs
  <2>4. /\ writing' \in [inode : Nodes(x), off : Nat, rest : Seq(Nat)]
        /\ writing'.inode = i /\ writing'.off = Len(g.data[i]) /\ writing'.rest = a
    BY <1>4, <1>5, <1>9, <2>1, <2>3
  <2>5. /\ copying' \in [inode : Nodes(x), off : Nat, rest : Seq(Nat)]
        /\ copying'.inode = i /\ copying'.off = copying.off + n /\ copying'.rest = b
    <3>1. copying.off + n \in Nat
      BY <2>1, <2>2, SMTT(30)
    <3>2. copying' = [copying EXCEPT !.off = copying.off + n, !.rest = b]
      BY <1>4, <1>9
    <3> DEFINE o == copying.off + n
    <3> HIDE DEF o, b
    <3>3. copying' = [copying EXCEPT !.off = o, !.rest = b] /\ o \in Nat
      BY <3>1, <3>2 DEF o
    <3>4. copying' \in [inode : Nodes(x), off : Nat, rest : Seq(Nat)]
          /\ copying'.inode = i /\ copying'.off = o /\ copying'.rest = b
      BY <1>5, <2>3, <3>3
    <3> QED BY <3>4 DEF o
  <2>6. g \in Ghosts /\ \A d \in Dirs(x) : \A m \in 1 .. Len(g.kids[d]) : KidOK(x, g, g.kids[d][m])
    BY <1>1 DEF TreeSoFar
  <2>7. PICK h : Longer(g, h, i, a)
    <3> HIDE DEF i, a
    <3> QED BY <2>1, <2>3, <2>6, LongerIs
  <2>8. \A j \in Nodes(x) : Holds(x, j, g.data[j])
    BY <1>1, <1>2 DEF DataSoFar
  <2>9. DataSoFar(x, h, writing')
    <3> HIDE DEF i, a
    <3> QED BY <2>1, <2>3, <2>4, <2>6, <2>7, <2>8, LongerData
  <2>10. FilesSoFar(x, h, copying')
    BY <1>1, <1>3, <2>2, <2>5, <2>6, <2>7, LongerFiles
  <2>11. TreeSoFar(x, h, P) /\ FramesSoFar(x, h, P, frames)
    <3> HIDE DEF i, a
    <3> QED BY <1>1, <2>1, <2>7, LongerTree, LongerFrames
  <2>12. BuilderAt(h, P)'
    <3>1. DataSoFar(image'.img, h, writing') /\ FilesSoFar(image'.img, h, copying')
      BY <1>7, <2>9, <2>10
    <3>2. TreeSoFar(image'.img, h, P) /\ FramesSoFar(image'.img, h, P, frames')
      BY <1>7, <2>11
    <3> QED BY <1>7, <3>1, <3>2, BuilderAfter
  <2> QED BY <2>12
<1> QED BY <1>8, <1>9

-----------------------------------------------------------------------------
(* The builder's invariant is inductive *)

\* What has failed stays failed.
LEMMA BuildAfter ==
  ASSUME IsHost(image), Build
  PROVE  After(image, image')
<1>1. CASE WriteOn
  BY <1>1, HostWritePieceAfter DEF WriteOn
<1>2. CASE AddFile
  BY <1>2, NewNodeAfter DEF AddFile
<1>3. CASE AddDirectory
  BY <1>3, NewNodeAfter DEF AddDirectory
<1>4. CASE SkipEntry \/ EndOfDirectory \/ CopyBuffer
  <2>1. image' = image
    BY <1>4 DEF SkipEntry, EndOfDirectory, CopyBuffer
  <2> QED BY <2>1, AfterRefl
<1>5. CASE HostFails
  BY <1>5, ExitAfter DEF HostFails
<1> QED BY <1>1, <1>2, <1>3, <1>4, <1>5 DEF Build

\* The steps of the builder.
LEMMA BuildOK ==
  ASSUME BuilderOK, Build
  PROVE  BuilderOK'
<1>1. After(image, image')
  BY BuildAfter DEF BuilderOK
<1>2. IsHost(image)'
  BY <1>1 DEF After
<1>3. ASSUME ~Failed(image)' PROVE (\E g, P : BuilderAt(g, P))'
  <2>1. ~Failed(image') /\ ~Failed(image)
    BY <1>1, <1>3 DEF After
  <2>2. PICK g, P : BuilderAt(g, P)
    BY <2>1 DEF BuilderOK
  <2>3. CASE WriteOn
    BY <2>1, <2>2, <2>3, WriteOnOK
  <2>4. CASE AddFile
    BY <2>1, <2>2, <2>4, AddFileOK
  <2>5. CASE AddDirectory
    BY <2>1, <2>2, <2>5, AddDirectoryOK
  <2>6. CASE SkipEntry
    BY <2>2, <2>6, SkipEntryOK
  <2>7. CASE EndOfDirectory
    BY <2>2, <2>7, EndOfDirectoryOK
  <2>8. CASE CopyBuffer
    BY <2>2, <2>8, CopyBufferOK
  <2>9. CASE HostFails
    <3>1. Failed(image')
      BY <2>9, ExitAfter DEF HostFails, BuilderOK
    <3> QED BY <2>1, <3>1
  <2> QED BY <2>3, <2>4, <2>5, <2>6, <2>7, <2>8, <2>9 DEF Build
<1> QED BY <1>2, <1>3 DEF BuilderOK

\* The builder's invariant is inductive.
LEMMA BuilderStep == BuilderOK /\ [Next]_vars => BuilderOK'
<1> SUFFICES ASSUME BuilderOK, [Next]_vars PROVE BuilderOK'
  OBVIOUS
<1>1. CASE Build
  BY <1>1, BuildOK
<1>2. CASE UNCHANGED builderVars
  BY <1>2 DEF builderVars, BuilderOK, BuilderAt, TreeSoFar
<1>3. Build \/ UNCHANGED builderVars
  BY DEF Next, vars, Attach, Mount, WriteFile, ReadFile, WriteOneRound, WriteReturns, ReadOneRound,
         ReadReturns, SectorWritten, DriveError, SwitchOff, Down
<1> QED BY <1>1, <1>2, <1>3

\* No node has entries or data yet.
LEMMA NoGhosts ==
  ASSUME NEW t \in Listings
  PROVE  \E g, P : /\ g \in Ghosts /\ P \in [Inodes -> Nat]
                   /\ \A i \in Inodes : g.list[i] = t /\ g.kids[i] = <<>> /\ g.data[i] = <<>> /\ P[i] = 0
<1> DEFINE l == [i \in Inodes |-> t]
           e == [i \in Inodes |-> <<>>]
           g == [list |-> l, kids |-> e, data |-> e]
           P == [i \in Inodes |-> 0]
<1>1. l \in [Inodes -> Listings] /\ e \in [Inodes -> Seq(Kids)] /\ e \in [Inodes -> Seq(Nat)]
  OBVIOUS
<1>2. \A i \in Inodes : l[i] = t /\ e[i] = <<>> /\ P[i] = 0
  OBVIOUS
<1>3. P \in [Inodes -> Nat]
  OBVIOUS
<1> HIDE DEF l, e, P
<1>4. g \in Ghosts /\ g.list = l /\ g.kids = e /\ g.data = e
  BY <1>1 DEF Ghosts
<1> HIDE DEF g
<1>5. /\ g \in Ghosts /\ P \in [Inodes -> Nat]
      /\ \A i \in Inodes : g.list[i] = t /\ g.kids[i] = <<>> /\ g.data[i] = <<>> /\ P[i] = 0
  BY <1>2, <1>3, <1>4
<1> QED BY <1>5

\* The builder's invariant of the empty file system.
LEMMA BuilderInitOK == Init => BuilderOK
<1> SUFFICES ASSUME Init PROVE BuilderOK
  OBVIOUS
<1> DEFINE x == Mkfs.img
           r == RootInode
           f == [dir |-> r, rest |-> tree]
<1>1. /\ tree \in Trees /\ image = Mkfs /\ frames = <<f>>
      /\ copying = NotCopying /\ writing = NotCopying
  BY MkfsIs DEF Init, BuilderInit
<1>2. HostDisk(Mkfs) /\ Superblock(x) /\ Nodes(x) = {r} /\ Field(x, r, Type) = DIR_TYPE /\ Field(x, r, Size) = 0
  BY MkfsIs
<1>3. tree \in Listings /\ tree \in Seq(Entries)
  BY <1>1, ListingIs, ImageBuilderAssumption
<1>4. r \in Inodes
  BY BobFSAssumption DEF Inodes
<1>5. PICK g, P : /\ g \in Ghosts /\ P \in [Inodes -> Nat]
                  /\ \A i \in Inodes : g.list[i] = tree /\ g.kids[i] = <<>> /\ g.data[i] = <<>> /\ P[i] = 0
  BY <1>3, NoGhosts
<1>6. g.list[r] = tree /\ g.kids[r] = <<>> /\ g.data[r] = <<>> /\ P[r] = 0
  BY <1>4, <1>5
<1> HIDE DEF x, r
<1>7. Dirs(x) = {r}
  BY <1>2 DEF Dirs
<1>8. TreeSoFar(x, g, P)
  <2>1. GoodDir(g, r, 0)
    BY <1>6, EmptyDir
  <2>2. Len(g.kids[r]) = 0
    BY <1>6
  <2> QED BY <1>5, <1>6, <1>7, <2>1, <2>2 DEF TreeSoFar, r
<1>9. DataSoFar(x, g, writing)
  <2>1. writing.rest = <<>>
    BY <1>1 DEF NotCopying
  <2>2. Len(g.data[r]) = 0
    BY <1>6
  <2>3. Holds(x, r, g.data[r])
    BY <1>2, <2>2 DEF Holds, HasCells
  <2>4. writing.rest \in Seq(Nat)
    BY <2>1
  <2> QED BY <1>2, <2>1, <2>3, <2>4 DEF DataSoFar
<1>10. FilesSoFar(x, g, copying)
  <2>1. Len(g.kids[r]) = 0
    BY <1>6
  <2> QED BY <1>1, <1>7, <2>1 DEF FilesSoFar
<1>11. FramesSoFar(x, g, P, frames)
  <2>1. f \in Directories /\ f.dir = r /\ f.rest = tree
    BY <1>3, <1>4 DEF Directories, r
  <2> HIDE DEF f
  <2>2. /\ frames \in Seq(Directories) /\ Len(frames) = 1 /\ frames[1] = f
        /\ 1 .. Len(frames) = {1}
    BY <1>1, <2>1
  <2> DEFINE list == g.list[r]
  <2>3. FrameOK(x, g, P, f)
    <3>1. list = tree /\ Len(list) \in Nat /\ P[r] = 0
      BY <1>3, <1>6
    <3>2. P[r] + Len(tree) = Len(list) /\ \A j \in 1 .. Len(tree) : tree[j] = list[P[r] + j]
      BY <3>1
    <3> QED BY <1>3, <1>7, <2>1, <3>2 DEF FrameOK
  <2> QED BY <1>7, <2>1, <2>2, <2>3 DEF FramesSoFar
<1>12. frames # <<>>
  BY <1>1
<1>13. BuilderAt(g, P)
  BY <1>1, <1>2, <1>8, <1>9, <1>10, <1>11, <1>12 DEF BuilderAt, x
<1>14. IsHost(image)
  BY <1>1, <1>2 DEF HostDisk
<1> QED BY <1>13, <1>14 DEF BuilderOK

-----------------------------------------------------------------------------
(* The theorems *)

IInv == PhaseOK /\ BuilderOK /\ KernelOK

\* The invariant at the beginning.
LEMMA InitIInv == Init => IInv
<1> SUFFICES ASSUME Init PROVE IInv
  OBVIOUS
<1>1. KernelOK
  BY DEF Init, KernelOK
<1> QED BY <1>1, PhaseInit, BuilderInitOK DEF IInv

\* The invariant is inductive.
LEMMA StepIInv == IInv /\ [Next]_vars => IInv'
<1> SUFFICES ASSUME IInv, [Next]_vars PROVE IInv'
  OBVIOUS
<1>1. PhaseOK /\ BuilderOK /\ KernelOK
  BY DEF IInv
<1>2. BuilderDone
  BY <1>1, DoneOK
<1>3. PhaseOK' /\ BuilderOK'
  BY <1>1, PhaseStep, BuilderStep
<1>4. KernelOK'
  BY <1>1, <1>2, KernelStep
<1> QED BY <1>3, <1>4 DEF IInv

\* For every host directory, every size of the disk, every call and every place where the
\* power may go, IInv holds.
THEOREM SpecIInv == Spec => []IInv
<1>1. Init => IInv
  BY InitIInv
<1>2. IInv /\ [Next]_vars => IInv'
  BY StepIInv
<1> QED BY <1>1, <1>2, PTL DEF Spec

\* At every moment, also between the sector writes of a call and after the power has
\* gone there, a block that is referred to is marked in the bitmap, and is referred to
\* once: the order in which allocateBlock and getBlockNumber write sees to it.
THEOREM BlocksAreMarked == Spec => []BlocksMarked
<1>1. IInv => BlocksMarked
  BY KernelGivesBlocks DEF IInv
<1> QED BY <1>1, SpecIInv, PTL

\* As long as no file has been refused a block, nothing is written over the superblock.
THEOREM SuperblockIsKept == Spec => []SuperblockKept
<1>1. IInv => SuperblockKept
  BY KernelGivesSuperblock DEF IInv
<1> QED BY <1>1, SpecIInv, PTL

\* What the kernel finds under a path is what the builder read from the host, with the
\* contents it had there until somebody writes.
THEOREM PathsAreFound == Spec => []TreeFound
<1>1. IInv => TreeFound
  BY KernelGivesTree DEF IInv
<1> QED BY <1>1, SpecIInv, PTL

\* Every step of the builder and the kernel is a step of FileStore or is not seen: a write
\* becomes visible piece by piece and its size after its cells, reads answer what is there,
\* and the files that nobody writes stay as they are.
THEOREM ImplementsTheFileStore == Spec => ImplementsFileStore
<1>1. Init => Abstract!Init
  <2> SUFFICES ASSUME Init PROVE Abstract!Init
    OBVIOUS
  <2>1. image = Mkfs /\ phase = "build" /\ request = NoRequest /\ refused = {}
    BY DEF Init, BuilderInit
  <2>2. Fits
    BY <2>1, MkfsIs DEF Fits
  <2> QED BY <2>1, <2>2 DEF Abstract!Init
<1>2. IInv /\ IInv' /\ [Next]_vars => [Abstract!Next]_Abstract!vars
  BY AbstractStep DEF IInv
<1> QED BY <1>1, <1>2, SpecIInv, PTL DEF Spec, ImplementsFileStore, Abstract!Spec
=============================================================================
