-------------------------------- MODULE BobFS --------------------------------
(***************************************************************************)
(* The file system of kernel/bobfs.cc, as operators on the cells of a      *)
(* disk.  A cell stands for one field, one character of a name or one unit *)
(* of data; a sector and a block are a number of cells.                    *)
(*                                                                         *)
(* An operation computes on a record D: "img" is the disk as the operation *)
(* sees it, "log" the sector writes it has done, in order, and "refused"   *)
(* the inodes for which there was no block: the disk is full, or the file  *)
(* too large.  FileSystem lets the writes of the log reach the disk one    *)
(* after the other.                                                        *)
(***************************************************************************)
EXTENDS Integers, SequencesExt, FiniteSetsExt

CONSTANTS
  SectorSize,  \* cells of a sector (Ide::SectorSize)
  BlockSize,   \* cells of a block (BobFS::BLOCK_SIZE)
  WordBits,    \* bits of a word of a bitmap
  RootInode    \* mkfs takes 42

NodeSize == 5  \* type, links, size, direct, indirect

\* Bits of a bitmap, which is one block: as many inodes and data blocks.
Bits == BlockSize * WordBits

ASSUME BobFSAssumption ==
  /\ BlockSize \in Nat /\ BlockSize >= 3   \* magic, root
  /\ SectorSize \in 1 .. BlockSize /\ BlockSize % SectorSize = 0
  /\ WordBits \in Nat /\ WordBits > 0
  /\ (NodeSize * Bits) % BlockSize = 0    \* dataBase / BLOCK_SIZE is exact
  /\ RootInode \in 0 .. Bits - 1

RootAt          == 2
DataBitmapBase  == BlockSize
InodeBitmapBase == 2 * BlockSize
InodeBase       == 3 * BlockSize
DataBase        == InodeBase + NodeSize * Bits
DiskSize        == DataBase + Bits * BlockSize

DIR_TYPE  == 1
FILE_TYPE == 2

Magic == <<4, 3>>
Zeros(n) == [i \in 1 .. n |-> 0]

-----------------------------------------------------------------------------
(* The device *)

\* What is left of an access of n cells at off is cut where a unit (sector or block)
\* ends.
PieceLength(off, n, unit) == Min({n, unit - (off % unit)})

ReadCells(img, off, n) == [i \in 1 .. n |-> img[off + i - 1]]

Overlay(img, off, cells) ==
  [a \in DOMAIN img |-> IF a \in off .. off + Len(cells) - 1
                        THEN cells[a - off + 1] ELSE img[a]]

\* Ide::write, of cells that do not cross the end of a sector.
DeviceWrite(D, off, cells) ==
  [D EXCEPT !.img = Overlay(@, off, cells),
            !.log = Append(@, [at |-> off, cells |-> cells])]

\* Ide::writeAll of one field, and of the zeros of block b, sector by sector.
WriteCell(D, at, x) == DeviceWrite(D, at, <<x>>)

ClearBlock(D, b) ==
  [D EXCEPT !.img = Overlay(@, b * BlockSize, Zeros(BlockSize)),
            !.log = @ \o [j \in 1 .. BlockSize \div SectorSize |->
                            [at |-> b * BlockSize + (j - 1) * SectorSize,
                             cells |-> Zeros(SectorSize)]]]

-----------------------------------------------------------------------------
(* Bitmap *)

\* 1 << n
Power[n \in 0 .. WordBits] == IF n = 0 THEN 1 ELSE 2 * Power[n - 1]

BitIsSet(img, base, k) == (img[base + k \div WordBits] \div Power[k % WordBits]) % 2 = 1

FirstClear(img, base) ==
  LET clear == {k \in 0 .. Bits - 1 : ~BitIsSet(img, base, k)}
  IN  IF clear = {} THEN -1 ELSE Min(clear)

\* Bitmap::find: the word with the bit goes back to the disk.
FindAndSet(D, base) ==
  LET k    == FirstClear(D.img, base)
      word == base + k \div WordBits
  IN  [D |-> IF k = -1 THEN D
             ELSE WriteCell(D, word, D.img[word] + Power[k % WordBits]),
       index |-> k]

\* allocateBlock answers 0 when every block is taken, and clears the block it takes.
Cleared(f) ==
  LET b == DataBase \div BlockSize + f.index
  IN  IF f.index = -1 THEN [D |-> f.D, block |-> 0]
      ELSE [D |-> ClearBlock(f.D, b), block |-> b]

AllocateBlock(D) == Cleared(FindAndSet(D, DataBitmapBase))

-----------------------------------------------------------------------------
(* Node *)

Type     == 0
Links    == 1
Size     == 2
Direct   == 3
Indirect == 4

FieldAt(i, f)        == InodeBase + i * NodeSize + f
Field(img, i, f)     == img[FieldAt(i, f)]
SetField(D, i, f, x) == WriteCell(D, FieldAt(i, f), x)

\* Mutant of AllocateAt: the number is stored before the block is marked.
AllocateAtPointerFirst(D, at) ==
  LET k == FirstClear(D.img, DataBitmapBase)
      b == IF k = -1 THEN 0 ELSE DataBase \div BlockSize + k
  IN  AllocateBlock(WriteCell(D, at, b))

Stored(a, at) == [a EXCEPT !.D = WriteCell(@, at, a.block)]

\* Allocate a block and store its number at cell "at", zero or not.
AllocateAt(D, at) == Stored(AllocateBlock(D), at)

\* Mutant of DirectBlock: the 0 that was read is the answer after the allocation too.
DirectBlockStale(D, i) ==
  LET x == Field(D.img, i, Direct)
  IN  [D |-> IF x # 0 THEN D ELSE AllocateAt(D, FieldAt(i, Direct)).D, block |-> x]

\* The direct block: allocated on first use, for a read as for a write.
DirectBlock(D, i) ==
  LET x == Field(D.img, i, Direct)
  IN  IF x # 0 THEN [D |-> D, block |-> x] ELSE AllocateAt(D, FieldAt(i, Direct))

\* The indirect block; when there is no block for it the field is not written.
StoredIfAny(a, at) == IF a.block = 0 THEN a ELSE Stored(a, at)

IndirectBlock(D, i) ==
  LET x == Field(D.img, i, Indirect)
  IN  IF x # 0 THEN [D |-> D, block |-> x]
      ELSE StoredIfAny(AllocateBlock(D), FieldAt(i, Indirect))

\* Entry k of the indirect block.
EntryOf(ind, k) ==
  LET at == ind.block * BlockSize + k
  IN  IF ind.block = 0 THEN ind
      ELSE IF ind.D.img[at] # 0 THEN [ind EXCEPT !.block = ind.D.img[at]]
      ELSE AllocateAt(ind.D, at)

ThroughIndirect(D, i, k) ==
  IF k >= BlockSize THEN [D |-> D, block |-> 0] ELSE EntryOf(IndirectBlock(D, i), k)

NoBlock(D, k) == FirstClear(D.img, DataBitmapBase) = -1 \/ k > BlockSize

Answered(b, i, k) ==
  IF b.block = 0 /\ NoBlock(b.D, k) THEN [b EXCEPT !.D.refused = @ \cup {i}] ELSE b

GetBlockNumber(D, i, k) ==
  Answered(IF k = 0 THEN DirectBlock(D, i) ELSE ThroughIndirect(D, i, k - 1), i, k)

PutInBlock(b, off, cells) ==
  DeviceWrite(b.D, b.block * BlockSize + (off % BlockSize), cells)

Grown(D, i, end) == IF end > Field(D.img, i, Size) THEN SetField(D, i, Size, end) ELSE D

\* Mutant of WritePiece: the size is written before the data.
WritePieceSizeFirst(D, i, off, cells) ==
  PutInBlock(GetBlockNumber(Grown(D, i, off + Len(cells)), i, off \div BlockSize), off, cells)

\* Node::write, of cells that do not cross the end of a sector.  Block number 0 is
\* not looked at.
WritePiece(D, i, off, cells) ==
  Grown(PutInBlock(GetBlockNumber(D, i, off \div BlockSize), off, cells), i, off + Len(cells))

\* Node::read, of n cells that do not cross the end of a sector.
TakenFrom(b, off, n) ==
  [D |-> b.D, got |-> ReadCells(b.D.img, b.block * BlockSize + (off % BlockSize), n)]

ReadPiece(D, i, off, n) == TakenFrom(GetBlockNumber(D, i, off \div BlockSize), off, n)

\* Block k of node i, 0 if it has none, and the cell at offset o: a cell for which
\* there is no block is zero.
BlockOf(img, i, k) ==
  IF k = 0 THEN Field(img, i, Direct)
  ELSE IF Field(img, i, Indirect) = 0 THEN 0
  ELSE img[Field(img, i, Indirect) * BlockSize + k - 1]

CellOf(img, i, o) ==
  LET b == BlockOf(img, i, o \div BlockSize)
  IN  IF b = 0 THEN 0 ELSE img[b * BlockSize + (o % BlockSize)]

-----------------------------------------------------------------------------
(* Directories and paths *)

NoNode == -1

\* The entry of directory i that begins at offset off is the inode, the length of the
\* name and the name.  A directory has all its blocks: to read it changes nothing.
EntryAt(img, i, off) ==
  LET len == CellOf(img, i, off + 1)
  IN  [inode |-> CellOf(img, i, off), next |-> off + 2 + len,
       name |-> [k \in 1 .. len |-> CellOf(img, i, off + 1 + k)]]

\* Node::findNode: the first entry of that name.  One round looks at one entry; at most
\* one entry begins at each offset, so Size rounds reach the end.
Compared(e, name) == [off |-> e.next, found |-> IF e.name = name THEN e.inode ELSE NoNode]

Round(img, i, name, s) ==
  IF s.off >= Field(img, i, Size) \/ s.found # NoNode THEN s
  ELSE Compared(EntryAt(img, i, s.off), name)

FindNode(img, i, name) ==
  LET after[k \in 0 .. Field(img, i, Size)] ==
        IF k = 0 THEN [off |-> 0, found |-> NoNode] ELSE Round(img, i, name, after[k - 1])
  IN  after[Field(img, i, Size)].found

\* BobFS::root, which mount keeps and find starts from.
Root(img) == img[RootAt]

\* BobFS::find, for a path that is a sequence of names.
NextNode(img, i, name) == IF i = NoNode THEN NoNode ELSE FindNode(img, i, name)

Find(img, path) ==
  LET node[k \in 0 .. Len(path)] ==
        IF k = 0 THEN Root(img) ELSE NextNode(img, node[k - 1], path[k])
  IN  node[Len(path)]
=============================================================================
