---------------------------- MODULE ImageBuilder ----------------------------
(***************************************************************************)
(* The host program mkfs/main.cc that copies a directory of the host into  *)
(* an image, with its own copy of the file system code (mkfs/bobfs.cc,     *)
(* mkfs/ide.cc).  It differs from the kernel's: the device is a host file  *)
(* that starts empty, an access is cut at blocks and not at sectors, and a *)
(* failure ends the program.                                               *)
(*                                                                         *)
(* Here D has "img", "eof" (the length of the host file), "exited", and    *)
(* "refused": the inodes whose file is too large, and NoNode when there    *)
(* was no inode.                                                           *)
(***************************************************************************)
EXTENDS BobFS

CONSTANTS
  Trees,   \* the host directories it is tried with, as sequences of entries
           \* [kind, name, data, sub] in the order of readdir
  Listings, \* what is in them: the contents of every host directory
  Garbage  \* what is in a variable nobody has initialized

\* On the host, names are unique in a directory, and only a directory has entries.
Listing(entries) ==
  /\ entries \in Seq([kind : {"file", "dir", "other"}, name : Seq(Nat), data : Seq(Nat), sub : Listings])
  /\ \A a, b \in DOMAIN entries : entries[a].name = entries[b].name => a = b
  /\ \A a \in DOMAIN entries : entries[a].kind # "dir" => entries[a].sub = <<>>

ASSUME ImageBuilderAssumption ==
  /\ Garbage \in Nat
  /\ Trees \subseteq Listings
  /\ \A entries \in Listings : Listing(entries)

VARIABLES
  tree,     \* the host directory
  image,    \* D
  frames,   \* the calls of "one" in progress: [dir, entries still to come]
  copying,  \* the file "one" copies: [inode, off, rest], or NotCopying
  writing   \* the Node::writeAll in progress: [inode, off, rest]

builderVars == <<tree, image, frames, copying, writing>>

NotCopying == [inode |-> NoNode, off |-> 0, rest |-> <<>>]

-----------------------------------------------------------------------------
(* Ide: the host file *)

\* Ide::read answers n whatever ::read did, so a cell past the end of the file
\* stays what the caller's variable was.
HostRead(D, at) == IF at < D.eof THEN D.img[at] ELSE Garbage

\* A write past the end leaves a hole of zeros.
HostWrite(D, off, cells) ==
  IF D.exited \/ cells = <<>> THEN D
  ELSE [D EXCEPT !.img = Overlay(@, off, cells),
                 !.eof = Max({@, off + Len(cells)})]

-----------------------------------------------------------------------------
(* Bitmap, Node and BobFS *)

HostBit(D, base, k) == (HostRead(D, base + k \div WordBits) \div Power[k % WordBits]) % 2

HostClear(D, base) == HostWrite(D, base, Zeros(BlockSize))

HostSet(D, base, k) ==
  IF HostBit(D, base, k) = 1 THEN D
  ELSE HostWrite(D, base + k \div WordBits,
                 <<HostRead(D, base + k \div WordBits) + Power[k % WordBits]>>)

HostFind(D, base) ==
  LET clear == {k \in 0 .. Bits - 1 : HostBit(D, base, k) = 0}
  IN  IF clear = {} THEN [D |-> D, index |-> -1]
      ELSE [D |-> HostSet(D, base, Min(clear)), index |-> Min(clear)]

\* allocateBlock exits when every block is taken.
HostCleared(f) ==
  LET b == DataBase \div BlockSize + f.index
  IN  IF f.index = -1 THEN [D |-> [f.D EXCEPT !.exited = TRUE], block |-> 0]
      ELSE [D |-> HostWrite(f.D, b * BlockSize, Zeros(BlockSize)), block |-> b]

HostAllocate(D) == HostCleared(HostFind(D, DataBitmapBase))

HostField(D, i, f)       == HostRead(D, FieldAt(i, f))
HostSetField(D, i, f, x) == HostWrite(D, FieldAt(i, f), <<x>>)

\* The block whose number is in cell "at", allocated on first use.
HostStored(a, at) == [a EXCEPT !.D = HostWrite(@, at, <<a.block>>)]

HostBlockAt(D, at) ==
  IF HostRead(D, at) # 0 THEN [D |-> D, block |-> HostRead(D, at)]
  ELSE HostStored(HostAllocate(D), at)

\* Entry k of the indirect block.
HostEntryOf(ind, k) == HostBlockAt(ind.D, ind.block * BlockSize + k)

HostBlockNumber(D, i, k) ==
  IF k = 0 THEN HostBlockAt(D, FieldAt(i, Direct))
  ELSE IF k - 1 >= BlockSize THEN [D |-> [D EXCEPT !.refused = @ \cup {i}], block |-> 0]
  ELSE HostEntryOf(HostBlockAt(D, FieldAt(i, Indirect)), k - 1)

\* Node::write of cells in one block.
HostPut(b, off, cells) == HostWrite(b.D, b.block * BlockSize + (off % BlockSize), cells)

HostGrown(D, i, end) == IF end > HostField(D, i, Size) THEN HostSetField(D, i, Size, end) ELSE D

HostWritePiece(D, i, off, cells) ==
  HostGrown(HostPut(HostBlockNumber(D, i, off \div BlockSize), off, cells),
            i, off + Len(cells))

\* The child's count of links goes up, then the entry is appended to directory i: the
\* inode, the length of the name and the name follow each other without a gap.
Linked(D, child) == HostSetField(D, child, Links, 1 + HostField(D, child, Links))

EntryCells(child, name) == <<child, Len(name)>> \o name

\* Mutant of LinkNode: the entry goes to where the child ends, not the directory.
LinkNodeAtChildSize(D, i, name, child) ==
  [D |-> Linked(D, child),
   writing |-> [inode |-> i, off |-> HostField(D, child, Size), rest |-> EntryCells(child, name)]]

LinkNode(D, i, name, child) ==
  [D |-> Linked(D, child),
   writing |-> [inode |-> i, off |-> HostField(D, i, Size), rest |-> EntryCells(child, name)]]

\* The fields of a new inode: type, links, size, direct, indirect.
FreshNode(D, i, type, links) == HostWrite(D, FieldAt(i, Type), <<type, links, 0, 0, 0>>)

\* newFile and newDirectory.  Without an inode left, find answers -1, which is
\* printed and used.
Counted(f) ==
  IF f.index = NoNode THEN [f.D EXCEPT !.refused = @ \cup {NoNode}] ELSE f.D

NewNodeAt(f, i, name, type) ==
  [inode |-> f.index,
   linked |-> LinkNode(FreshNode(Counted(f), f.index, type, 0), i, name, f.index)]

NewNode(D, i, name, type) == NewNodeAt(HostFind(D, InodeBitmapBase), i, name, type)

EmptyFile ==
  [img |-> [a \in 0 .. DiskSize - 1 |-> 0], eof |-> 0, exited |-> FALSE, refused |-> {}]

Mkfs ==
  LET super == HostWrite(HostWrite(HostWrite(EmptyFile, 0, Zeros(BlockSize)), 0, Magic),
                         RootAt, <<RootInode>>)
      maps  == HostClear(HostSet(HostClear(super, InodeBitmapBase), InodeBitmapBase,
                                 RootInode), DataBitmapBase)
  IN  FreshNode(maps, RootInode, DIR_TYPE, 1)

-----------------------------------------------------------------------------
(* main and one *)

BuilderInit ==
  /\ tree \in Trees
  /\ image = Mkfs
  /\ frames = <<[dir |-> HostRead(Mkfs, RootAt), rest |-> tree]>>
  /\ copying = NotCopying /\ writing = NotCopying

\* One round of Node::writeAll.
WriteOn ==
  /\ writing.rest # <<>> /\ ~image.exited
  /\ LET n == PieceLength(writing.off, Len(writing.rest), BlockSize)
     IN  /\ image' = HostWritePiece(image, writing.inode, writing.off,
                                    SubSeq(writing.rest, 1, n))
         /\ writing' = [writing EXCEPT !.off = @ + n,
                                       !.rest = SubSeq(@, n + 1, Len(@))]
  /\ UNCHANGED <<tree, frames, copying>>

\* The next entry of the directory that is being read.
InDirectory ==
  copying = NotCopying /\ writing.rest = <<>> /\ frames # <<>> /\ ~image.exited
Top     == Last(frames)
Advance == [frames EXCEPT ![Len(frames)].rest = Tail(@)]

AddFile ==
  /\ InDirectory /\ Top.rest # <<>>
  /\ LET e == Head(Top.rest)
     IN  /\ e.kind = "file"
         /\ \E n \in {NewNode(image, Top.dir, e.name, FILE_TYPE)} :
              /\ image' = n.linked.D /\ writing' = n.linked.writing
              /\ copying' = [inode |-> n.inode, off |-> 0, rest |-> e.data]
  /\ frames' = Advance
  /\ UNCHANGED tree

AddDirectory ==
  /\ InDirectory /\ Top.rest # <<>>
  /\ LET e == Head(Top.rest)
     IN  /\ e.kind = "dir"
         /\ \E n \in {NewNode(image, Top.dir, e.name, DIR_TYPE)} :
              /\ image' = n.linked.D /\ writing' = n.linked.writing
              /\ frames' = Append(Advance, [dir |-> n.inode, rest |-> e.sub])
  /\ UNCHANGED <<tree, copying>>

\* "." and "..", links and devices.
SkipEntry ==
  /\ InDirectory /\ Top.rest # <<>>
  /\ Head(Top.rest).kind = "other"
  /\ frames' = Advance
  /\ UNCHANGED <<tree, image, copying, writing>>

EndOfDirectory ==
  /\ InDirectory /\ Top.rest = <<>>
  /\ frames' = Front(frames)
  /\ UNCHANGED <<tree, image, copying, writing>>

\* One buffer of the file, a block long.
CopyBuffer ==
  /\ copying # NotCopying /\ writing.rest = <<>> /\ ~image.exited
  /\ LET n == Min({BlockSize, Len(copying.rest)})
     IN  IF n = 0 THEN copying' = NotCopying /\ UNCHANGED writing
         ELSE /\ writing' = [copying EXCEPT !.rest = SubSeq(@, 1, n)]
              /\ copying' = [copying EXCEPT !.off = @ + n,
                                            !.rest = SubSeq(@, n + 1, Len(@))]
  /\ UNCHANGED <<tree, image, frames>>

\* A directory or file of the host cannot be read: the program exits.
HostFails ==
  /\ frames # <<>> /\ ~image.exited
  /\ image' = [image EXCEPT !.exited = TRUE]
  /\ UNCHANGED <<tree, frames, copying, writing>>

Build ==
  WriteOn \/ AddFile \/ AddDirectory \/ SkipEntry \/ EndOfDirectory \/ CopyBuffer \/ HostFails

Built == frames = <<>> /\ ~image.exited

\* There was an inode for every entry, and room in every file and directory.
Fits == image.refused = {}
=============================================================================
