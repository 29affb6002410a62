----------------------------- MODULE FileSystem -----------------------------
(***************************************************************************)
(* An image from the builder in a drive, and the kernel that mounts it and *)
(* reads and writes files through FsFile and Node (kernel/fsfile.h,        *)
(* kernel/bobfs.cc), one call at a time.  The sector writes of a call      *)
(* reach the disk one by one; the machine may be switched off between any  *)
(* two of them, and started again.                                         *)
(***************************************************************************)
EXTENDS ImageBuilder

CONSTANTS
  Offsets,   \* where files are read and written
  Chunks,    \* what is written, and how much is read
  Spares,    \* cells of the drive after the end of the image
  MaxCalls,  \* bound: reads and writes
  MaxOffs    \* bound: times the machine is switched off

ASSUME FileSystemAssumption ==
  /\ MaxCalls \in Nat /\ MaxOffs \in Nat
  /\ Offsets \subseteq Nat /\ Spares \subseteq Nat
  /\ \A data \in Chunks : data \in Seq(Nat) /\ data # <<>>

VARIABLES
  phase,     \* "build", "off" or "up"
  disk,      \* the cells of the drive
  driveEnd,  \* their number: an access past it is a drive error
  pending,   \* the sector writes of the current call that are still to come
  request,   \* the write in progress: [file, off, data]
  done,      \* how much of it Node::writeAll has written
  reading,   \* the read in progress: [file, off, asked, data so far]
  got,       \* the answer of the last read
  refused,   \* the inodes for which there was no block, ever
  calls, offs

kernelVars == <<disk, pending, request, done, reading, got, refused, calls>>
vars == <<builderVars, phase, driveEnd, offs, kernelVars>>

NoRequest == [file |-> NoNode, off |-> 0, data |-> <<>>]
NoRead    == [file |-> NoNode, off |-> 0, asked |-> 0, data |-> <<>>]

Init ==
  /\ BuilderInit
  /\ phase = "build"
  /\ disk = EmptyFile.img /\ driveEnd = 0
  /\ pending = <<>> /\ request = NoRequest /\ done = 0 /\ refused = {}
  /\ reading = NoRead /\ got = NoRead
  /\ calls = 0 /\ offs = 0

\* The image becomes a drive, which may be longer than the image.
Attach ==
  /\ phase = "build" /\ Built
  /\ phase' = "off"
  /\ disk' = image.img
  /\ \E s \in Spares : driveEnd' = Min({image.eof + s, DiskSize})
  /\ UNCHANGED <<builderVars, pending, request, done, reading, got, refused, calls, offs>>

-----------------------------------------------------------------------------
Superblock(img) == ReadCells(img, 0, 2) = Magic /\ Root(img) = RootInode

\* BobFS::mount reads nothing but the root; it does not look at the magic.
Mount ==
  /\ phase = "off"
  /\ phase' = "up"
  /\ UNCHANGED <<builderVars, driveEnd, offs, kernelVars>>

\* Paths of the files, which is what open is documented for.  Once the superblock
\* is overwritten, find reads arbitrary cells as a directory: the model ends.
FilePaths ==
  {<<e.name>> : e \in {e \in ToSet(tree) : e.kind = "file"}} \cup
  UNION {{<<e.name, f.name>> : f \in {f \in ToSet(e.sub) : f.kind = "file"}} : e \in ToSet(tree)}

Before == [img |-> disk, log |-> <<>>, refused |-> refused]

Idle == /\ phase = "up" /\ pending = <<>> /\ request = NoRequest /\ reading = NoRead
        /\ calls < MaxCalls /\ Superblock(disk)

\* FsFile::writeAll of a file found by its path.
WriteFile(path, off, data) ==
  /\ Idle
  /\ \E i \in {Find(disk, path)} \ {NoNode} :
       request' = [file |-> i, off |-> off, data |-> data]
  /\ done' = 0 /\ calls' = calls + 1
  /\ UNCHANGED <<builderVars, phase, driveEnd, offs, disk, pending, reading, got, refused>>

\* One round of Node::writeAll: its sector writes are to come.
WriteOneRound ==
  /\ phase = "up" /\ pending = <<>>
  /\ request # NoRequest /\ done < Len(request.data)
  /\ LET off == request.off + done
         n   == PieceLength(off, Len(request.data) - done, SectorSize)
     IN  /\ \E W \in {WritePiece(Before, request.file, off, SubSeq(request.data, done + 1, done + n))} :
              pending' = W.log /\ refused' = W.refused
         /\ done' = done + n
  /\ UNCHANGED <<builderVars, phase, driveEnd, offs, disk, request, reading, got, calls>>

WriteReturns ==
  /\ phase = "up" /\ pending = <<>>
  /\ request # NoRequest /\ done = Len(request.data)
  /\ request' = NoRequest /\ done' = 0
  /\ UNCHANGED <<builderVars, phase, driveEnd, offs, disk, pending, reading, got, refused, calls>>

\* FsFile::readAll.
ReadFile(path, off, n) ==
  /\ Idle
  /\ \E i \in {Find(disk, path)} \ {NoNode} :
       reading' = [file |-> i, off |-> off, asked |-> n, data |-> <<>>]
  /\ calls' = calls + 1
  /\ UNCHANGED <<builderVars, phase, driveEnd, offs, disk, pending, request, done, got, refused>>

\* What is left to read: readAll stops at the size.
Left == Min({reading.asked - Len(reading.data),
             Field(disk, reading.file, Size) - (reading.off + Len(reading.data))})

\* One round of Node::readAll; a read may allocate a block, too.
ReadOneRound ==
  /\ phase = "up" /\ pending = <<>>
  /\ reading # NoRead /\ Left > 0
  /\ LET off == reading.off + Len(reading.data)
     IN  \E R \in {ReadPiece(Before, reading.file, off, PieceLength(off, Left, SectorSize))} :
           /\ reading' = [reading EXCEPT !.data = @ \o R.got]
           /\ pending' = R.D.log /\ refused' = R.D.refused
  /\ UNCHANGED <<builderVars, phase, driveEnd, offs, disk, request, done, got, calls>>

ReadReturns ==
  /\ phase = "up" /\ pending = <<>>
  /\ reading # NoRead /\ Left <= 0
  /\ got' = reading /\ reading' = NoRead
  /\ UNCHANGED <<builderVars, phase, driveEnd, offs, disk, pending, request, done, refused, calls>>

InDrive(w) == w.at + Len(w.cells) <= driveEnd

SectorWritten ==
  /\ phase = "up" /\ pending # <<>>
  /\ InDrive(Head(pending))
  /\ disk' = Overlay(disk, Head(pending).at, Head(pending).cells)
  /\ pending' = Tail(pending)
  /\ UNCHANGED <<builderVars, phase, driveEnd, offs, request, done, reading, got, refused, calls>>

\* What is pending is lost.
Down ==
  /\ phase' = "off"
  /\ pending' = <<>> /\ request' = NoRequest /\ done' = 0 /\ reading' = NoRead
  /\ UNCHANGED <<builderVars, driveEnd, disk, got, refused, calls>>

\* waitForDrive panics.
DriveError ==
  /\ phase = "up" /\ pending # <<>> /\ ~InDrive(Head(pending))
  /\ Down
  /\ UNCHANGED offs

\* The Makefile runs the machine under a timeout; shutdown does not wait either.
SwitchOff ==
  /\ phase = "up" /\ offs < MaxOffs
  /\ offs' = offs + 1
  /\ Down

Next ==
  \/ phase = "build" /\ Build /\ UNCHANGED <<phase, driveEnd, offs, kernelVars>>
  \/ Attach
  \/ Mount
  \/ \E path \in FilePaths, off \in Offsets, data \in Chunks :
       WriteFile(path, off, data) \/ ReadFile(path, off, Len(data))
  \/ WriteOneRound \/ WriteReturns \/ ReadOneRound \/ ReadReturns
  \/ SectorWritten \/ DriveError \/ SwitchOff

Spec == Init /\ [][Next]_vars

-----------------------------------------------------------------------------
(* Properties *)

Inodes    == 0 .. Bits - 1
FileCells == 0 .. BlockSize * (1 + BlockSize) - 1
Blocks    == DataBase \div BlockSize .. DataBase \div BlockSize + Bits - 1

\* Where the number of a block of inode i is kept: in the inode, or in the
\* indirect block if there is one.
PointersOf(img, i) ==
  {FieldAt(i, Direct), FieldAt(i, Indirect)} \cup
  (IF Field(img, i, Indirect) = 0 THEN {}
   ELSE {Field(img, i, Indirect) * BlockSize + k : k \in 0 .. BlockSize - 1})

Pointers(img) ==
  {a \in UNION {PointersOf(img, i) : i \in {i \in Inodes : BitIsSet(img, InodeBitmapBase, i)}} :
     img[a] # 0}

\* At every moment, also between two sector writes of one call and after the
\* power has gone there: a block that is referred to is a data block, is marked
\* in the bitmap, and is referred to once.  The bit goes to the disk first, then
\* the zeros, then the pointer.
BlocksMarked ==
  phase # "build" /\ Fits =>
    /\ \A a \in Pointers(disk) :
         /\ disk[a] \in Blocks
         /\ BitIsSet(disk, DataBitmapBase, disk[a] - DataBase \div BlockSize)
    /\ \A a, b \in Pointers(disk) : disk[a] = disk[b] => a = b

\* Nothing but a file that was refused a block writes over the superblock: write
\* takes the 0 of getBlockNumber for a block, on a full disk and past the
\* largest file.
SuperblockKept == phase # "build" /\ Fits /\ refused = {} => Superblock(disk)

HostEntries(path) ==
  LET top == {e \in ToSet(tree) : e.name = path[1]}
  IN  IF Len(path) = 1 THEN top
      ELSE UNION {{f \in ToSet(e.sub) : f.name = path[2]} : e \in top}

Names == {e.name : e \in ToSet(tree)} \cup UNION {{f.name : f \in ToSet(e.sub)} : e \in ToSet(tree)}
Paths == {<<n>> : n \in Names} \cup
         {<<e.name, n>> : e \in {e \in ToSet(tree) : e.kind = "dir"}, n \in Names}

\* What the kernel finds in the image is what the builder read from the host:
\* every path leads to an inode of its kind with one link, names that are not in a
\* directory lead nowhere, and, before anybody writes, the contents are the host's.
TreeFound ==
  phase # "build" /\ Fits /\ Superblock(disk) =>
    \A path \in Paths : \A i \in {Find(disk, path)} :
      LET host == {e \in HostEntries(path) : e.kind # "other"}
      IN  /\ host = {} <=> i = NoNode
          /\ \A e \in host :
               /\ Field(disk, i, Type) = (IF e.kind = "dir" THEN DIR_TYPE ELSE FILE_TYPE)
               /\ Field(disk, i, Links) = 1
               /\ BitIsSet(disk, InodeBitmapBase, i)
               /\ e.kind = "file" /\ calls = 0 =>
                    /\ Field(disk, i, Size) = Len(e.data)
                    /\ \A o \in 1 .. Len(e.data) : CellOf(disk, i, o - 1) = e.data[o]

\* The files as FileStore has them.
IsFile(i) == BitIsSet(disk, InodeBitmapBase, i) /\ Field(disk, i, Type) = FILE_TYPE

FileState ==
  [i \in Inodes |->
     IF phase # "build" /\ IsFile(i)
     THEN [size |-> Field(disk, i, Size), cells |-> [o \in FileCells |-> CellOf(disk, i, o)]]
     ELSE [size |-> 0, cells |-> [o \in FileCells |-> 0]]]

Abstract == INSTANCE FileStore WITH Files <- Inodes, mounted <- phase # "build",
                                    store <- FileState,
                                    lost <- IF Fits THEN refused ELSE Inodes

\* Every call, with every one of its sector writes and with the power going
\* anywhere, is what FileStore allows.
ImplementsFileStore == Abstract!Spec
=============================================================================
