-------------------------------- MODULE Disk --------------------------------
(***************************************************************************)
(* Threads of one processor in the disk driver (kernel/ide.cc).  read and  *)
(* write of a file hold the NodeLock of its node all the way, with         *)
(* interrupts off (kernel/bobfs.cc); len holds no lock.  The driver gives  *)
(* the processor away while the drive is not ready: an action is what a    *)
(* thread does from one such point to the next.                            *)
(*                                                                         *)
(* The drive, which is not in the repository, ignores a command while it   *)
(* is busy or has data to transfer (BSY, DRQ); it never fails here.        *)
(***************************************************************************)
EXTENDS Naturals

CONSTANTS
  Threads,
  Nodes,        \* the open files, each with its NodeLock
  InodeSector,  \* per node: the sector its inode is in
  DataSectors,  \* sectors of contents
  Values,       \* what a sector may hold
  FileLength,   \* what an inode's sector holds: the size, which does not change
  Nobody,
  MaxCalls      \* bound: calls that are made

Sectors == DataSectors \cup {InodeSector[n] : n \in Nodes}

VARIABLES
  disk,    \* per sector
  drive,   \* [status, cmd, sector, data]; status is "ready", "BSY" or "DRQ"
  holder,  \* per node: who holds its NodeLock
  pc,      \* per thread
  call,    \* per thread: [op, node, sector, data, partial]
  buffer,  \* per thread: the sector it has read
  calls

vars == <<disk, drive, holder, pc, call, buffer, calls>>

NoCall == [op |-> "none", node |-> Nobody, sector |-> Nobody, data |-> Nobody,
           partial |-> FALSE]
Ready  == [status |-> "ready", cmd |-> "none", sector |-> Nobody, data |-> Nobody]

Init ==
  /\ disk \in [Sectors -> Values \cup {FileLength}]
  /\ \A s \in Sectors : disk[s] = FileLength <=> s \notin DataSectors
  /\ drive = Ready
  /\ holder = [n \in Nodes |-> Nobody]
  /\ pc = [t \in Threads |-> "user"]
  /\ call = [t \in Threads |-> NoCall]
  /\ buffer = [t \in Threads |-> Nobody]
  /\ calls = 0

Goto(t, from, to) == pc[t] = from /\ pc' = [pc EXCEPT ![t] = to]

-----------------------------------------------------------------------------
(* The drive *)

DriveWorks ==
  /\ drive.status = "BSY"
  /\ \/ /\ drive.cmd = "read"
        /\ drive' = [drive EXCEPT !.status = "DRQ", !.data = disk[drive.sector]]
        /\ UNCHANGED disk
     \/ /\ drive.cmd = "write"
        /\ drive' = [drive EXCEPT !.status = "DRQ"]
        /\ UNCHANGED disk
     \/ /\ drive.cmd = "store"
        /\ disk' = [disk EXCEPT ![drive.sector] = drive.data]
        /\ drive' = Ready
  /\ UNCHANGED <<holder, pc, call, buffer, calls>>

\* The registers and the command.
Command(cmd, s) ==
  IF drive.status # "ready" THEN UNCHANGED drive
  ELSE drive' = [status |-> "BSY", cmd |-> cmd, sector |-> s, data |-> Nobody]

-----------------------------------------------------------------------------
(* Calls *)

\* Node::readAll and writeAll; a write of a part of a sector reads it first.
Enter(t, c) ==
  /\ calls < MaxCalls
  /\ calls' = calls + 1
  /\ call' = [call EXCEPT ![t] = c]
  /\ Goto(t, "user", IF c.op = "len" THEN "read" ELSE "lock")
  /\ UNCHANGED <<disk, drive, holder, buffer>>

ReadAll(t, n, s) ==
  Enter(t, [NoCall EXCEPT !.op = "read", !.node = n, !.sector = s])
WriteAll(t, n, s, d, partial) ==
  Enter(t, [op |-> "write", node |-> n, sector |-> s, data |-> d, partial |-> partial])

\* Node::getSize, which takes no lock.
Len(t, n) ==
  Enter(t, [NoCall EXCEPT !.op = "len", !.node = n, !.sector = InodeSector[n]])

\* InterruptSafeLock::lock: who does not get it lets others run and tries again.
Lock(t) ==
  LET n == call[t].node
  IN  /\ Goto(t, "lock", IF call[t].op = "write" /\ ~call[t].partial THEN "write" ELSE "read")
      /\ holder[n] = Nobody
      /\ holder' = [holder EXCEPT ![n] = t]
      /\ UNCHANGED <<disk, drive, call, buffer, calls>>

\* readSector: waitForDrive and the command.
ReadCommand(t) ==
  /\ Goto(t, "read", "read_data")
  /\ drive.status # "BSY"
  /\ Command("read", call[t].sector)
  /\ UNCHANGED <<disk, holder, call, buffer, calls>>

\* The drive has data, and the thread takes it for its own.  Of a drive that
\* waits for the data of a write it gets anything.
ReadData(t) ==
  /\ drive.status = "DRQ"
  /\ IF drive.cmd = "read"
     THEN buffer' = [buffer EXCEPT ![t] = drive.data] /\ drive' = Ready
     ELSE (\E v \in Values : buffer' = [buffer EXCEPT ![t] = v]) /\ UNCHANGED drive
  /\ Goto(t, "read_data", IF call[t].op = "write" THEN "write" ELSE "return")
  /\ UNCHANGED <<disk, holder, call, calls>>

\* writeSector.
WriteCommand(t) ==
  /\ drive.status # "BSY"
  /\ Command("write", call[t].sector)
  /\ Goto(t, "write", "write_data")
  /\ UNCHANGED <<disk, holder, call, buffer, calls>>

\* Data for a drive that has some itself are lost.
WriteData(t) ==
  /\ drive.status = "DRQ"
  /\ drive' = IF drive.cmd = "write"
              THEN [drive EXCEPT !.status = "BSY", !.cmd = "store", !.data = call[t].data]
              ELSE drive
  /\ Goto(t, "write_data", "write_end")
  /\ UNCHANGED <<disk, holder, call, buffer, calls>>

WriteEnd(t) ==
  /\ drive.status # "BSY"
  /\ Goto(t, "write_end", "return")
  /\ UNCHANGED <<disk, drive, holder, call, buffer, calls>>

Return(t) ==
  /\ Goto(t, "return", "user")
  /\ holder' = [n \in Nodes |-> IF holder[n] = t THEN Nobody ELSE holder[n]]
  /\ call' = [call EXCEPT ![t] = NoCall]
  /\ buffer' = [buffer EXCEPT ![t] = Nobody]
  /\ UNCHANGED <<disk, drive, calls>>

Next ==
  \/ DriveWorks
  \/ \E t \in Threads :
       \/ \E n \in Nodes : Len(t, n)
       \/ \E n \in Nodes, s \in DataSectors : ReadAll(t, n, s)
       \/ \E n \in Nodes, s \in DataSectors, d \in Values, partial \in BOOLEAN :
            WriteAll(t, n, s, d, partial)
       \/ Lock(t) \/ ReadCommand(t) \/ ReadData(t)
       \/ WriteCommand(t) \/ WriteData(t) \/ WriteEnd(t) \/ Return(t)

Spec == Init /\ [][Next]_vars

-----------------------------------------------------------------------------
(* Properties *)

\* len "returns number of bytes in file" (kernel/sys.cc, user/sys.h), also while
\* another process is in the driver.
LenIsFileLength ==
  \A t \in Threads : pc[t] = "return" /\ call[t].op = "len" => buffer[t] = FileLength
=============================================================================
