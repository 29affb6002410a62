------------------------------- MODULE MCDisk -------------------------------
\* Disk with one file.
EXTENDS Disk

MCInodeSector == [n \in Nodes |-> "inode"]
=============================================================================
