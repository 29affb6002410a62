---------------------------- MODULE MCFileSystem ----------------------------
\* FileSystem with three small host directories.
EXTENDS FileSystem

File(name, data) == [kind |-> "file", name |-> <<name>>, data |-> data, sub |-> <<>>]
Dir(name, sub)   == [kind |-> "dir", name |-> <<name>>, data |-> <<>>, sub |-> sub]
Link(name)       == [kind |-> "other", name |-> <<name>>, data |-> <<>>, sub |-> <<>>]

\* A file and a directory with a file of the same name; a file that needs the
\* indirect block; a file that is too large.
MCTrees == {<<File(1, <<1, 2>>), Link(3), Dir(2, <<File(1, <<3>>)>>)>>,
            <<File(1, <<1, 2, 1, 2, 1>>), File(2, <<>>)>>,
            <<File(1, [k \in 1 .. 21 |-> 9])>>}

MCListings == MCTrees \cup {<<>>, <<File(1, <<3>>)>>}

MCChunks == {<<5>>, <<6, 7, 6>>}
=============================================================================
