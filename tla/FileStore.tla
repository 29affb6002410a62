------------------------------ MODULE FileStore ------------------------------
(***************************************************************************)
(* What the file system promises: a file is a size and cells, zero where   *)
(* nothing was written.  A write becomes visible piece by piece, the size  *)
(* after the cells it covers; it ends when all of it is there, unless the  *)
(* power goes.  Nothing is promised of a file that has been refused a      *)
(* block, but the other files stay as they are.                            *)
(***************************************************************************)
EXTENDS Naturals, Sequences

CONSTANTS Files, NoRequest

VARIABLES
  mounted,  \* FALSE while the image is being built
  store,    \* per file: [size, cells]
  request,  \* the write in progress: [file, off, data], or NoRequest
  got,      \* the answer of the last read: [file, off, data]
  lost      \* the files that have been refused a block

vars == <<mounted, store, request, got, lost>>

Import ==
  /\ ~mounted
  /\ request' = NoRequest
  /\ UNCHANGED got

\* Only f changes, of the files that are not lost.
Only(f) == \A g \in Files \ (lost' \cup {f}) : store'[g] = store[g]

Written(s, off, data, k) ==
  \A j \in 1 .. k : off + j - 1 \in DOMAIN s.cells /\ s.cells[off + j - 1] = data[j]

Begin ==
  /\ request = NoRequest
  /\ request' # NoRequest
  /\ \A g \in Files \ lost' : store'[g] = store[g]
  /\ UNCHANGED got

\* Some of the data of the request reaches the file.
Put ==
  /\ request # NoRequest
  /\ LET f == request.file
         d == request.data
     IN  /\ Only(f)
         /\ f \in Files \ lost' =>
              \E a \in 1 .. Len(d) : \E b \in a .. Len(d) :
                store'[f] = [store[f] EXCEPT !.cells =
                  [o \in DOMAIN @ |-> IF o + 1 - request.off \in a .. b
                                      THEN d[o + 1 - request.off] ELSE @[o]]]
  /\ UNCHANGED <<request, got>>

\* The size grows over what has reached the file.
Extend ==
  /\ request # NoRequest
  /\ LET f == request.file
     IN  /\ Only(f)
         /\ f \in Files \ lost' =>
              \E k \in 1 .. Len(request.data) :
                /\ Written(store[f], request.off, request.data, k)
                /\ request.off + k > store[f].size
                /\ store'[f] = [store[f] EXCEPT !.size = request.off + k]
  /\ UNCHANGED <<request, got>>

Finish ==
  /\ request # NoRequest
  /\ LET f == request.file
         n == Len(request.data)
     IN  f \in Files \ lost =>
           /\ Written(store[f], request.off, request.data, n)
           /\ store[f].size >= request.off + n
  /\ request' = NoRequest
  /\ UNCHANGED <<store, got, lost>>

\* A file is refused a block.
Refuse ==
  /\ \A g \in Files \ lost' : store'[g] = store[g]
  /\ UNCHANGED <<request, got>>

\* The power goes, or the kernel panics.
Abandon == request' = NoRequest /\ UNCHANGED <<store, got, lost>>

Read ==
  /\ got'.file \in Files \ lost' =>
       LET s == store[got'.file]
           n == Len(got'.data)
       IN  /\ n > 0 => got'.off + n <= s.size
           /\ n < got'.asked => got'.off + n >= s.size
           /\ Written(s, got'.off, got'.data, n)
  /\ \A g \in Files \ lost' : store'[g] = store[g]
  /\ UNCHANGED request

Init == ~mounted /\ request = NoRequest /\ lost = {}

Next ==
  \/ Import
  \/ /\ mounted /\ mounted' /\ lost \subseteq lost'
     /\ Begin \/ Put \/ Extend \/ Finish \/ Abandon \/ Read \/ Refuse

Spec == Init /\ [][Next]_vars
=============================================================================
