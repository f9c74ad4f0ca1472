----------------------------- MODULE PageStore -----------------------------
(***************************************************************************)
(* What a BufferManager promises to the indices above it, whatever it      *)
(* caches: a page reads as the last content written to it, and what a      *)
(* restart of the process leaves is, page by page, a content the page had  *)
(* when it was last made durable.                                          *)
(***************************************************************************)

CONSTANTS
    Key,        \* the pages, named by (file_id, page_no)
    Contents,   \* what the bytes of a page can be
    Blank       \* of Contents: what read_page answers for a page never written

VARIABLES
    contents,   \* what a get() of each page must return now
    durable     \* what it would return after a restart

vars == <<contents, durable>>

Init ==
    /\ contents = [k \in Key |-> Blank]
    /\ durable = [k \in Key |-> Blank]

\* A client overwrites the bytes of a page it got
Write(k, c) ==
    /\ contents' = [contents EXCEPT ![k] = c]
    /\ UNCHANGED durable

\* One page reaches the storage engine
Harden(k) ==
    /\ durable' = [durable EXCEPT ![k] = contents[k]]
    /\ UNCHANGED contents

\* The process dies and starts again
Restart ==
    /\ contents' = durable
    /\ UNCHANGED durable

Next ==
    \/ \E k \in Key, c \in Contents : Write(k, c)
    \/ \E k \in Key : Harden(k)
    \/ Restart

Spec == Init /\ [][Next]_vars
=============================================================================
