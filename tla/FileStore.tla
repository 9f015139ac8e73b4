----------------------------- MODULE FileStore -----------------------------
(***************************************************************************)
(* What opening, reading and writing files promises.  A file is a sequence *)
(* of bytes; an open file is a place in one file.  A read returns the      *)
(* bytes from there to the end of the file, at most as many as were asked  *)
(* for; a write replaces the bytes it covers and no others.  A file begins *)
(* empty, is opened at its beginning or its end, and vanishes only when    *)
(* all files are discarded; then its identity may be used again.           *)
(***************************************************************************)
EXTENDS Integers, Sequences

CONSTANTS Files, Root, Handles, Bytes, Reads, Writes,
          MaxPos          \* how far what is not a file is read

VARIABLES exists,     \* the files there are
          contents,   \* contents[f]: the bytes of file f
          open,       \* open[h]: a file and a position, or Closed
          got         \* what the last read returned

vars == <<exists, contents, open, got>>

Closed   == [file |-> -1, pos |-> 0]
NotAFile == -2        \* a device, or a directory of another file system

Init ==
    /\ exists = {Root}
    /\ contents = [f \in Files |-> << >>]
    /\ open = [h \in Handles |-> Closed]
    /\ got = << >>

Opened(h, f) ==
    /\ open[h] = Closed
    /\ \E p \in {0, Len(contents'[f])} :
          open' = [open EXCEPT ![h] = [file |-> f, pos |-> p]]

Open(h) ==
    /\ got' = << >> /\ UNCHANGED <<exists, contents>>
    /\ \/ \E f \in exists : Opened(h, f)
       \/ open[h] = Closed /\ open' = [open EXCEPT ![h] = [file |-> NotAFile, pos |-> 0]]

Create(f) ==
    /\ f \notin exists
    /\ exists' = exists \cup {f} /\ contents' = [contents EXCEPT ![f] = << >>]
    /\ got' = << >>
    /\ UNCHANGED open \/ \E h \in Handles : Opened(h, f)

Close(h) ==
    /\ open[h] # Closed
    /\ open' = [open EXCEPT ![h] = Closed]
    /\ got' = << >> /\ UNCHANGED <<exists, contents>>

Read(h, n) ==
    LET f == open[h].file
        p == open[h].pos
        l == Len(contents[f])
    IN  /\ f \in Files
        /\ got' = SubSeq(contents[f], p + 1, IF p + n < l THEN p + n ELSE l)
        /\ open' = [open EXCEPT ![h].pos = @ + Len(got')]
        /\ UNCHANGED <<exists, contents>>

(* A write past the end leaves bytes of no particular value in between.    *)
Write(h, b) ==
    LET f     == open[h].file
        p     == open[h].pos
        old   == contents[f]
        new   == contents'[f]
        cover == p + 1 .. p + Len(b)
    IN  /\ f \in Files
        /\ Len(new) = IF p + Len(b) > Len(old) THEN p + Len(b) ELSE Len(old)
        /\ \A k \in cover : new[k] = b[k - p]
        /\ \A k \in DOMAIN old \ cover : new[k] = old[k]
        /\ \A g \in Files \ {f} : contents'[g] = contents[g]
        /\ open' = [open EXCEPT ![h].pos = @ + Len(b)]
        /\ got' = << >> /\ UNCHANGED exists

ReadOther(h) ==
    /\ open[h].file = NotAFile
    /\ \E p \in 0 .. MaxPos : open' = [open EXCEPT ![h].pos = p]
    /\ got' = << >> /\ UNCHANGED <<exists, contents>>

Discard ==
    /\ exists' = {Root} /\ contents' = [contents EXCEPT ![Root] = << >>]
    /\ got' = << >> /\ UNCHANGED open

Fail == got' = << >> /\ UNCHANGED <<exists, contents, open>>

Next ==
    \/ \E h \in Handles : Open(h) \/ Close(h) \/ ReadOther(h)
    \/ \E f \in Files : Create(f)
    \/ \E h \in Handles, n \in Reads : Read(h, n)
    \/ \E h \in Handles, b \in Writes : Write(h, b)
    \/ Discard
    \/ Fail

Spec == Init /\ [][Next]_vars
=============================================================================
