------------------------------ MODULE ByteFile ------------------------------
(***************************************************************************)
(* What the handlers of read, write and truncate promise: a file is a      *)
(* sequence of bytes.  req is the call that is being served, and ret what  *)
(* the latest one returned.                                                *)
(*                                                                         *)
(* The promise is weaker than the usual one in three places, where         *)
(* interface/write.c and read.c keep no more: a write that runs past the   *)
(* end from below may leave only the first part of the file; a read may    *)
(* return more than there is; and a file that grows on a full disk is      *)
(* Unknown from then on, like every file once the free list is corrupted.  *)
(***************************************************************************)
EXTENDS Integers, Sequences, SequencesExt

CONSTANTS
    Requests,   \* The calls: op, file, offset, length n and the bytes buf.
    NoRequest,  \* No call is being served.
    Files, BLOCK_SIZE,
    Unknown     \* The content of a file of which nothing is promised.

VARIABLES file, req, ret

vars == <<file, req, ret>>

\* What a call returns: a count or error, and the bytes of a read.
Answer(count, bytes) == [count |-> count, bytes |-> bytes]

Init ==
    /\ file = [f \in Files |-> << >>]
    /\ req = NoRequest
    /\ ret = Answer(0, << >>)

\* The bytes of a file once buf is written at an offset within it.
Overlay(bytes, offset, buf) ==
    SubSeq(bytes, 1, offset) \o buf \o SubSeq(bytes, offset + Len(buf) + 1, Len(bytes))

\* A write that ends within the file, or begins at its start or its end, or
\* is no longer than a file that ends where a block does.
LeavesWhole(length, offset, n) ==
    \/ offset \in {0, length}
    \/ offset + n <= length
    \/ length % BLOCK_SIZE = 0 /\ n <= length

Call ==
    /\ req = NoRequest
    /\ req' \in Requests
    /\ ret' = Answer(0, << >>)
    /\ UNCHANGED file

Serve(op) ==
    /\ req # NoRequest /\ req.op = op
    /\ file[req.file] # Unknown
    /\ req' = NoRequest

Becomes(bytes) == file' = [file EXCEPT ![req.file] = bytes]

\* A write beyond the end is refused.
Write ==
    LET old   == file[req.file]
        whole == Overlay(old, req.offset, req.buf)
    IN  /\ Serve("write")
        /\ IF req.offset > Len(old) THEN UNCHANGED file /\ ret' = Answer(-1, << >>)
           ELSE IF LeavesWhole(Len(old), req.offset, req.n)
           THEN Becomes(whole) /\ ret' = Answer(req.n, << >>)
           ELSE /\ \E k \in 1..Len(whole) : Becomes(SubSeq(whole, 1, k))
                /\ ret' \in {Answer(n, << >>) : n \in 1..req.n}

\* New bytes are 0.
Truncate ==
    LET old == file[req.file]
    IN  /\ Serve("truncate")
        /\ Becomes([i \in 1..req.n |-> IF i <= Len(old) THEN old[i] ELSE 0])
        /\ ret' = Answer(0, << >>)

\* The bytes asked for come first.  If whole blocks were asked for, no more
\* than that is returned.
Read ==
    LET old   == file[req.file]
        last  == IF req.offset + req.n < Len(old) THEN req.offset + req.n ELSE Len(old)
        asked == SubSeq(old, req.offset + 1, last)
    IN  /\ Serve("read")
        /\ ret'.count = Len(ret'.bytes)
        /\ IsPrefix(asked, ret'.bytes)
        /\ asked = << >> => ret'.count = 0
        /\ req.offset % BLOCK_SIZE = 0 /\ req.n % BLOCK_SIZE = 0 => ret'.count <= req.n
        /\ UNCHANGED file

\* The file has lost its last name.
Delete ==
    /\ Serve("delete")
    /\ Becomes(<< >>)
    /\ ret' = Answer(0, << >>)

\* A call that meets a full disk may leave its file Unknown, and it stays so.
MeetFullDisk ==
    /\ req # NoRequest
    /\ req.op # "read" \/ file[req.file] = Unknown
    /\ Becomes(Unknown)
    /\ req' \in {req, NoRequest}

\* A call that takes the last block of the list may leave every file Unknown.
LoseFreeList ==
    /\ req # NoRequest /\ req.op \in {"write", "truncate"}
    /\ file' = [f \in Files |-> Unknown]
    /\ req' \in {req, NoRequest}

Next == Call \/ Write \/ Truncate \/ Read \/ Delete \/ MeetFullDisk \/ LoseFreeList

Spec == Init /\ [][Next]_vars
=============================================================================
