----------------------------- MODULE Datastream -----------------------------
(***************************************************************************)
(* The byte-stream cursor of the codec (spec.md 4.1).  Its implementation  *)
(* (datastream.hpp) is not part of this source tree, so this module is     *)
(* written from the specification; its unit test is                       *)
(* tests/unit/datastream_tests.cpp.                                        *)
(*                                                                         *)
(* The bounded cursor wraps a buffer [start, start + lim) inside a larger  *)
(* memory: addresses are offsets from start, the buffer is 0 .. lim - 1   *)
(* and Slack addresses on each side of the storage of capacity Cap are    *)
(* modelled too, so that an access outside the buffer is visible.  pos is *)
(* pos() - start, which is also tellp().  A failed read or write is the   *)
(* fatal "stream operation out of range" condition: status records it and *)
(* the operation in progress stops.                                       *)
(*                                                                         *)
(* The unbounded (size-counting) cursor is the counter cnt.               *)
(***************************************************************************)
EXTENDS Integers, Sequences

CONSTANTS
  Cap,       \* capacity of the storage the bounded cursor is opened over
  Slack,     \* addresses modelled on each side of the storage
  Bytes,     \* byte values
  Blank,     \* the initial content of memory
  Steps,     \* signed counts given to skip
  MaxWrite,  \* the longest write or read of the model
  MaxCount   \* bound on the counting cursor (a model bound)

ASSUME DatastreamAssumption ==
  /\ Cap \in Nat /\ Slack \in Nat /\ MaxCount \in Nat
  /\ MaxWrite \in Nat \ {0}
  /\ Blank \in Bytes
  /\ Steps \subseteq Int

VARIABLES
  mem,     \* memory around and inside the storage, by offset from start
  pos,     \* pos() - start
  lim,     \* the size the current bounded cursor was constructed with
  status,  \* "ok" or "out_of_range" once an operation has failed
  out,     \* the bytes returned by the last read
  cnt      \* tellp() of the counting cursor

cursorVars == <<mem, pos, lim, status, out>>
vars == <<mem, pos, lim, status, out, cnt>>

\* The modelled memory, and the positions the model lets a cursor reach.
Addr == -Slack .. Cap + Slack - 1
Positions == -Slack .. Cap + Slack

\* remaining() and valid() of the bounded cursor.
Remaining == lim - pos
Valid == pos <= lim

\* The bytes a write or read of the model may move.
Data == UNION {[1 .. n -> Bytes] : n \in 0 .. MaxWrite}

Init ==
  /\ mem = [a \in Addr |-> Blank]
  /\ pos = 0
  /\ lim = Cap
  /\ status = "ok"
  /\ out = <<>>
  /\ cnt = 0

\* The failure of a read, write, put or get: nothing is copied, nothing moves.
Fail == status' = "out_of_range" /\ UNCHANGED <<mem, pos, lim, out>>

-----------------------------------------------------------------------------
(***************************************************************************)
(* Operations of the bounded cursor.                                       *)
(***************************************************************************)

\* datastream(start, c) over the first c bytes of the storage.
Open(c) ==
  /\ status = "ok"
  /\ lim' = c /\ pos' = 0
  /\ UNCHANGED <<mem, status, out, cnt>>

\* skip(n): pos += n, with no bounds check.
Skip(n) ==
  /\ status = "ok"
  /\ pos + n \in Positions
  /\ pos' = pos + n
  /\ UNCHANGED <<mem, lim, status, out, cnt>>

\* seekp(p): pos = start + p, with no validation.
Seekp(p) ==
  /\ status = "ok"
  /\ pos' = p
  /\ UNCHANGED <<mem, lim, status, out, cnt>>

\* write(data, n): copies and advances when remaining() >= n, else fails.
Write(data) ==
  /\ status = "ok"
  /\ \/ /\ Remaining >= Len(data)
        /\ mem' = [a \in Addr |-> IF pos <= a /\ a < pos + Len(data)
                                    THEN data[a - pos + 1] ELSE mem[a]]
        /\ pos' = pos + Len(data)
        /\ UNCHANGED <<lim, status, out>>
     \/ /\ Remaining < Len(data)
        /\ Fail
  /\ UNCHANGED cnt

\* Mutation of Read used to test CodecRefines: the bounds check off by one
\* (remaining() + 1 >= n).
ReadOffByOne(n) ==
  /\ status = "ok"
  /\ \/ /\ Remaining + 1 >= n
        /\ out' = [k \in 1 .. n |-> mem[pos + k - 1]]
        /\ pos' = pos + n
        /\ UNCHANGED <<mem, lim, status>>
     \/ /\ Remaining + 1 < n
        /\ Fail
  /\ UNCHANGED cnt

\* read(ptr, n): returns n bytes and advances when remaining() >= n.
Read(n) ==
  /\ status = "ok"
  /\ \/ /\ Remaining >= n
        /\ out' = [k \in 1 .. n |-> mem[pos + k - 1]]
        /\ pos' = pos + n
        /\ UNCHANGED <<mem, lim, status>>
     \/ /\ Remaining < n
        /\ Fail
  /\ UNCHANGED cnt

\* put(b) and get(b): the one-byte write and read.
Put(b) == Write(<<b>>)
Get == Read(1)

-----------------------------------------------------------------------------
(***************************************************************************)
(* Operations of the counting cursor: write only advances tellp(), skip    *)
(* moves it, and a read always fails.                                     *)
(***************************************************************************)
CountWrite(n) ==
  /\ status = "ok"
  /\ cnt + n <= MaxCount
  /\ cnt' = cnt + n
  /\ UNCHANGED cursorVars

CountSkip(n) ==
  /\ status = "ok"
  /\ cnt + n \in 0 .. MaxCount
  /\ cnt' = cnt + n
  /\ UNCHANGED cursorVars

CountRead == status = "ok" /\ Fail /\ UNCHANGED cnt

\* After a fatal failure the operation has stopped.
Aborted == status = "out_of_range" /\ UNCHANGED vars

Next ==
  \/ \E c \in 0 .. Cap : Open(c)
  \/ \E n \in Steps : Skip(n) \/ CountSkip(n)
  \/ \E p \in 0 .. Cap + Slack : Seekp(p)
  \/ \E d \in Data : Write(d)
  \/ \E n \in 0 .. MaxWrite : Read(n) \/ CountWrite(n)
  \/ \E b \in Bytes : Put(b)
  \/ Get
  \/ CountRead
  \/ Aborted

Spec == Init /\ [][Next]_vars

-----------------------------------------------------------------------------
\* Type invariant.
TypeOK ==
  /\ mem \in [Addr -> Bytes]
  /\ pos \in Positions
  /\ lim \in 0 .. Cap
  /\ status \in {"ok", "out_of_range"}
  /\ out \in Data
  /\ cnt \in 0 .. MaxCount

(***************************************************************************)
(* The position invariant of spec.md section 3: no write or put changes a  *)
(* byte before the start of the storage.  skip(n) with n < 0 is unchecked *)
(* and moves pos below start, where remaining() = end - pos exceeds the   *)
(* capacity and write's check passes.                                     *)
(***************************************************************************)
NoWriteBeforeStart == \A a \in -Slack .. -1 : mem[a] = Blank

=============================================================================
