----------------------------- MODULE TryWriting -----------------------------
(***************************************************************************)
(* The output buffer of the extension (ext/io_util.c): try_writing tries   *)
(* ever larger buffers until the encoded value and the null byte behind it *)
(* fit.  One step is one turn of its loop.  It is called time and again,   *)
(* for schemas, keys, rows and frames; module RowEncoding composes it with *)
(* the encoding of a row.                                                  *)
(***************************************************************************)
EXTENDS Integers

CONSTANTS Lengths \* the lengths of the encoded values

ASSUME LengthAssumption == Lengths \subseteq Nat

INIT_BUFFER_LENGTH == 16384
MAX_BUFFER_LENGTH == 1048576
VARHDRSZ == 4

VARIABLES
  length, \* the length of the value that the callback writes
  broken, \* TRUE if the callback fails for another reason than space
  size,
  err,    \* "none" (not called yet), "ENOSPC", "EINVAL" (any other error) or "ok"
  varsize \* the size set in the header of the output, 0 if none

buffer == <<length, broken, size, err, varsize>>

InitBuffer ==
  length = 0 /\ broken = FALSE /\ size = INIT_BUFFER_LENGTH /\ err = "none" /\ varsize = 0

\* Variant: the loop stops before the largest size
Running_short == err = "ENOSPC" /\ size < MAX_BUFFER_LENGTH

Running == err = "ENOSPC" /\ size <= MAX_BUFFER_LENGTH

\* A call, for a value of length l; b tells whether its encoding fails
try_writing(l, b) ==
  /\ ~ Running
  /\ length' = l /\ broken' = b
  /\ size' = INIT_BUFFER_LENGTH /\ err' = "ENOSPC" /\ varsize' = 0

\* avro_write fails unless the bytes fit behind those written
Fits(bytes) == bytes <= size - VARHDRSZ

\* Variant: no null byte is written
Turn_unterminated ==
  /\ Running
  /\ err' = IF broken THEN "EINVAL" ELSE IF Fits(length) THEN "ok" ELSE "ENOSPC"
  /\ varsize' = IF ~ broken /\ Fits(length) THEN length + VARHDRSZ ELSE varsize
  /\ size' = IF err' = "ENOSPC" THEN size * 4 ELSE size
  /\ UNCHANGED <<length, broken>>

\* The callback writes; if it succeeds the header is set and the null byte
\* written, which may be what does not fit
Turn ==
  /\ Running
  /\ err' = IF broken THEN "EINVAL" ELSE IF Fits(length + 1) THEN "ok" ELSE "ENOSPC"
  /\ varsize' = IF ~ broken /\ Fits(length) THEN length + VARHDRSZ ELSE varsize
  /\ size' = IF err' = "ENOSPC" THEN size * 4 ELSE size
  /\ UNCHANGED <<length, broken>>

NextBuffer == Turn \/ \E l \in Lengths, b \in BOOLEAN : try_writing(l, b)

BufferSpec == InitBuffer /\ [][NextBuffer]_buffer
-----------------------------------------------------------------------------
(* Properties *)

\* The types of the variables: the sizes tried, and the one the loop ends with.
BufferTypeOK ==
  /\ length \in Nat /\ broken \in BOOLEAN
  /\ size \in {16384, 65536, 262144, 1048576, 4194304}
  /\ err \in {"none", "ENOSPC", "EINVAL", "ok"} /\ varsize \in Nat

\* "We guarantee that the following byte is indeed 0": an output that is
\* returned holds the whole value and has room for the null byte behind it, so
\* that VARSIZE can be incremented (update_frame_with_table_schema does).
Terminated ==
  err = "ok" => varsize = length + VARHDRSZ /\ varsize + 1 <= size

\* A value is only refused for its size if it would not fit, with its null byte,
\* in the largest buffer.
RefusedTooLarge ==
  err = "ENOSPC" /\ ~ Running => length + 1 > MAX_BUFFER_LENGTH - VARHDRSZ
=============================================================================
