----------------------------- MODULE ByteChannel -----------------------------
(***************************************************************************)
(* What a pipe promises: a bounded first-in first-out channel.  Bytes come *)
(* out once and in the order they went in; end of file is seen only after  *)
(* the last writer has gone and the last byte has been read.               *)
(***************************************************************************)
EXTENDS Integers, Sequences

CONSTANTS Byte, Size

VARIABLES contents,        \* the bytes in the channel
          last,            \* the byte that was read last
          eof,             \* some read has seen the end of the file
          wopen, ropen     \* the ends are open

bvars == <<contents, last, eof, wopen, ropen>>

BInit ==
  /\ contents = << >>
  /\ last \in Byte
  /\ eof = FALSE
  /\ wopen = TRUE /\ ropen = TRUE

Put ==
  /\ wopen /\ Len(contents) < Size
  /\ \E b \in Byte : contents' = Append(contents, b)
  /\ UNCHANGED <<last, eof, wopen, ropen>>

Get ==
  /\ ropen /\ contents # << >>
  /\ last' = Head(contents)
  /\ contents' = Tail(contents)
  /\ UNCHANGED <<eof, wopen, ropen>>

SeeEnd ==
  /\ ropen /\ ~wopen /\ contents = << >>
  /\ eof' = TRUE
  /\ UNCHANGED <<contents, last, wopen, ropen>>

CloseWriteEnd ==
  /\ wopen /\ wopen' = FALSE
  /\ UNCHANGED <<contents, last, eof, ropen>>

CloseReadEnd ==
  /\ ropen /\ ropen' = FALSE
  /\ UNCHANGED <<contents, last, eof, wopen>>

BNext == Put \/ Get \/ SeeEnd \/ CloseWriteEnd \/ CloseReadEnd

BSpec == BInit /\ [][BNext]_bvars
=============================================================================
