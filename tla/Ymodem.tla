------------------------------- MODULE Ymodem -------------------------------
(***************************************************************************)
(* The YMODEM receiver of `loady': xyzModem.c as load_serial_ymodem calls  *)
(* it (cmd_load.c), against a sender over a line that loses and damages    *)
(* what it carries.                                                        *)
(*                                                                         *)
(* A step of the receiver is one xyzModem_get_hdr with what its caller     *)
(* does about the result, up to the next call.  Packets carry the number   *)
(* of their block; the bytes in them, the cut of the last one to the       *)
(* length of the file and the padding are left out.                        *)
(***************************************************************************)
EXTENDS Integers, Sequences

CONSTANTS
  Last,          \* data blocks of the file
  Numbers,       \* block numbers, 256 in the code
  PerRead,       \* packets in the 1024 bytes of one xyzModem_stream_read
  Retries,       \* xyzModem_MAX_RETRIES
  CrcRetries,    \* xyzModem_MAX_RETRIES_WITH_CRC
  MaxTimeouts,   \* of the sender
  MaxNoise,      \* messages lost or damaged
  MaxQueue,      \* messages on the line to the receiver
  MaxReplies     \* and to the sender

ASSUME YmodemAssumption ==
  /\ Last \in Nat \ {0} /\ Numbers \in Nat \ {0, 1, 2} /\ PerRead \in Nat \ {0}
  /\ Retries \in Nat \ {0} /\ CrcRetries \in Nat \ {0}

\* What is on the line.
Header == 0            \* the block that names the file
Eot == Last + 1        \* what the sender sends after the data,
Final == Last + 2      \* and the empty header after it
Pkt(n, crc) == [m |-> "pkt", n |-> n, crc |-> crc]
EotChar == [m |-> "eot"]
Cancel  == [m |-> "can"]
Damaged == [m |-> "damaged"]
Ack == "ack"
Ask(crc) == IF crc THEN "C" ELSE "nak"
Blk(n) == IF n = Final THEN 0 ELSE n % Numbers

VARIABLES
  toR, toS,      \* the line to the receiver and to the sender
  pc,            \* open, read, final; done, short, failed, wild
  crc,           \* crc_mode
  next,          \* next_blk
  retries, crcRetries,
  total,         \* packets in the buffer of this stream_read
  got,           \* what load_serial_ymodem has stored, and what is in its buffer
  sent,          \* what the sender is sending
  mode,          \* the mode the sender was asked for first
  timeouts, noise,
  skipped,       \* history: how often the sender took an old ACK for a new one
  ranOut         \* history: the retries were used up by repeated blocks

line == <<toR, toS>>
receiver == <<pc, crc, next, retries, crcRetries, total, got>>
sender == <<sent, mode, timeouts>>
vars == <<line, receiver, sender, noise, skipped, ranOut>>

Init ==
  /\ toR = <<>> /\ toS = <<Ask(TRUE)>>
  /\ pc = "open" /\ crc = TRUE /\ next = 0
  /\ retries = Retries /\ crcRetries = CrcRetries /\ total = 0 /\ got = <<>>
  /\ sent = -1 /\ mode = "none" /\ timeouts = 0 /\ noise = 0
  /\ skipped = 0 /\ ranOut = FALSE

-----------------------------------------------------------------------------
(* The receiver.                                                           *)

\* What xyzModem_get_hdr can return, and what it leaves on the line.  A late
\* message may be thrown away by the flush after a timeout.
GetHdr(stat, rest) ==
  \/ stat = "timeout" /\ rest = <<>>
  \/ /\ toR # <<>>
     /\ LET m == Head(toR) IN
        \/ m.m = "pkt" /\ m.crc = crc /\ stat = "ok" /\ rest = Tail(toR)
        \/ m.m = "pkt" /\ m.crc # crc /\ stat = "cksum" /\ rest = Tail(toR)
        \/ m.m = "damaged" /\ \/ stat = "cksum" /\ rest = Tail(toR)
                              \/ stat = "frame" /\ rest = <<>>
        \/ m.m = "eot" /\ stat = "eof" /\ rest = Tail(toR)
        \/ m.m = "can" /\ stat = "cancel" /\ rest = Tail(toR)

Num == Blk(Head(toR).n)      \* xyz.blk
Stats == {"ok", "timeout", "cksum", "frame", "eof", "cancel"}
Rests == {<<>>} \cup (IF toR = <<>> THEN {} ELSE {Tail(toR)})
\* putc does not wait for the sender: what it cannot take is lost.
Reply(msgs) ==
  LET all == toS \o msgs
  IN toS' = IF Len(all) > MaxReplies THEN SubSeq(all, 1, MaxReplies) ELSE all
Hist == UNCHANGED <<sender, noise, skipped, ranOut>>

\* xyzModem_stream_open.  get_hdr itself acknowledges an EOT.
OpenOk ==
  /\ pc = "open" /\ GetHdr("ok", Tail(toR))
  /\ toR' = Tail(toR)
  /\ Reply(IF Num = 0 THEN <<Ack>> ELSE <<>>)
  /\ pc' = "read" /\ next' = 1 /\ retries' = Retries
  /\ UNCHANGED <<crc, crcRetries, total, got>> /\ Hist

\* Mutant: a try that ends without a header is not counted.
OpenAgainM ==
  /\ pc = "open"
  /\ \E stat \in Stats \ {"ok"}, rest \in Rests :
       /\ GetHdr(stat, rest) /\ toR' = rest
       /\ Reply(IF stat = "eof" THEN <<Ack>> ELSE IF stat = "timeout" /\ toS = <<>> THEN <<Ask(crc)>> ELSE <<>>)
  /\ UNCHANGED receiver /\ Hist
OpenAgain ==
  /\ pc = "open"
  /\ \E stat \in Stats \ {"ok"}, rest \in Rests :
       /\ GetHdr(stat, rest) /\ toR' = rest
       /\ crcRetries' = IF stat = "timeout" THEN crcRetries - 1 ELSE crcRetries
       /\ crc' = (crc /\ crcRetries' > 0)
       /\ Reply(IF stat = "eof" THEN <<Ack>>
                ELSE IF stat = "timeout" THEN <<Ask(crc')>> ELSE <<>>)
       /\ retries' = retries - 1
       /\ pc' = IF stat = "cancel" \/ retries' = 0 THEN "failed" ELSE "open"
  /\ UNCHANGED <<next, total, got>> /\ Hist

\* The packet goes to the caller's buffer; a full buffer is stored.
Copied(n) == got' = Append(got, n) /\ total' = (total + 1) % PerRead
             /\ retries' = Retries

\* Mutant: the block number is not compared.
ReadNextM ==
  /\ pc = "read" /\ GetHdr("ok", Tail(toR))
  /\ toR' = Tail(toR) /\ Reply(<<Ack>>) /\ next' = (next + 1) % Numbers
  /\ Copied(Head(toR).n)
  /\ UNCHANGED <<pc, crc, crcRetries>> /\ Hist
\* Mutant: the number of the next block does not wrap.
ReadNextWrapM ==
  /\ pc = "read" /\ GetHdr("ok", Tail(toR)) /\ Num = next
  /\ toR' = Tail(toR) /\ Reply(<<Ack>>) /\ next' = next + 1
  /\ Copied(Head(toR).n)
  /\ UNCHANGED <<pc, crc, crcRetries>> /\ Hist
\* xyzModem_stream_read: the expected block, acknowledged by the next get_hdr.
ReadNext ==
  /\ pc = "read" /\ GetHdr("ok", Tail(toR)) /\ Num = next
  /\ toR' = Tail(toR) /\ Reply(<<Ack>>) /\ next' = (next + 1) % Numbers
  /\ Copied(Head(toR).n)
  /\ UNCHANGED <<pc, crc, crcRetries>> /\ Hist

\* The block before it is acknowledged again.  As the last retry, it leaves the
\* loop with stat = 0 and the block is copied once more.
ReadAgain ==
  /\ pc = "read" /\ GetHdr("ok", Tail(toR))
  /\ Num # next /\ Num = (next + Numbers - 1) % Numbers
  /\ toR' = Tail(toR) /\ Reply(<<Ack>>)
  /\ IF retries > 1
     THEN retries' = retries - 1 /\ UNCHANGED <<total, got, ranOut>>
     ELSE Copied(Head(toR).n) /\ ranOut' = TRUE
  /\ UNCHANGED <<pc, crc, next, crcRetries, sender, noise, skipped>>

\* Mutant: an error ends the transfer as the end of the file does.
FailM == pc' = "done" /\ UNCHANGED <<retries, next>>
\* An error return.  load_serial_ymodem stops at a read of nothing, and calls
\* again after a read of less than it wanted: xyz.len is then -1.
Fail == pc' = (IF total = 0 THEN "short" ELSE "wild") /\ UNCHANGED <<retries, next>>

ReadBad ==
  /\ pc = "read"
  /\ \E stat \in Stats \ {"eof"}, rest \in Rests :
       /\ GetHdr(stat, rest) /\ toR' = rest
       /\ stat = "ok" => Num \notin {next, (next + Numbers - 1) % Numbers}
       /\ IF stat = "cancel" THEN Fail /\ Reply(<<>>)
          ELSE /\ Reply(<<Ask(crc)>>)
               /\ IF retries > 1 THEN retries' = retries - 1 /\ UNCHANGED <<pc, next>>
                  ELSE Fail
  /\ UNCHANGED <<crc, crcRetries, total, got>> /\ Hist

\* The EOT is acknowledged twice, and the final header asked for.
ReadEof ==
  /\ pc = "read" /\ GetHdr("eof", Tail(toR))
  /\ toR' = Tail(toR) /\ Reply(<<Ack, Ack, Ask(crc)>>)
  /\ pc' = "final"
  /\ UNCHANGED <<crc, next, retries, crcRetries, total, got>> /\ Hist

\* Whatever the final header is, the file is complete.
ReadFinal ==
  /\ pc = "final"
  /\ \E stat \in Stats, rest \in Rests :
       GetHdr(stat, rest) /\ toR' = rest
       /\ Reply(IF stat = "eof" THEN <<Ack, Ack>> ELSE <<Ack>>)
  /\ pc' = "done"
  /\ UNCHANGED <<crc, next, retries, crcRetries, total, got>> /\ Hist

Receive == OpenOk \/ OpenAgain \/ ReadNext \/ ReadAgain \/ ReadBad \/ ReadEof \/ ReadFinal

-----------------------------------------------------------------------------
(* The sender and the line: nothing makes the sender hear or answer.       *)

Message(n) == IF n = Eot THEN EotChar ELSE Pkt(n, mode' = "crc")

\* A message arrives, is lost or damaged, or overruns the receiver.
Send(n) ==
  \/ Len(toR) < MaxQueue /\ toR' = Append(toR, Message(n)) /\ UNCHANGED noise
  \/ /\ Len(toR) < MaxQueue /\ noise < MaxNoise /\ noise' = noise + 1
     /\ toR' \in {toR, Append(toR, Damaged)}
  \/ Len(toR) = MaxQueue /\ UNCHANGED <<toR, noise>>

Quiet == UNCHANGED <<toR, noise>>

\* The receiver has taken what the sender is sending.
Taken ==
  /\ sent = Header => pc # "open"
  /\ sent \in 1 .. Last => sent <= Len(got)
  /\ sent = Eot => pc \notin {"open", "read"}

SenderHears ==
  /\ toS # <<>> /\ toS' = Tail(toS)
  /\ \/ /\ Head(toS) # Ack /\ sent = -1            \* the first request
        /\ sent' = Header /\ mode' = IF Head(toS) = "C" THEN "crc" ELSE "sum"
        /\ Send(Header) /\ UNCHANGED skipped
     \/ /\ Head(toS) = Ack /\ sent \in Header .. Last
        /\ sent' = sent + 1 /\ UNCHANGED mode /\ Send(sent')
        /\ skipped' = IF Taken THEN skipped ELSE skipped + 1
     \/ /\ Head(toS) = Ack /\ sent = Eot
        /\ sent' = Final /\ UNCHANGED mode /\ Quiet
        /\ skipped' = IF Taken THEN skipped ELSE skipped + 1
     \/ /\ Head(toS) # Ack /\ sent \in Header .. Final
        /\ UNCHANGED <<sent, mode, skipped>> /\ Send(sent)
     \/ /\ Head(toS) = Ack /\ sent = Final            \* the sender is done
        /\ sent' = Final + 1 /\ UNCHANGED <<mode, skipped>> /\ Quiet
     \/ /\ Head(toS) = Ack /\ sent = -1
        /\ UNCHANGED <<sent, mode, skipped>> /\ Quiet
  /\ UNCHANGED <<receiver, timeouts, ranOut>>

SenderTimeout ==
  /\ sent \in Header .. Final /\ timeouts < MaxTimeouts /\ timeouts' = timeouts + 1
  /\ UNCHANGED <<sent, mode>> /\ Send(sent)
  /\ UNCHANGED <<toS, receiver, skipped, ranOut>>

SenderGivesUp ==
  /\ sent \in Header .. Eot /\ sent' = Final + 1 /\ Len(toR) < MaxQueue
  /\ toR' = Append(toR, Cancel)
  /\ UNCHANGED <<toS, receiver, mode, timeouts, noise, skipped, ranOut>>

ReplyLost ==
  /\ toS # <<>> /\ noise < MaxNoise /\ noise' = noise + 1 /\ toS' = Tail(toS)
  /\ UNCHANGED <<toR, receiver, sender, skipped, ranOut>>

Next == Receive \/ SenderHears \/ SenderTimeout \/ SenderGivesUp \/ ReplyLost

Spec == Init /\ [][Next]_vars /\ WF_vars(Receive)

-----------------------------------------------------------------------------
(* Properties.                                                             *)

Over == pc \in {"done", "short", "failed", "wild"}

\* Types; the retries of a block or of the header do not fall below zero
\* (the ones left for the CRC mode may).
TypeOK ==
  /\ pc \in {"open", "read", "final", "done", "short", "failed", "wild"}
  /\ next \in 0 .. Numbers - 1 /\ retries \in 0 .. Retries
  /\ total \in 0 .. PerRead - 1 /\ sent \in -1 .. Final + 1

\* Unless repeated blocks used up the retries, what was taken is in the order
\* of the file, no block twice (xyzModem_stream_read); and it is the beginning
\* of the file, none missing, unless the sender ran ahead on old
\* acknowledgements: then block n + 256, or the final header, is block n.
Prefix == ~ranOut =>
  /\ \A i, j \in DOMAIN got : i < j => got[i] < got[j]
  /\ skipped = 0 => \A i \in DOMAIN got : got[i] = i

\* When the end of the file was accepted there are not more blocks missing than
\* acknowledgements of a repeated block that the sender took for that of the next
\* one: the file is whole if there were none.
WholeAtEof == pc \in {"final", "done"} /\ ~ranOut => Len(got) + skipped >= Last

\* The receiver comes to an end whatever the sender does, silence included, and
\* whatever the line loses.  (xyzModem_flush and the search of a header in
\* xyzModem_get_hdr wait for a pause: on a line that carries garbage without one
\* they never return.  Here the noise is bounded.)
Ends == <>Over

=============================================================================
