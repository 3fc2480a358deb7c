--------------------------- MODULE Ymodem_proofs ----------------------------
(***************************************************************************)
(* Proofs about Ymodem, for every length of the file, any number of block  *)
(* numbers above two, and any bounds on retries, timeouts and noise.       *)
(*                                                                         *)
(* Prefix is not inductive: it says nothing of the packets that are still  *)
(* on the line.  The invariant adds that these are in the order they were  *)
(* sent in, none before a block already taken or after the one the sender  *)
(* is at (InOrder), that the number expected next is the one after that of *)
(* the block taken last (NextBlock), and that as long as no acknowledgement*)
(* was mistaken for another, neither the sender nor a packet is more than  *)
(* one block ahead of the receiver (OnTrack).  Nor is WholeAtEof: each     *)
(* mistaken acknowledgement lets the sender, and what it puts on the line  *)
(* up to the EOT, run ahead by one block more (Behind).                    *)
(***************************************************************************)
EXTENDS Ymodem, TLAPS

Messages == [m : {"pkt"}, n : (Header .. Final) \ {Eot}, crc : BOOLEAN]
              \cup {EotChar, Cancel, Damaged}

\* What a message stands for, if it tells.
Numbered(x) == x.m \in {"pkt", "eot"}
At(x) == IF x.m = "pkt" THEN x.n ELSE Eot

Typed ==
  /\ TypeOK
  /\ toR \in Seq(Messages) /\ got \in Seq(Header .. Final)
  /\ pc \in {"open", "read"} => retries > 0
  /\ pc = "open" => got = <<>>
  /\ skipped \in Nat

InOrder ==
  /\ \A i, j \in DOMAIN toR : i < j /\ Numbered(toR[i]) /\ Numbered(toR[j])
       => At(toR[i]) <= At(toR[j])
  /\ \A i \in DOMAIN toR : Numbered(toR[i]) =>
       /\ At(toR[i]) <= sent
       /\ \A k \in DOMAIN got : got[k] <= At(toR[i])
  /\ \A k \in DOMAIN got : got[k] <= sent

NextBlock == ~ranOut =>
  /\ pc = "read" /\ got = <<>> => next = 1
  /\ got # <<>> => next = (Blk(got[Len(got)]) + 1) % Numbers
  /\ \A i, j \in DOMAIN got : i < j => got[i] < got[j]

\* The block that is next for the receiver.
Due == IF pc = "open" THEN Header ELSE Len(got) + 1

OnTrack == skipped = 0 /\ ~ranOut =>
  /\ Len(got) <= Last
  /\ \A k \in DOMAIN got : got[k] = k
  /\ pc \in {"open", "read"} =>
       /\ \A i \in DOMAIN toR : Numbered(toR[i]) => At(toR[i]) <= Due
       /\ sent <= Final => sent <= Due
  /\ pc \in {"final", "done"} => Len(got) = Last

Ordered == Typed /\ InOrder /\ NextBlock /\ OnTrack

Reach == Len(got) + skipped + 1

Behind ==
  /\ sent <= Eot => sent <= Reach
  /\ \A i \in DOMAIN toR : Numbered(toR[i]) /\ At(toR[i]) <= Eot => At(toR[i]) <= Reach
  /\ pc \in {"final", "done"} => Last <= Len(got) + skipped

IInv == Ordered /\ Behind

(***************************************************************************)
(* Block numbers.                                                          *)
(***************************************************************************)
LEMMA ModRange == \A a \in Int, n \in Nat \ {0} : a % n \in 0 .. n - 1
OBVIOUS

LEMMA BlkRange == \A n \in Header .. Final : Blk(n) \in 0 .. Numbers - 1
<1> SUFFICES ASSUME NEW n \in Header .. Final PROVE Blk(n) \in 0 .. Numbers - 1
  OBVIOUS
<1>1. n \in Int /\ Numbers \in Nat \ {0}
  BY YmodemAssumption DEF Header, Final
<1> QED BY <1>1, ModRange DEF Blk

\* The number after that of a block is another one.
LEMMA NextDiffers ==
  ASSUME NEW x \in 0 .. Numbers - 1
  PROVE  (x + 1) % Numbers # x
<1>1. Numbers \in Nat /\ Numbers > 2
  BY YmodemAssumption
<1>2. CASE x + 1 < Numbers
  <2>1. (x + 1) % Numbers = x + 1
    BY <1>1, <1>2
  <2> QED BY <2>1
<1>3. CASE x + 1 = Numbers
  <2>1. Numbers % Numbers = 0
    BY <1>1
  <2> QED BY <1>1, <1>3, <2>1
<1> QED BY <1>1, <1>2, <1>3

LEMMA SeqFacts ==
  ASSUME NEW S, NEW s \in Seq(S)
  PROVE  /\ \A k \in DOMAIN s : s[k] \in S
         /\ Len(s) \in Nat /\ DOMAIN s = 1 .. Len(s)
         /\ s # <<>> => Len(s) \in DOMAIN s
         /\ s = <<>> => Len(s) = 0
<1>1. s # <<>> => Len(s) # 0
  OBVIOUS
<1>2. Len(s) \in Nat /\ DOMAIN s = 1 .. Len(s) /\ \A k \in DOMAIN s : s[k] \in S
  OBVIOUS
<1> QED BY <1>1, <1>2

LEMMA AtInt == \A x \in Messages : Numbered(x) => At(x) \in Int
BY YmodemAssumption DEF Messages, Numbered, At, Header, Final, Eot, EotChar, Cancel, Damaged

(***************************************************************************)
(* The line to the receiver.                                               *)
(***************************************************************************)
\* The receiver takes the first message, or throws all away.
Popped == toR' = <<>> \/ (toR # <<>> /\ toR' = Tail(toR))

LEMMA PoppedFacts ==
  ASSUME Typed, Popped
  PROVE  /\ toR' \in Seq(Messages)
         /\ \A i \in DOMAIN toR' : i + 1 \in DOMAIN toR /\ toR'[i] = toR[i + 1]
<1>1. toR \in Seq(Messages)
  BY DEF Typed
<1>2. CASE toR' = <<>>
  BY <1>2
<1>3. CASE toR # <<>> /\ toR' = Tail(toR)
  BY <1>1, <1>3
<1> QED BY <1>2, <1>3 DEF Popped

LEMMA PoppedOrder ==
  ASSUME Typed, InOrder, Popped, got' = got, sent' = sent
  PROVE  InOrder'
<1>1. \A i \in DOMAIN toR' : i + 1 \in DOMAIN toR /\ toR'[i] = toR[i + 1]
  BY PoppedFacts
<1>2. DOMAIN toR' \subseteq Nat
  BY PoppedFacts
<1>3. \A i, j \in DOMAIN toR' : i < j => i + 1 < j + 1
  BY <1>2
<1> QED BY <1>1, <1>3 DEF InOrder

LEMMA GetHdrPops ==
  ASSUME NEW stat, NEW rest \in Rests \cup {Tail(toR)}, GetHdr(stat, rest), toR' = rest
  PROVE  Popped
BY DEF GetHdr, Popped, Rests

\* What the sender puts on the line.
LEMMA SendFacts ==
  ASSUME Typed, NEW n \in Header .. Final, Send(n)
  PROVE  \/ toR' = toR
         \/ \E x \in Messages : toR' = Append(toR, x) /\ (Numbered(x) => At(x) = n)
<1>1. Message(n) \in Messages /\ Damaged \in Messages
  BY DEF Message, Messages, Pkt
<1>2. Numbered(Message(n)) => At(Message(n)) = n
  BY DEF Message, Numbered, At, Pkt, EotChar
<1>3. ~Numbered(Damaged)
  BY DEF Numbered, Damaged
<1> QED BY <1>1, <1>2, <1>3 DEF Send

LEMMA AppendedFacts ==
  ASSUME Typed, NEW x \in Messages, toR' = Append(toR, x)
  PROVE  /\ toR' \in Seq(Messages)
         /\ \A i \in DOMAIN toR' : \/ i \in DOMAIN toR /\ toR'[i] = toR[i]
                                   \/ i = Len(toR) + 1 /\ toR'[i] = x
         /\ \A i \in DOMAIN toR : i <= Len(toR) /\ i \in Nat
BY DEF Typed

LEMMA SentOrder ==
  ASSUME Typed, InOrder, NEW n \in Header .. Final, Send(n) \/ toR' = toR,
         n = sent', sent' >= sent, got' = got
  PROVE  InOrder' /\ toR' \in Seq(Messages)
<1>1. sent \in Int /\ sent' \in Int /\ got \in Seq(Header .. Final)
  BY DEF Typed, TypeOK, Header, Final
<1>2. \A k \in DOMAIN got : got[k] \in Int
  <2>1. \A k \in DOMAIN got : got[k] \in Header .. Final
    BY <1>1, SeqFacts
  <2> QED BY <2>1
<1>3. \A y \in Messages : Numbered(y) => At(y) \in Int
  BY AtInt
<1>4. \A i \in DOMAIN toR : toR[i] \in Messages
  BY DEF Typed
<1>5. CASE toR' = toR
  <2>1. toR' \in Seq(Messages)
    BY <1>5 DEF Typed
  <2>2. InOrder'
    BY <1>1, <1>2, <1>3, <1>4, <1>5 DEF InOrder
  <2> QED BY <2>1, <2>2
<1>6. ASSUME NEW x \in Messages, toR' = Append(toR, x), Numbered(x) => At(x) = n
      PROVE  InOrder' /\ toR' \in Seq(Messages)
  <2>1. /\ \A i \in DOMAIN toR' : \/ i \in DOMAIN toR /\ toR'[i] = toR[i]
                                  \/ i = Len(toR) + 1 /\ toR'[i] = x
        /\ \A i \in DOMAIN toR : i <= Len(toR) /\ i \in Nat
        /\ toR' \in Seq(Messages)
    BY <1>6, AppendedFacts
  <2>2. \A i \in DOMAIN toR : Numbered(toR[i]) => At(toR[i]) <= n
    BY <1>1, <1>3, <1>4 DEF InOrder
  <2>3. \A i, j \in DOMAIN toR' : i < j /\ Numbered(toR'[i]) /\ Numbered(toR'[j])
          => At(toR'[i]) <= At(toR'[j])
    <3>1. SUFFICES ASSUME NEW i \in DOMAIN toR', NEW j \in DOMAIN toR', i < j,
                          Numbered(toR'[i]), Numbered(toR'[j])
                   PROVE  At(toR'[i]) <= At(toR'[j])
      OBVIOUS
    <3>2. i \in DOMAIN toR /\ toR'[i] = toR[i]
      BY <2>1, <3>1 DEF Typed
    <3>3. CASE j \in DOMAIN toR /\ toR'[j] = toR[j]
      BY <3>1, <3>2, <3>3 DEF InOrder
    <3>4. CASE toR'[j] = x
      BY <1>6, <2>2, <3>1, <3>2, <3>4
    <3> QED BY <2>1, <3>3, <3>4
  <2>4. ASSUME NEW i \in DOMAIN toR', Numbered(toR'[i])
        PROVE  At(toR'[i]) <= sent' /\ \A k \in DOMAIN got : got[k] <= At(toR'[i])
    <3>1. CASE i \in DOMAIN toR /\ toR'[i] = toR[i]
      BY <2>2, <2>4, <3>1 DEF InOrder
    <3>2. CASE toR'[i] = x
      BY <1>1, <1>2, <1>6, <2>4, <3>2 DEF InOrder
    <3> QED BY <2>1, <3>1, <3>2
  <2>5. \A k \in DOMAIN got : got[k] <= sent'
    BY <1>1, <1>2 DEF InOrder
  <2> QED BY <2>1, <2>3, <2>4, <2>5 DEF InOrder
<1> QED BY <1>5, <1>6, SendFacts

(***************************************************************************)
(* The steps.                                                              *)
(***************************************************************************)
\* Whether the last block's number leads to the next one decides what a block
\* with that number is.
LEMMA TakenBlock ==
  ASSUME Ordered, pc = "read", GetHdr("ok", Tail(toR)), Num = next, ~ranOut
  PROVE  LET n == Head(toR).n
         IN /\ n \in Header .. Final /\ Blk(n) = next
            /\ \A k \in DOMAIN got : got[k] < n
            /\ skipped = 0 => n = Len(got) + 1 /\ n <= Last
<1> DEFINE n == Head(toR).n
<1>a. /\ Typed /\ InOrder /\ NextBlock /\ OnTrack
      /\ got \in Seq(Header .. Final) /\ toR \in Seq(Messages) /\ Last \in Nat \ {0}
  BY YmodemAssumption DEF Ordered, Typed
<1>b. toR # <<>> /\ Head(toR).m = "pkt"
  BY DEF GetHdr
<1>c. 1 \in DOMAIN toR /\ Head(toR) = toR[1] /\ Head(toR) \in Messages
  BY <1>a, <1>b
<1>d. /\ n \in Header .. Final /\ n # Eot /\ Numbered(toR[1]) /\ At(toR[1]) = n
  BY <1>b, <1>c DEF Messages, EotChar, Cancel, Damaged, Numbered, At
<1>e. /\ \A k \in DOMAIN got : got[k] \in Header .. Final
      /\ Len(got) \in Nat /\ DOMAIN got = 1 .. Len(got)
      /\ got # <<>> => Len(got) \in DOMAIN got
  BY <1>a, SeqFacts
<1>1. Blk(n) = next
  BY DEF Num
<1>2. \A k \in DOMAIN got : got[k] <= n
  BY <1>a, <1>c, <1>d DEF InOrder
<1>3. got # <<>> => n # got[Len(got)]
  <2> SUFFICES ASSUME got # <<>>, n = got[Len(got)] PROVE FALSE
    OBVIOUS
  <2>1. Blk(n) \in 0 .. Numbers - 1
    BY <1>d, BlkRange
  <2>2. next = (Blk(n) + 1) % Numbers
    BY <1>a DEF NextBlock
  <2> QED BY <1>1, <2>1, <2>2, NextDiffers
<1>4. \A k \in DOMAIN got : got[k] < n
  <2> SUFFICES ASSUME NEW k \in DOMAIN got PROVE got[k] < n
    OBVIOUS
  <2>1. got[k] <= n /\ got[k] \in Int /\ n \in Int
    BY <1>2, <1>d, <1>e
  <2>2. CASE k = Len(got)
    BY <1>3, <2>1, <2>2
  <2>3. CASE k # Len(got)
    <3>1. k < Len(got) /\ Len(got) \in DOMAIN got
      BY <1>e, <2>3
    <3>2. got[k] < got[Len(got)] /\ got[Len(got)] <= n /\ got[Len(got)] \in Int
      BY <1>2, <1>a, <1>e, <3>1 DEF NextBlock
    <3> QED BY <2>1, <3>2
  <2> QED BY <2>2, <2>3
<1>5. ASSUME skipped = 0 PROVE n = Len(got) + 1 /\ n <= Last
  <2>1. n <= Len(got) + 1 /\ Len(got) <= Last
    BY <1>5, <1>a, <1>c, <1>d DEF OnTrack, Due
  <2>2. CASE got = <<>>
    <3>1. next = 1 /\ Blk(0) = 0
      BY <1>a, <2>2, YmodemAssumption DEF NextBlock, Blk, Final
    <3> QED BY <1>1, <1>a, <1>d, <2>1, <2>2, <3>1 DEF Header
  <2>3. CASE got # <<>>
    <3>1. got[Len(got)] = Len(got)
      BY <1>5, <1>a, <1>e, <2>3 DEF OnTrack
    <3>2. Len(got) < n
      BY <1>4, <1>e, <2>3, <3>1
    <3> QED BY <1>a, <1>d, <1>e, <2>1, <3>2 DEF Eot, Header, Final
  <2> QED BY <2>2, <2>3
<1> QED BY <1>d, <1>1, <1>4, <1>5

\* The receiver's steps that take no block.
LEMMA IdleStep ==
  ASSUME Ordered, OpenOk \/ OpenAgain \/ ReadBad \/ ReadEof \/ ReadFinal \/ (ReadAgain /\ retries > 1)
  PROVE  Ordered'
<1>a. /\ Typed /\ InOrder /\ NextBlock /\ OnTrack /\ TypeOK
      /\ Retries \in Nat \ {0} /\ Numbers \in Nat /\ Numbers > 2 /\ Last \in Nat \ {0}
  BY YmodemAssumption DEF Ordered, Typed
<1>b. /\ Popped /\ got' = got /\ sent' = sent /\ skipped' = skipped /\ ranOut' = ranOut
      /\ total' = total
  BY GetHdrPops DEF OpenOk, OpenAgain, ReadBad, ReadEof, ReadFinal, ReadAgain, Hist, sender
<1>c. /\ toR' \in Seq(Messages)
      /\ \A i \in DOMAIN toR' : i + 1 \in DOMAIN toR /\ toR'[i] = toR[i + 1]
  BY <1>a, <1>b, PoppedFacts
<1>1. InOrder'
  BY <1>a, <1>b, PoppedOrder
<1>2. Typed'
  <2>1. /\ next' \in 0 .. Numbers - 1 /\ retries' \in 0 .. Retries
        /\ pc' \in {"open", "read", "final", "done", "short", "failed", "wild"}
        /\ pc' \in {"open", "read"} => retries' > 0
        /\ pc' = "open" => pc = "open"
    BY <1>a DEF Typed, TypeOK, OpenOk, OpenAgain, ReadBad, ReadEof, ReadFinal, ReadAgain, Fail
  <2> QED BY <1>a, <1>b, <1>c, <2>1 DEF Typed, TypeOK
<1>3. NextBlock'
  <2>1. CASE OpenOk
    <3>1. got = <<>> /\ next' = 1
      BY <1>a, <2>1 DEF Typed, OpenOk
    <3> QED BY <1>b, <3>1 DEF NextBlock
  <2>2. CASE ~OpenOk
    <3>1. next' = next /\ (pc' = "read" => pc = "read")
      BY <2>2 DEF OpenAgain, ReadBad, ReadEof, ReadFinal, ReadAgain, Fail
    <3> QED BY <1>a, <1>b, <3>1 DEF NextBlock
  <2> QED BY <2>1, <2>2
<1>4. OnTrack'
  <2> SUFFICES ASSUME skipped = 0, ~ranOut PROVE OnTrack'
    BY <1>b DEF OnTrack
  <2>1. Len(got') <= Last /\ \A k \in DOMAIN got' : got'[k] = k
    BY <1>a, <1>b DEF OnTrack
  <2>2. pc' \in {"open", "read"} =>
          /\ pc \in {"open", "read"}
          /\ pc = "open" => Len(got) = 0
    BY <1>a DEF OpenOk, OpenAgain, ReadBad, ReadEof, ReadFinal, ReadAgain, Fail, Typed
  <2>3. pc' \in {"open", "read"} => Due' >= Due /\ Due \in Int /\ Due' \in Int
    <3>1. pc' = "open" => pc = "open"
      BY DEF OpenOk, OpenAgain, ReadBad, ReadEof, ReadFinal, ReadAgain, Fail
    <3>2. Len(got) \in Nat
      BY <1>a, SeqFacts DEF Typed
    <3> QED BY <1>b, <2>2, <3>1, <3>2 DEF Due, Header
  <2>4. pc' \in {"final", "done"} => Len(got') = Last
    <3>1. CASE ReadEof
      <4>1. toR # <<>> /\ Head(toR).m = "eot"
        BY <3>1 DEF ReadEof, GetHdr
      <4>2. 1 \in DOMAIN toR /\ Head(toR) = toR[1] /\ Len(got) \in Nat
        BY <1>a, <4>1 DEF Typed
      <4>3. Numbered(toR[1]) /\ At(toR[1]) = Eot
        BY <4>1, <4>2 DEF Numbered, At
      <4>4. Eot <= Len(got) + 1
        BY <1>a, <3>1, <4>2, <4>3 DEF OnTrack, Due, ReadEof
      <4> QED BY <1>a, <1>b, <2>1, <4>2, <4>4 DEF Eot
    <3>2. CASE ~ReadEof
      BY <1>a, <1>b, <3>2 DEF OpenOk, OpenAgain, ReadBad, ReadFinal, ReadAgain, Fail, OnTrack
    <3> QED BY <3>1, <3>2
  <2>5. ASSUME pc' \in {"open", "read"}
        PROVE  /\ \A i \in DOMAIN toR' : Numbered(toR'[i]) => At(toR'[i]) <= Due'
               /\ sent' <= Final => sent' <= Due'
    <3>1. \A i \in DOMAIN toR' : toR'[i] \in Messages
      BY <1>c
    <3>2. \A i \in DOMAIN toR : Numbered(toR[i]) => At(toR[i]) <= Due
      BY <1>a, <2>2, <2>5 DEF OnTrack
    <3>3. sent <= Final => sent <= Due
      BY <1>a, <2>2, <2>5 DEF OnTrack
    <3>4. sent \in Int
      BY <1>a DEF TypeOK, Final
    <3> QED BY <1>b, <1>c, <2>3, <2>5, <3>1, <3>2, <3>3, <3>4, AtInt
  <2> QED BY <1>a, <1>b, <1>c, <2>1, <2>4, <2>5 DEF OnTrack
<1> QED BY <1>1, <1>2, <1>3, <1>4 DEF Ordered

\* A block is stored: the next one, or the last one again.
LEMMA CopyStep ==
  ASSUME Ordered, ReadNext \/ (ReadAgain /\ retries <= 1)
  PROVE  Ordered'
<1> DEFINE n == Head(toR).n
<1>a. /\ Typed /\ InOrder /\ NextBlock /\ OnTrack /\ TypeOK
      /\ Retries \in Nat \ {0} /\ Numbers \in Nat /\ Numbers > 2 /\ PerRead \in Nat \ {0}
      /\ Last \in Nat \ {0} /\ got \in Seq(Header .. Final) /\ toR \in Seq(Messages)
  BY YmodemAssumption DEF Ordered, Typed
<1>b. /\ pc = "read" /\ pc' = "read" /\ GetHdr("ok", Tail(toR)) /\ toR' = Tail(toR)
      /\ Copied(n) /\ sent' = sent /\ skipped' = skipped
      /\ \/ ranOut' = ranOut /\ Num = next /\ next' = (next + 1) % Numbers
         \/ ranOut' = TRUE /\ next' = next
  <2>1. CASE ReadNext
    BY <2>1 DEF ReadNext, Hist, sender
  <2>2. CASE ReadAgain /\ retries <= 1
    <3>1. ~(retries > 1)
      BY <1>a, <2>2 DEF TypeOK
    <3> QED BY <2>2, <3>1 DEF ReadAgain, sender
  <2> QED BY <2>1, <2>2
<1>c. /\ toR # <<>> /\ Popped /\ 1 \in DOMAIN toR
      /\ n \in Header .. Final /\ Numbered(toR[1]) /\ At(toR[1]) = n
  <2>1. toR # <<>> /\ Head(toR).m = "pkt"
    BY <1>b DEF GetHdr
  <2>2. 1 \in DOMAIN toR /\ Head(toR) = toR[1] /\ Head(toR) \in Messages
    BY <1>a, <2>1
  <2> QED BY <1>b, <2>1, <2>2
          DEF Popped, Messages, EotChar, Cancel, Damaged, Numbered, At
<1>d. /\ toR' \in Seq(Messages)
      /\ \A i \in DOMAIN toR' : i + 1 \in DOMAIN toR /\ toR'[i] = toR[i + 1]
      /\ \A i \in DOMAIN toR' : i \in Nat /\ 1 < i + 1
  BY <1>a, <1>c, PoppedFacts
<1>e. /\ got' \in Seq(Header .. Final) /\ got' # <<>>
      /\ Len(got) \in Nat /\ Len(got') = Len(got) + 1 /\ got'[Len(got')] = n
      /\ \A k \in DOMAIN got' : \/ k \in DOMAIN got /\ k <= Len(got) /\ got'[k] = got[k]
                                \/ k = Len(got) + 1 /\ got'[k] = n
      /\ retries' = Retries /\ total' = (total + 1) % PerRead
  BY <1>a, <1>b, <1>c DEF Copied
<1>1. Typed'
  <2>1. total' \in 0 .. PerRead - 1
    BY <1>a, <1>e, ModRange DEF TypeOK
  <2>2. next' \in 0 .. Numbers - 1
    <3>1. next \in 0 .. Numbers - 1 /\ next + 1 \in Int /\ Numbers \in Nat \ {0}
      BY <1>a DEF TypeOK
    <3>2. (next + 1) % Numbers \in 0 .. Numbers - 1
      BY <3>1, ModRange
    <3> QED BY <1>b, <3>1, <3>2
  <2> QED BY <1>a, <1>b, <1>d, <1>e, <2>1, <2>2 DEF Typed, TypeOK
<1>2. InOrder'
  <2>1. \A i \in DOMAIN toR' : Numbered(toR'[i]) => n <= At(toR'[i])
    BY <1>a, <1>c, <1>d DEF InOrder
  <2>2. ASSUME NEW i \in DOMAIN toR', Numbered(toR'[i]), NEW k \in DOMAIN got'
        PROVE  got'[k] <= At(toR'[i])
    BY <1>a, <1>d, <1>e, <2>1, <2>2 DEF InOrder
  <2>3. \A i, j \in DOMAIN toR' : i < j => i + 1 < j + 1
    BY <1>d
  <2>4. \A k \in DOMAIN got' : got'[k] <= sent'
    BY <1>a, <1>b, <1>c, <1>e DEF InOrder
  <2> QED BY <1>a, <1>b, <1>d, <2>2, <2>3, <2>4 DEF InOrder
<1>3. CASE ranOut'
  <2> QED BY <1>1, <1>2, <1>3 DEF Ordered, NextBlock, OnTrack
<1>4. CASE ~ranOut'
  <2>1. /\ Num = next /\ ~ranOut /\ next' = (next + 1) % Numbers
    BY <1>4, <1>b
  <2>2. /\ Blk(n) = next /\ \A k \in DOMAIN got : got[k] < n
        /\ skipped = 0 => n = Len(got) + 1 /\ n <= Last
    BY <1>b, <2>1, TakenBlock
  <2>3. NextBlock'
    <3>1. next' = (Blk(got'[Len(got')]) + 1) % Numbers
      BY <1>e, <2>1, <2>2
    <3>2. ASSUME NEW i \in DOMAIN got', NEW j \in DOMAIN got', i < j PROVE got'[i] < got'[j]
      <4>1. i \in DOMAIN got /\ got'[i] = got[i]
        <5>1. j <= Len(got) + 1 /\ i \in Nat /\ j \in Nat
          BY <1>e
        <5> QED BY <1>e, <3>2, <5>1
      <4> QED BY <1>a, <1>e, <2>1, <2>2, <3>2, <4>1 DEF NextBlock
    <3> QED BY <1>e, <3>1, <3>2 DEF NextBlock, Blk
  <2>4. OnTrack'
    <3> SUFFICES ASSUME skipped = 0 PROVE OnTrack'
      BY <1>b DEF OnTrack
    <3>1. n = Len(got) + 1 /\ n <= Last
      BY <2>2
    <3>2. Len(got') <= Last /\ \A k \in DOMAIN got' : got'[k] = k
      BY <1>a, <1>e, <2>1, <3>1 DEF OnTrack
    <3>3. Due = Len(got) + 1 /\ Due' = Len(got) + 2
      BY <1>b, <1>e DEF Due
    <3>4. /\ \A i \in DOMAIN toR : Numbered(toR[i]) => At(toR[i]) <= Due
          /\ sent <= Final => sent <= Due
      BY <1>a, <1>b, <2>1 DEF OnTrack
    <3>5. ASSUME NEW i \in DOMAIN toR', Numbered(toR'[i]) PROVE At(toR'[i]) <= Due'
      <4>1. toR'[i] \in Messages
        BY <1>d
      <4>2. At(toR'[i]) <= Due /\ At(toR'[i]) \in Int
        BY <1>d, <3>4, <3>5, <4>1, AtInt
      <4> QED BY <1>e, <3>3, <4>2
    <3>6. sent' <= Final => sent' <= Due'
      BY <1>a, <1>b, <1>e, <3>3, <3>4 DEF TypeOK, Final
    <3> QED BY <1>b, <3>2, <3>5, <3>6 DEF OnTrack
  <2> QED BY <1>1, <1>2, <2>3, <2>4 DEF Ordered
<1> QED BY <1>3, <1>4

LEMMA SenderStep ==
  ASSUME Ordered, SenderHears \/ SenderTimeout \/ SenderGivesUp
  PROVE  Ordered'
<1>a. /\ Typed /\ InOrder /\ NextBlock /\ OnTrack /\ TypeOK
      /\ Last \in Nat \ {0} /\ got \in Seq(Header .. Final) /\ toR \in Seq(Messages)
      /\ sent \in -1 .. Final + 1 /\ skipped \in Nat
  BY YmodemAssumption DEF Ordered, Typed, TypeOK
<1>b. /\ pc' = pc /\ crc' = crc /\ next' = next /\ retries' = retries
      /\ total' = total /\ got' = got /\ ranOut' = ranOut
  BY DEF SenderHears, SenderTimeout, SenderGivesUp, receiver
<1>c. Len(got) \in Nat /\ (got = <<>> => Len(got) = 0)
  BY <1>a, SeqFacts
<1>1. NextBlock'
  BY <1>a, <1>b DEF NextBlock
<1>2. ASSUME toR' \in Seq(Messages), sent' \in -1 .. Final + 1, skipped' \in Nat PROVE Typed'
  BY <1>2, <1>a, <1>b DEF Typed, TypeOK
<1>3. ASSUME NEW n \in Header .. Final, Send(n) \/ toR' = toR, n = sent', sent' >= sent,
             skipped' \in Nat /\ skipped' >= skipped,
             skipped' = 0 /\ pc \in {"open", "read"} => n <= Due \/ n = sent
      PROVE  Ordered'
  <2>1. InOrder' /\ toR' \in Seq(Messages)
    BY <1>3, <1>a, <1>b, SentOrder
  <2>2. sent' \in -1 .. Final + 1
    BY <1>3, <1>a DEF Header, Final
  <2>3. OnTrack'
    <3> SUFFICES ASSUME skipped' = 0, ~ranOut PROVE OnTrack'
      BY <1>b DEF OnTrack
    <3>1. skipped = 0
      BY <1>3, <1>a
    <3>2. ASSUME pc \in {"open", "read"} PROVE sent' <= Due
      BY <1>3, <1>a, <3>1, <3>2 DEF OnTrack
    <3>3. ASSUME pc \in {"open", "read"}, NEW i \in DOMAIN toR', Numbered(toR'[i])
          PROVE  At(toR'[i]) <= Due
      <4>1. CASE toR' = toR
        BY <1>a, <3>1, <3>3, <4>1 DEF OnTrack
      <4>2. CASE toR' # toR
        <5>1. PICK x \in Messages : toR' = Append(toR, x) /\ (Numbered(x) => At(x) = n)
          BY <1>3, <1>a, <4>2, SendFacts
        <5>2. (i \in DOMAIN toR /\ toR'[i] = toR[i]) \/ toR'[i] = x
          BY <1>a, <5>1, AppendedFacts
        <5> QED BY <1>3, <1>a, <3>1, <3>2, <3>3, <5>1, <5>2 DEF OnTrack
      <4> QED BY <4>1, <4>2
    <3>4. Due' = Due
      BY <1>b DEF Due
    <3> QED BY <1>a, <1>b, <3>1, <3>2, <3>3, <3>4 DEF OnTrack
  <2> QED BY <1>3, <1>1, <1>2, <2>1, <2>2, <2>3 DEF Ordered
<1>4. CASE SenderTimeout
  <2>1. sent \in Header .. Final /\ Send(sent) /\ sent' = sent /\ skipped' = skipped
    BY <1>4 DEF SenderTimeout
  <2> QED BY <1>3, <1>a, <2>1
<1>5. CASE SenderGivesUp
  <2>1. sent \in Header .. Eot /\ sent' = Final + 1 /\ toR' = Append(toR, Cancel) /\ skipped' = skipped
    BY <1>5 DEF SenderGivesUp
  <2>2. Cancel \in Messages /\ ~Numbered(Cancel)
    BY DEF Messages, Numbered, Cancel
  <2>3. /\ toR' \in Seq(Messages)
        /\ \A i \in DOMAIN toR' : Numbered(toR'[i]) => i \in DOMAIN toR /\ toR'[i] = toR[i]
    BY <1>a, <2>1, <2>2, AppendedFacts
  <2>4. InOrder'
    <3>1. /\ \A i \in DOMAIN toR : Numbered(toR[i]) => At(toR[i]) \in Int
          /\ \A k \in DOMAIN got : got[k] \in Header .. Final
      BY <1>a, SeqFacts, AtInt
    <3>2. \A k \in DOMAIN got : got[k] \in Int
      BY <3>1
    <3> QED BY <1>a, <1>b, <2>1, <2>3, <3>1, <3>2 DEF InOrder, Final, Header, Eot
  <2>5. OnTrack'
    <3>1. Due' = Due /\ ~(sent' <= Final)
      BY <1>a, <1>b, <2>1 DEF Due, Final
    <3> QED BY <1>a, <1>b, <2>1, <2>3, <3>1 DEF OnTrack
  <2> QED BY <1>1, <1>2, <1>a, <2>1, <2>3, <2>4, <2>5 DEF Ordered, Final
<1>6. CASE SenderHears
  <2>1. CASE sent = -1 /\ sent' = Header /\ Send(Header) /\ skipped' = skipped
    <3>1. Header <= Due
      BY <1>c DEF Due, Header
    <3> QED BY <1>3, <1>a, <2>1, <3>1 DEF Header, Final
  <2>2. CASE sent \in Header .. Last /\ sent' = sent + 1 /\ Send(sent')
             /\ skipped' = IF Taken THEN skipped ELSE skipped + 1
    <3>1. sent' \in Header .. Final
      BY <1>a, <2>2 DEF Header, Final
    <3>2. ASSUME skipped' = 0, pc \in {"open", "read"} PROVE sent' <= Due
      <4>1. Taken
        BY <1>a, <2>2, <3>2
      <4>2. CASE sent = Header
        BY <1>c, <2>2, <3>2, <4>1, <4>2 DEF Taken, Due, Header
      <4>3. CASE sent \in 1 .. Last
        <5>1. sent <= Len(got)
          BY <4>1, <4>3 DEF Taken
        <5>2. pc = "read"
          BY <1>a, <1>c, <3>2, <4>3, <5>1 DEF Typed
        <5> QED BY <1>a, <1>c, <2>2, <5>1, <5>2 DEF Due
      <4> QED BY <1>a, <2>2, <4>2, <4>3 DEF Header
    <3>3. sent' >= sent
      BY <1>a, <2>2 DEF Header
    <3>4. skipped' \in Nat /\ skipped' >= skipped /\ skipped \in Nat
      BY <1>a, <2>2 DEF Typed
    <3> QED BY <1>3, <2>2, <3>1, <3>2, <3>3, <3>4
  <2>3. CASE sent = Eot /\ sent' = Final /\ Quiet /\ skipped' = IF Taken THEN skipped ELSE skipped + 1
    <3>1. skipped' = 0 => pc \notin {"open", "read"}
      BY <1>a, <2>3 DEF Taken
    <3>2. sent' \in Header .. Final /\ sent' >= sent
      BY <1>a, <2>3 DEF Header, Final, Eot
    <3>3. skipped' \in Nat /\ skipped' >= skipped
      BY <1>a, <2>3
    <3> QED BY <1>3, <2>3, <3>1, <3>2, <3>3 DEF Quiet
  <2>4. CASE sent \in Header .. Final /\ sent' = sent /\ Send(sent) /\ skipped' = skipped
    BY <1>3, <1>a, <2>4
  <2>5. CASE sent = Final /\ sent' = Final + 1 /\ Quiet /\ skipped' = skipped
    <3>1. toR' = toR
      BY <2>5 DEF Quiet
    <3>2. InOrder'
      <4>1. /\ \A i \in DOMAIN toR : Numbered(toR[i]) => At(toR[i]) \in Int
            /\ \A k \in DOMAIN got : got[k] \in Header .. Final
        BY <1>a, SeqFacts, AtInt
      <4>2. \A k \in DOMAIN got : got[k] \in Int
        BY <4>1
      <4> QED BY <1>a, <1>b, <2>5, <3>1, <4>1, <4>2 DEF InOrder, Final
    <3>3. OnTrack'
      <4>1. Due' = Due /\ ~(sent' <= Final)
        BY <1>a, <1>b, <2>5 DEF Due, Final
      <4> QED BY <1>a, <1>b, <2>5, <3>1, <4>1 DEF OnTrack
    <3> QED BY <1>1, <1>2, <1>a, <2>5, <3>1, <3>2, <3>3 DEF Ordered, Final
  <2>6. CASE sent = -1 /\ sent' = sent /\ Quiet /\ skipped' = skipped
    <3>1. toR' = toR
      BY <2>6 DEF Quiet
    <3>2. InOrder' /\ OnTrack'
      BY <1>a, <1>b, <2>6, <3>1 DEF InOrder, OnTrack, Due
    <3> QED BY <1>1, <1>2, <1>a, <2>6, <3>1, <3>2 DEF Ordered
  <2> QED BY <1>6, <2>1, <2>2, <2>3, <2>4, <2>5, <2>6 DEF SenderHears
<1> QED BY <1>4, <1>5, <1>6

LEMMA OrderedInit == Init => Ordered
<1> SUFFICES ASSUME Init PROVE Ordered
  OBVIOUS
<1>a. /\ Numbers \in Nat /\ Numbers > 2 /\ Retries \in Nat \ {0} /\ PerRead \in Nat \ {0}
      /\ Last \in Nat \ {0}
  BY YmodemAssumption
<1>b. /\ toR = <<>> /\ got = <<>> /\ pc = "open" /\ next = 0 /\ retries = Retries
      /\ total = 0 /\ sent = -1 /\ skipped = 0
  BY DEF Init
<1>1. Typed
  BY <1>a, <1>b DEF Typed, TypeOK, Final
<1>2. InOrder /\ NextBlock
  BY <1>b DEF InOrder, NextBlock
<1>3. OnTrack
  BY <1>a, <1>b DEF OnTrack, Due, Header
<1> QED BY <1>1, <1>2, <1>3 DEF Ordered

LEMMA OrderedStep == Ordered /\ [Next]_vars => Ordered'
<1> SUFFICES ASSUME Ordered, [Next]_vars PROVE Ordered'
  OBVIOUS
<1>1. CASE OpenOk \/ OpenAgain \/ ReadBad \/ ReadEof \/ ReadFinal
  BY <1>1, IdleStep
<1>2. CASE ReadNext
  BY <1>2, CopyStep
<1>3. CASE ReadAgain
  <2>1. retries > 1 \/ retries <= 1
    BY YmodemAssumption DEF Ordered, Typed, TypeOK
  <2> QED BY <1>3, <2>1, IdleStep, CopyStep
<1>4. CASE SenderHears \/ SenderTimeout \/ SenderGivesUp
  BY <1>4, SenderStep
<1>5. CASE ReplyLost \/ UNCHANGED vars
  <2>1. /\ toR' = toR /\ pc' = pc /\ next' = next /\ retries' = retries /\ total' = total
        /\ got' = got /\ sent' = sent /\ skipped' = skipped /\ ranOut' = ranOut
    BY <1>5 DEF ReplyLost, vars, line, receiver, sender
  <2> QED BY <2>1 DEF Ordered, Typed, TypeOK, InOrder, NextBlock, OnTrack, Due
<1> QED BY <1>1, <1>2, <1>3, <1>4, <1>5 DEF Next, Receive

(***************************************************************************)
(* How far the sender runs ahead.                                          *)
(***************************************************************************)
LEMMA ReceiverBehind ==
  ASSUME IInv, Receive
  PROVE  Behind'
<1>a. /\ Typed /\ Behind /\ got \in Seq(Header .. Final) /\ toR \in Seq(Messages)
      /\ Len(got) \in Nat /\ skipped \in Nat /\ sent \in Int /\ Last \in Nat
  BY YmodemAssumption, SeqFacts DEF IInv, Ordered, Typed, TypeOK, Final
<1>b. Popped /\ sent' = sent /\ skipped' = skipped
  BY GetHdrPops
     DEF Receive, OpenOk, OpenAgain, ReadNext, ReadAgain, ReadBad, ReadEof, ReadFinal, Hist,
         sender, Popped
<1>c. Len(got') = Len(got) \/ Len(got') = Len(got) + 1
  <2>1. got' = got \/ got' = Append(got, Head(toR).n)
    BY DEF Receive, OpenOk, OpenAgain, ReadNext, ReadAgain, ReadBad, ReadEof, ReadFinal, Copied
  <2> QED BY <1>a, <2>1
<1>d. Reach \in Int /\ Reach' \in Int /\ Reach <= Reach'
  BY <1>a, <1>b, <1>c DEF Reach
<1>1. sent' <= Eot => sent' <= Reach'
  BY <1>a, <1>b, <1>d DEF Behind
<1>2. ASSUME NEW i \in DOMAIN toR', Numbered(toR'[i]), At(toR'[i]) <= Eot
      PROVE  At(toR'[i]) <= Reach'
  <2>1. i + 1 \in DOMAIN toR /\ toR'[i] = toR[i + 1] /\ toR'[i] \in Messages
    BY <1>a, <1>b, PoppedFacts
  <2>2. At(toR'[i]) <= Reach /\ At(toR'[i]) \in Int
    BY <1>a, <1>2, <2>1, AtInt DEF Behind
  <2> QED BY <1>d, <2>2
<1>3. pc' \in {"final", "done"} => Last <= Len(got') + skipped'
  <2>1. CASE ReadEof
    <3>1. toR # <<>> /\ Head(toR).m = "eot"
      BY <2>1 DEF ReadEof, GetHdr
    <3>2. 1 \in DOMAIN toR /\ Numbered(toR[1]) /\ At(toR[1]) = Eot
      BY <1>a, <3>1 DEF Numbered, At
    <3>3. Eot <= Reach
      BY <1>a, <3>2 DEF Behind, Eot
    <3> QED BY <1>a, <1>b, <1>c, <3>3 DEF Eot, Reach
  <2>2. CASE ~ReadEof
    <3>1. pc' \in {"final", "done"} => pc \in {"final", "done"}
      BY <2>2 DEF Receive, OpenOk, OpenAgain, ReadNext, ReadAgain, ReadBad, ReadFinal, Fail
    <3> QED BY <1>a, <1>b, <1>c, <3>1 DEF Behind
  <2> QED BY <2>1, <2>2
<1> QED BY <1>b, <1>1, <1>2, <1>3 DEF Behind, Eot

LEMMA SenderBehind ==
  ASSUME IInv, SenderHears \/ SenderTimeout \/ SenderGivesUp
  PROVE  Behind'
<1>a. /\ Typed /\ Behind /\ toR \in Seq(Messages) /\ Last \in Nat \ {0}
      /\ Len(got) \in Nat /\ skipped \in Nat /\ sent \in -1 .. Final + 1
  BY YmodemAssumption, SeqFacts DEF IInv, Ordered, Typed, TypeOK
<1>b. pc' = pc /\ got' = got
  BY DEF SenderHears, SenderTimeout, SenderGivesUp, receiver
<1>1. ASSUME NEW n \in Header .. Final, Send(n) \/ toR' = toR, n = sent',
             skipped' \in Nat, skipped' >= skipped, n <= Eot => n <= Reach'
      PROVE  Behind'
  <2>1. Reach \in Int /\ Reach' \in Int /\ Reach <= Reach'
    BY <1>1, <1>a, <1>b DEF Reach
  <2>2. ASSUME NEW i \in DOMAIN toR', Numbered(toR'[i]), At(toR'[i]) <= Eot
        PROVE  At(toR'[i]) <= Reach'
    <3>1. CASE i \in DOMAIN toR /\ toR'[i] = toR[i]
      <4>1. toR[i] \in Messages /\ At(toR[i]) \in Int
        BY <1>a, <2>2, <3>1, AtInt
      <4> QED BY <1>a, <2>1, <2>2, <3>1, <4>1 DEF Behind
    <3>2. CASE ~(i \in DOMAIN toR /\ toR'[i] = toR[i])
      <4>1. PICK x \in Messages : toR' = Append(toR, x) /\ (Numbered(x) => At(x) = n)
        BY <1>1, <1>a, <2>2, <3>2, SendFacts
      <4>2. toR'[i] = x
        BY <1>a, <3>2, <4>1, AppendedFacts
      <4> QED BY <1>1, <2>2, <4>1, <4>2
    <3> QED BY <3>1, <3>2
  <2>3. pc' \in {"final", "done"} => Last <= Len(got') + skipped'
    BY <1>1, <1>a, <1>b DEF Behind
  <2> QED BY <1>1, <2>2, <2>3 DEF Behind, Eot
<1>2. CASE SenderTimeout
  <2>1. sent \in Header .. Final /\ Send(sent) /\ sent' = sent /\ skipped' = skipped
    BY <1>2 DEF SenderTimeout
  <2> QED BY <1>1, <1>a, <1>b, <2>1 DEF Behind, Reach
<1>3. CASE SenderGivesUp
  <2>1. sent' = Final + 1 /\ toR' = Append(toR, Cancel) /\ skipped' = skipped
    BY <1>3 DEF SenderGivesUp
  <2>2. Cancel \in Messages /\ ~Numbered(Cancel)
    BY DEF Messages, Numbered, Cancel
  <2>3. \A i \in DOMAIN toR' : Numbered(toR'[i]) => i \in DOMAIN toR /\ toR'[i] = toR[i]
    BY <1>a, <2>1, <2>2, AppendedFacts
  <2> QED BY <1>a, <1>b, <2>1, <2>3 DEF Behind, Reach, Final, Eot
<1>4. CASE SenderHears
  <2>1. CASE sent = -1 /\ sent' = Header /\ Send(Header) /\ skipped' = skipped
    BY <1>1, <1>a, <1>b, <2>1 DEF Reach, Header, Final
  <2>2. CASE sent \in Header .. Last /\ sent' = sent + 1 /\ Send(sent')
             /\ skipped' = IF Taken THEN skipped ELSE skipped + 1
    <3>1. sent' \in Header .. Final /\ skipped' \in Nat /\ skipped' >= skipped
      BY <1>a, <2>2 DEF Header, Final
    <3>2. sent' <= Reach'
      <4>1. CASE sent = Header
        BY <1>a, <1>b, <2>2, <3>1, <4>1 DEF Reach, Header
      <4>2. CASE sent # Header /\ Taken
        <5>1. sent <= Len(got)
          BY <2>2, <4>2 DEF Taken, Header
        <5> QED BY <1>a, <1>b, <2>2, <4>2, <5>1 DEF Reach
      <4>3. CASE ~Taken
        <5>1. sent <= Reach
          BY <1>a, <2>2 DEF Behind, Eot, Header
        <5> QED BY <1>a, <1>b, <2>2, <4>3, <5>1 DEF Reach
      <4> QED BY <4>1, <4>2, <4>3
    <3> QED BY <1>1, <2>2, <3>1, <3>2
  <2>3. CASE sent = Eot /\ sent' = Final /\ Quiet
             /\ skipped' = IF Taken THEN skipped ELSE skipped + 1
    <3>1. sent' \in Header .. Final /\ ~(sent' <= Eot) /\ toR' = toR
          /\ skipped' \in Nat /\ skipped' >= skipped
      BY <1>a, <2>3 DEF Header, Final, Eot, Quiet
    <3> QED BY <1>1, <3>1
  <2>4. CASE sent \in Header .. Final /\ sent' = sent /\ Send(sent) /\ skipped' = skipped
    BY <1>1, <1>a, <1>b, <2>4 DEF Behind, Reach
  <2>5. CASE /\ \/ sent = Final /\ sent' = Final + 1
                \/ sent = -1 /\ sent' = sent
             /\ Quiet /\ skipped' = skipped
    <3>1. toR' = toR /\ (sent' <= Eot => sent' = sent)
      BY <1>a, <2>5 DEF Quiet, Final, Eot
    <3> QED BY <1>a, <1>b, <2>5, <3>1 DEF Behind, Reach, Eot
  <2> QED BY <1>4, <2>1, <2>2, <2>3, <2>4, <2>5 DEF SenderHears
<1> QED BY <1>2, <1>3, <1>4

LEMMA IInvInit == Init => IInv
<1> SUFFICES ASSUME Init PROVE IInv
  OBVIOUS
<1>1. toR = <<>> /\ got = <<>> /\ pc = "open" /\ sent = -1 /\ skipped = 0
  BY DEF Init
<1>2. Behind
  BY <1>1 DEF Behind, Reach
<1> QED BY <1>2, OrderedInit DEF IInv

LEMMA IInvStep == IInv /\ [Next]_vars => IInv'
<1> SUFFICES ASSUME IInv, [Next]_vars PROVE IInv'
  OBVIOUS
<1>1. Ordered'
  BY OrderedStep DEF IInv
<1>2. CASE ReplyLost \/ UNCHANGED vars
  <2>1. toR' = toR /\ pc' = pc /\ got' = got /\ sent' = sent /\ skipped' = skipped
    BY <1>2 DEF ReplyLost, vars, line, receiver, sender
  <2>2. Behind'
    BY <2>1 DEF IInv, Behind, Reach
  <2> QED BY <1>1, <2>2 DEF IInv
<1> QED BY <1>1, <1>2, ReceiverBehind, SenderBehind DEF IInv, Next

(***************************************************************************)
(* The theorems.                                                           *)
(***************************************************************************)
\* The receiver's state keeps its type: the retries of the header and of a
\* block do not fall below zero (xyzModem_stream_open, xyzModem_stream_read).
THEOREM Typing == Spec => []TypeOK
<1>1. IInv => TypeOK
  BY DEF IInv, Ordered, Typed
<1> QED BY <1>1, IInvInit, IInvStep, PTL DEF Spec

\* Unless repeated blocks used up the retries, the blocks are taken in order and
\* none twice; as long as no old acknowledgement was mistaken for a new one none
\* is missing (xyzModem_stream_read).
THEOREM TakesInOrder == Spec => []Prefix
<1>1. IInv => Prefix
  BY DEF IInv, Ordered, NextBlock, OnTrack, Prefix
<1> QED BY <1>1, IInvInit, IInvStep, PTL DEF Spec

\* When the end of the file is accepted, no more blocks are missing than old
\* acknowledgements were mistaken for new ones (xyzModem_stream_read), unless
\* repeated blocks used up the retries.
THEOREM EndsWhole == Spec => []WholeAtEof
<1>1. IInv => WholeAtEof
  BY SeqFacts DEF IInv, Behind, WholeAtEof
<1> QED BY <1>1, IInvInit, IInvStep, PTL DEF Spec

=============================================================================
