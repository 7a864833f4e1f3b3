------------------------------- MODULE Framing -------------------------------
(***************************************************************************)
(* Messages and their frames: createMessage and parseMessage of            *)
(* lib/message.js.  A message is one buffer.  A payload that does not fit  *)
(* the two length bytes is cut into parts, each with a header of its own.  *)
(* A byte is <<message, offset in its buffer>>: the header's bytes, which  *)
(* alone are interpreted, are known by their place.                        *)
(***************************************************************************)
EXTENDS Integers, FiniteSets, SequencesExt

CONSTANTS
  Msg,      \* the messages that may be sent
  Nil,      \* no descriptor (null in the code)
  Size,     \* the length of each message's payload
  Carrying, \* the messages that carry a file descriptor
  Base      \* values of a byte (256)

HeaderSize == 4   \* length (2), flag, ack
LengthSize == 2

ASSUME FramingAssumption ==
  /\ Nil \notin Msg
  /\ Carrying \subseteq Msg
  /\ Base \in Nat /\ Base * Base > HeaderSize + 1
  /\ Size \in [Msg -> Nat]

\* Mutant of PayloadMax: forgets that the length counts the header.
PayloadMaxBare == Base * Base - 1

PayloadMax == Base * Base - 1 - HeaderSize

\* createMessage: how a payload is cut.
Parts(m) == IF Size[m] > PayloadMax
            THEN (Size[m] + PayloadMax - 1) \div PayloadMax ELSE 1
PartPayload(m, p) == IF p < Parts(m) THEN PayloadMax
                     ELSE Size[m] - (Parts(m) - 1) * PayloadMax
PartSize(m, p)  == HeaderSize + PartPayload(m, p)
PartStart(m, p) == (p - 1) * (HeaderSize + PayloadMax)
BufferSize(m)   == Size[m] + Parts(m) * HeaderSize
Buffer(m)       == [k \in 1 .. BufferSize(m) |-> <<m, k - 1>>]
Part(m, p)      == SubSeq(Buffer(m), PartStart(m, p) + 1, PartStart(m, p) + PartSize(m, p))

\* The two length bytes of a frame of n bytes, as a reader adds them up.
LengthField(n) == ((n \div Base) % Base) * Base + (n % Base)

\* The part whose length bytes a reader has, <<Nil, 0>> if they are others.
Headed(bytes) ==
  LET m == bytes[1][1]
      P == {p \in 1 .. Parts(m) : bytes = SubSeq(Part(m, p), 1, LengthSize)}
  IN IF P = {} THEN <<Nil, 0>> ELSE <<m, CHOOSE p \in P : TRUE>>

\* parseMessage: the multipart cache after part p of m.
Cached(cache, m, p) ==
  IF Parts(m) = 1 THEN cache
  ELSE IF p = Parts(m) THEN <<>> ELSE Append(cache, <<m, p>>)

\* The message that part p of m completes, Nil while there are parts to come.
\* A last part joined to others than its own gives no message of Msg.
Completes(m, p) == p = Parts(m)
Joined(cache, m, p) == Parts(m) = 1 \/ cache = [i \in 1 .. p - 1 |-> <<m, i>>]

\* createComplexMessage: the descriptor of the one stream among m's arguments
\* goes with m, and a mark stays in its place.
Descriptor(m) == IF m \in Carrying THEN m ELSE Nil

\* What the receiver's handlers get for m: a mark in it is replaced by the
\* socket's pending descriptor.
Delivery(m, pendingfd) ==
  [msg |-> m, fd |-> IF Descriptor(m) # Nil THEN pendingfd ELSE Nil]
=============================================================================
