------------------------------ MODULE NodeTexts ------------------------------
(***************************************************************************)
(* The texts the node builds in fixed buffers, as lengths: the topics of   *)
(* _init_topic and mqpub_init_topic, and the report of makereport.  Only   *)
(* lengths decide what is cut off or left out.                             *)
(***************************************************************************)
EXTENDS Naturals

Least(a, b) == IF a < b THEN a ELSE b

\* What snprintf writes of n characters into `room` bytes, its zero not counted.
Written(n, room) == IF room = 0 THEN 0 ELSE Least(n, room - 1)

SuffixLen == 8   \* "/sensors"
TopicSize == 64  \* MQPUB_TOPIC_LENGTH
NodeIdLen == 16  \* an EUI-64 in hexadecimal

\* _init_topic: how much of each part is in topicstr.  idLen is what get_nodeid
\* returned, 0 if it failed.  (A base that leaves no room for a node id is out of
\* scope.)
InitTopic(base, idLen) ==
  [base   |-> base,
   id     |-> Written(idLen, TopicSize - (base + 1)),
   suffix |-> Written(SuffixLen, TopicSize - (base + 1 + idLen))]

TopicLen(t) == t.base + 1 + t.id + t.suffix

-----------------------------------------------------------------------------
(* mqpub_init_topic, for a suffix of s characters behind n others.         *)

\* strlcat's third parameter is the size of the buffer; it is given what is left.
Room(len, n) == len - n

\* The characters of the suffix that strlcat appends.
Appended(len, n, s) ==
  IF n < Room(len, n) THEN Written(s, Room(len, n) - n) ELSE 0

\* Its result: the length it tried to create.
MqpubInitTopic(len, n, s) == Least(n, Room(len, n)) + s

-----------------------------------------------------------------------------
(* makereport, for a text of t characters and a buffer of len bytes.       *)

TextMax == 58 + 4 + 6 * 5  \* preamble's format, Sec below 4295, six 16-bit bins

\* preamble: the text as a whole or not at all.
Preamble(t, room) == IF t < room THEN t ELSE 0

\* PUTFMT("["), preamble in what is left but one, PUTFMT("]"); if a bracket does
\* not fit, the record is emptied.
Makereport(t, len) ==
  LET inner == Preamble(t, len - 2) IN
  IF len > 2 /\ 1 < len - (1 + inner) THEN 2 + inner ELSE 0
=============================================================================
