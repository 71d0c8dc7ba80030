----------------------------- MODULE MessageText -----------------------------
(***************************************************************************)
(* The text of a message: Message.  A message may begin with a header of   *)
(* lines "key: value" and an empty line.  The list of messages shows what  *)
(* follows the header, the details show all of it again, and the key       *)
(* "Reply-To" tells whether an answer is possible.                         *)
(*                                                                         *)
(* A text is the sequence of its lines, and a line the sequence of its     *)
(* parts between colons.  A text is written line by line, or made of a     *)
(* header and a text as other wallets make it.                             *)
(***************************************************************************)
EXTENDS Naturals, Sequences, SequencesExt

CONSTANTS
  Words,           (* what a part of a line may be                         *)
  MaxLines         (* bound: lines of a text                               *)

VARIABLES
  text,            (* the message as it was received                       *)
  sent             (* history: the header and the text it was made of      *)

vars == <<text, sent>>
-----------------------------------------------------------------------------
EmptyLine == <<>>
Lines == UNION {[1 .. n -> Words] : n \in 0 .. 3}
Texts == Seq(Lines)

(* Three parts make more than one colon. *)
IsField(line) == Len(line) >= 2

Headers == Seq([1 .. 2 -> Words])

Message(header, body) == [header |-> header, body |-> body]
NoMessage == Message(<<>>, <<>>)

(* makeTextMessage() *)
MakeText(message) ==
  (IF message.header = <<>> THEN <<>> ELSE message.header \o <<EmptyLine>>)
    \o message.body

TypeOK ==
  /\ text \in Texts
  /\ sent.header \in Headers
  /\ sent.body \in Texts

Init ==
  /\ text = <<>>
  /\ sent = NoMessage
-----------------------------------------------------------------------------
(* The empty lines before the text are left out. *)
Stripped(lines) ==
  LET full == {i \in DOMAIN lines : lines[i] # EmptyLine}
  IN IF full = {} THEN <<>>
     ELSE SubSeq(lines, CHOOSE i \in full : \A j \in full : i <= j, Len(lines))

(* A field is its first two parts. *)
Fields(lines) == [i \in DOMAIN lines |-> SubSeq(lines[i], 1, 2)]

(* Mutant: an empty line ends the header, whatever was before it. *)
ParseMessageAnyHeader(lines) ==
  LET tmp   == Stripped(lines)
      ends  == {i \in DOMAIN tmp : tmp[i] = EmptyLine}
      end   == IF ends = {} THEN Len(tmp) + 1
               ELSE CHOOSE i \in ends : \A j \in ends : i <= j
      fields == {i \in 1 .. end - 1 : IsField(tmp[i])}
  IN IF fields = {} THEN Message(<<>>, lines)
     ELSE Message(Fields(SelectSeq(SubSeq(tmp, 1, end - 1), IsField)),
                  IF ends = {} THEN lines ELSE SubSeq(tmp, end + 1, Len(tmp)))

(* parseMessage().  The lines before the first empty line are the header   *)
(* if all of them are fields.  Without an empty line they are the body too.*)
ParseMessage(lines) ==
  LET tmp  == Stripped(lines)
      ends == {i \in DOMAIN tmp : tmp[i] = EmptyLine}
      end  == IF ends = {} THEN Len(tmp) + 1
              ELSE CHOOSE i \in ends : \A j \in ends : i <= j
  IN IF \E i \in 1 .. end - 1 : ~IsField(tmp[i])
     THEN Message(<<>>, lines)
     ELSE Message(Fields(SubSeq(tmp, 1, end - 1)),
                  IF ends = {} THEN lines
                               ELSE SubSeq(tmp, end + 1, Len(tmp)))

(* getMessage() and getFullMessage() *)
Shown(lines) == ParseMessage(lines).body
ShownInFull(lines) == MakeText(ParseMessage(lines))
-----------------------------------------------------------------------------
WriteLine(line) ==
  /\ Len(text) < MaxLines
  /\ text' = Append(text, line)
  /\ sent' = NoMessage

AddHeader(field) ==
  /\ Len(text) + 1 < MaxLines
  /\ sent' = Message(Append(sent.header, field),
                     IF sent.header = <<>> THEN text ELSE sent.body)
  /\ text' = MakeText(sent')

Next ==
  \/ \E line \in Lines : WriteLine(line)
  \/ \E field \in [1 .. 2 -> Words] : AddHeader(field)

Spec == Init /\ [][Next]_vars
-----------------------------------------------------------------------------
(***************************************************************************)
(* A header and a text that were put together come apart the same, even if *)
(* the text itself looks like a header or begins with empty lines.         *)
(***************************************************************************)
HeaderSurvives ==
  sent.header # <<>> => ParseMessage(text) = sent

(***************************************************************************)
(* The list hides nothing of a text but a header: lines with a colon, with *)
(* an empty line after them.                                               *)
(***************************************************************************)
HidesOnlyHeaders ==
  Shown(text) # text =>
    \E i, j \in DOMAIN text :
      /\ \A k \in 1 .. i - 1 : text[k] = EmptyLine
      /\ \A k \in i .. j - 1 : IsField(text[k])
      /\ i < j /\ text[j] = EmptyLine
      /\ Shown(text) = SubSeq(text, j + 1, Len(text))

(***************************************************************************)
(* The details show the text as it was received, but for the empty lines   *)
(* before it and what a header has after a second colon.  The exception is *)
(* a text of nothing but fields: it is shown as a header and as a text.    *)
(***************************************************************************)
FullIsFaithful ==
  LET same(line, shown) ==
        shown \in IF IsField(line) THEN {line, SubSeq(line, 1, 2)} ELSE {line}
      all(lines, shown) ==
        /\ Len(lines) = Len(shown)
        /\ \A i \in DOMAIN lines : same(lines[i], shown[i])
  IN \/ all(text, ShownInFull(text))
     \/ all(Stripped(text), ShownInFull(text))
     \/ \A i \in DOMAIN Stripped(text) : IsField(Stripped(text)[i])
=============================================================================
