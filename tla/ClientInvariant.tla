--------------------------- MODULE ClientInvariant ---------------------------
(***************************************************************************)
(* What is always true of the client and the answer it reads: the cursor   *)
(* is at a place of an answer that the server may give, the end of the     *)
(* headers is found in the headers and nowhere else, and the parser        *)
(* follows the answer until a late character has ended a tag.              *)
(***************************************************************************)
EXTENDS Client

(* The steps before an answer is read, and those that read it. *)
Before   == {"idle", "resolve", "connect"}
Requests == Before \cup {"request"}
ListPcs  == {"parseStart", "top", "eat", "tagFirst", "tagMore", "tagRead", "data"}
PollPcs  == {"pollFirst", "pollMark", "pollStore"}
Reading  == ListPcs \cup PollPcs \cup {"close"}

----------------------------------------------------------------------------
(* The place in the answer.                                                *)

OfFields == {"quote", "tag", "tagEnd", ":", "open", "text", "shut",
             "COMMA", "END", "next"}
OfEntries == OfFields \cup {"BEGIN"}
InList == OfEntries \cup {"[", "]"}
Parts == InList \cup {"200", "header"}

IsPlace(p) ==
  /\ p = [part |-> p.part, k |-> p.k, f |-> p.f, n |-> p.n]
  /\ p.k \in Nat /\ p.f \in Nat /\ p.n \in Nat

AtType == IsPlace(at) /\ op \in {"post", "poll"}

(* A list of entries to a post, one entry to a poll. *)
AnswerOK ==
  /\ op = "post" => reply \in Seq(Instances) /\ size = Len(reply) /\ size <= MaxSize
  /\ op = "poll" => reply \in Seq(Polled) /\ Len(reply) = 1

PlaceOK ==
  /\ at.part = "header" => at.n \in 1 .. 9
  /\ at.part \in {"[", "]", "next"} => op = "post"
  /\ at.part \in OfEntries => at.k \in 1 .. Len(reply)
  /\ at.part = "BEGIN" => at.f = 0
  /\ at.part \in OfFields => at.f \in 1 .. Len(reply[at.k])
  /\ at.part \in {"open", "shut"} => Field.quoted
  /\ at.part = "tag" => at.n \in 1 .. Len(Field.tag)
  /\ at.part = "tagEnd" => at.n = Len(Field.tag) + 1
  /\ at.part = "text" => at.n \in 1 .. Len(Field.text)
  /\ at.part = "shut" => at.n = Len(Field.text) + 1
  /\ at.part = "COMMA" => at.f < Len(reply[at.k])
  /\ at.part \in {"END", "next"} => at.f = Len(reply[at.k])
  /\ at.part = "next" => at.k < Len(reply)
  /\ at.part = "[" => at.k = 0
  /\ at.part \in {"]", "end"} =>
       /\ at.k = Len(reply)
       /\ at.k > 0 => at.f = Len(reply[at.k])

(* There is an answer to read from, or the end of its headers was found. *)
Answered == at.part \in Parts \/ i = 4

PlaceInv ==
  /\ AtType
  /\ at.part \in Parts \cup {"400", "end"}
  /\ Answered => AnswerOK /\ PlaceOK
  /\ pc \in Requests => at.part = "end"

----------------------------------------------------------------------------
(* The headers.                                                            *)

(* No symbol was late, on a socket, and the request was a good one. *)
InTime == late = 0 /\ s >= 0 /\ plain

(* How much of the ending is found, and where in the headers that can be.  *)
Matches == {<<1, 2>>, <<1, 7>>, <<1, 9>>, <<2, 3>>, <<2, 8>>, <<3, 9>>}

HeaderInv ==
  /\ late \in Nat
  /\ i = 4 =>
       /\ pc \in Reading /\ at.part \notin {"200", "header", "400"}
       /\ pc \in ListPcs => op = "post"
       /\ pc \in PollPcs => op = "poll"
  /\ pc = "match" =>
       /\ i \in 1 .. 3
       /\ i # 2 => at.part = "header"
       /\ at.part = "header" => <<i, at.n>> \in Matches
  /\ InTime =>
       /\ pc \in {"first", "status"} => at.part = "200"
       /\ pc = "skip" => at.part = "header" /\ at.n \in {1, 3, 4, 5, 6}
       /\ pc = "match" => at.part = "header" /\ <<i, at.n>> # <<1, 9>>
       /\ pc # "closeEarly"
       /\ pc \in Reading => i = 4

(* Nothing is stored before the parsers begin. *)
FreshInv ==
  pc \notin (Reading \cup {"closeEarly", "stale"}) \ {"parseStart", "pollFirst"} =>
    /\ stored = [p \in Cells |-> Blank] /\ output = Blank
    /\ elsewhere = {} /\ ~astray

----------------------------------------------------------------------------
(* read_and_parse.                                                         *)

(* The entries of which the opening brace is read. *)
Begun == IF at.part = "BEGIN" THEN at.k - 1 ELSE at.k

Between == {"[", "BEGIN", "quote", "COMMA", "END", "next", "]", "end"}

(* The parser is where the answer is. *)
Following ==
  \/ pc = "top" /\ parsing = "none" /\ at.part \in Between
  \/ pc = "tagFirst" /\ at.part = "tag" /\ at.n = 1
  \/ /\ pc = "tagMore" /\ at.part \in {"tag", "tagEnd"} /\ at.n > 1
     /\ c = Field.tag[at.n - 1] /\ jsontag = SubSeq(Field.tag, 1, at.n - 2)
  \/ /\ pc = "tagRead" /\ at.part \in {"tag", "tagEnd"}
     /\ jsontag = SubSeq(Field.tag, 1, at.n - 1)
  \/ pc = "tagMore" /\ at.part = ":" /\ c = "Q" /\ jsontag = Field.tag
  \/ pc = "top" /\ at.part = ":" /\ jsontag = Field.tag
  \/ pc = "eat" /\ at.part = "open" /\ jsontag = Field.tag
  \/ pc = "eat" /\ at.part = "text" /\ at.n = 1 /\ ~Field.quoted /\ jsontag = Field.tag
  \/ pc = "data" /\ at.part \in {"text", "shut"} /\ jsontag = Field.tag
  \/ pc = "data" /\ at.part = "COMMA" /\ ~Field.quoted /\ jsontag = Field.tag

(* The entry that data_instance stands for is never one that is not begun, *)
(* and is the last of them while the parser follows.                       *)
CountInv ==
  FewEntries =>
    /\ data_instance \in -1 .. Begun - 1
    /\ Begun > 0 => data_instance >= 0
    /\ ~astray => data_instance = Begun - 1

ParseInv ==
  /\ CountInv
  /\ Begun = 0 => pc \in {"top", "close"} /\ (pc = "top" => parsing = "none")
  /\ pc \in {"top", "tagFirst", "tagMore", "tagRead"} => parsing \in {"none", "tag"}
  /\ pc # "close" => (parse <=> at.part # "[")
  /\ pc # "close" /\ ~astray => Following
  /\ InTime => ~astray
  /\ InTime /\ pc = "close" => at.part = "end" /\ res = OK

Whole(text) == [text |-> text, done |-> TRUE]
Part(text, n) == [text |-> SubSeq(text, 1, n), done |-> FALSE]

From(cell, field) ==
  \/ cell = Whole(field.text)
  \/ \E n \in 0 .. Len(field.text) : cell = Part(field.text, n)

(* The field is behind the cursor. *)
Past(k, f) ==
  \/ k < at.k
  \/ k = at.k /\ f < at.f
  \/ k = at.k /\ f = at.f /\ at.part \in {"COMMA", "END", "next", "]", "end"}

(* A cell holds what the entry's field for it says, or its beginning. *)
CellOK(p, cell, answer) ==
  /\ p[1] \in 1 .. Len(answer)
  /\ \E f \in 1 .. Len(answer[p[1]]) :
       Member(answer[p[1]][f].tag) = p[2] /\ From(cell, answer[p[1]][f])

(* What is stored can be told from what the server has said. *)
Traced == ~astray /\ FewEntries /\ TextsFit

StoredInv ==
  /\ DOMAIN stored = Cells
  /\ FewEntries => "entry" \notin elsewhere
  /\ Traced =>
       /\ elsewhere = {}
       /\ \A p \in Cells : stored[p] # Blank => CellOK(p, stored[p], reply)
       /\ pc = "data" /\ Member(jsontag) \in Saved =>
            stored[Cell] = Part(Field.text, at.n - 1)
       /\ \A k \in 1 .. Len(reply) : \A f \in 1 .. Len(reply[k]) :
            LET m == Member(reply[k][f].tag) IN
            Past(k, f) /\ m \in Saved => stored[<<k, m>>] = Whole(reply[k][f].text)

----------------------------------------------------------------------------
(* parse_poll_response.                                                    *)

(* The quotes in front of a place, where the values are in quotes. *)
Quotes(p) ==
  4 * (p.f - 1) +
  CASE p.part = "quote" -> 0
    [] p.part \in {"tag", "tagEnd"} -> 1
    [] p.part \in {":", "open"} -> 2
    [] p.part \in {"text", "shut"} -> 3
    [] OTHER -> 4

PollInv ==
  /\ pc = "pollFirst" => at.part = "BEGIN"
  /\ pc = "pollMark" =>
       /\ markcnt \in 0 .. Quotes(at)
       /\ ~output.done
       /\ markcnt < 7 => output = Blank /\ markcnt = Quotes(at)
       /\ InTime => markcnt < 7
  /\ pc = "pollStore" =>
       /\ markcnt = 7 /\ at.f = 2 /\ at.part \in {"text", "shut"}
       /\ output = Part(Field.text, at.n - 1)
  /\ pc = "close" =>
       /\ output.done \/ InTime => output = Whole(reply[1][2].text)
       /\ InTime => res = OK

----------------------------------------------------------------------------
(* However late the answer is: the client reads it at a place where an     *)
(* answer can be read and takes for the end of the headers what is their   *)
(* end; its parser is at the place of the cursor, in the same entry and    *)
(* field, until a late character has ended a tag; and what is stored by    *)
(* then is, field by field, what the server has said.                      *)
ReadInv ==
  /\ PlaceInv /\ HeaderInv /\ FreshInv
  /\ i = 4 /\ pc = "parseStart" => at.part = "["
  /\ i = 4 /\ op = "post" /\ pc # "parseStart" => ParseInv /\ StoredInv
  /\ i = 4 /\ op = "poll" => PollInv

=============================================================================
