------------------------------- MODULE Client -------------------------------
(***************************************************************************)
(* The Open.Sen.se client, sp_sense_send and sp_sense_poll, with the HTTP  *)
(* header reader below it.  A call resolves the server's name once, tries  *)
(* to connect, sends its request and reads the answer through              *)
(* data_available and sp_read.  data_available waits for a limited time:   *)
(* at each place where it is asked, what the server has sent may come too  *)
(* late, and come all the same at the next.                                *)
(*                                                                         *)
(* What the server sends is a sequence of characters, of which some have   *)
(* names: Q is the quote, BEGIN and END are the braces, COMMA is the comma.*)
(* The client reads it from a cursor, at, on the answer.  When the peer    *)
(* has closed the connection, recv fails, and the bytes that sp_read gives *)
(* from then on are what its buffer held: the call is stale, and what it   *)
(* makes of them is not followed.                                          *)
(***************************************************************************)
EXTENDS Integers, Sequences, FiniteSets, SequencesExt

CONSTANTS
  BUFFER_SIZE, (* the size of txbuf: 64 in the code                         *)
  Half,        (* half the range of an unsigned long: 2^31 in the code      *)
  FeedIds,     (* the feed ids in use                                       *)
  ValueLens,   (* the lengths of the values that are posted                 *)
  CharMax,     (* the largest char: 127 in the code                         *)
  Room,        (* the sizes of the members: timetag 32, id 16 in the code   *)
  Code,        (* the codes of the characters                               *)
  MaxSize,     (* bound: the entries of a call                              *)
  Instances,   (* what the server says of one entry: sequences of fields    *)
  Polled,      (* what it answers to a poll                                 *)
  MaxLate      (* bound: the times an answer is late, in one call           *)

ASSUME BufferAssumption == BUFFER_SIZE \in Nat \ {0}
ASSUME FeedAssumption ==
  Half \in Nat \ {0} /\ FeedIds \subseteq 0 .. 2 * Half - 1
ASSUME ValueAssumption == ValueLens \subseteq Nat
ASSUME CharAssumption == CharMax \in Nat
ASSUME RoomAssumption == Room \in [{"timetag", "id"} -> Nat \ {0}]
ASSUME CodeAssumption == Code \in [DOMAIN Code -> 0 .. 127]
ASSUME BoundsAssumption == MaxSize \in Nat /\ MaxLate \in Nat

VARIABLES
  pc, op,
  sense_IP,      \* the server's address, kept from call to call
  cnt,           \* tries left
  s,             \* the socket: 0, or an error code (in an unsigned)
  res,           \* what the call returns
  size,          \* entries of the call
  plain,         \* there are entries, with feed ids below Half (history)
  reply,         \* the entries of the server's answer
  at,            \* where in the answer the client reads next
  socks,         \* sockets the device has open
  late,          \* bound
  (* http.cpp *)
  i,             \* how much of the end of the headers has been found
  (* read_and_parse *)
  parse, parsing, data_instance,
  jsontag,       \* the characters that were added up
  c,
  astray,        \* a late character has ended a tag (history)
  stored,        \* the answer in the caller's array, by entry and member
  elsewhere,     \* the ways in which something was written elsewhere
  (* parse_poll_response *)
  markcnt, output

callVars  == <<op, size, plain, reply>>
netVars   == <<sense_IP, cnt, s, socks>>
arrayVars == <<stored, elsewhere>>
parseVars == <<parse, parsing, data_instance, jsontag, c, astray, arrayVars>>
pollVars  == <<markcnt, output>>
readVars  == <<at, late, i>>
vars == <<pc, res, callVars, netVars, readVars, parseVars, pollVars>>

Saved == {"timetag", "id"}

(* jsontag, a uint16_t, and the member it stands for. *)
Hash(tag) == FoldLeft(LAMBDA sum, char : (sum + Code[char]) % 65536, 0, tag)

Member(tag) ==
  LET hash == Hash(tag)
  IN  IF hash = 747 THEN "timetag" ELSE IF hash = 205 THEN "id" ELSE "none"

(* The parser keeps its place in a list of entries by these characters     *)
(* alone: what an entry says has none of them.  Values are in quotes or    *)
(* bare; a bare one is not saved and never the last.  A value that is      *)
(* polled may have all but a quote; it is the second field.  Fewer than 64 *)
(* fields have fewer quotes than a byte can count.                         *)
Letters == DOMAIN Code \ {"Q", "CR", "LF"}
EntryLetters == Letters \ {"[", "]", "BEGIN", "END", "COMMA"}

Fields(chars, letters) ==
  [tag : Seq(chars) \ {<<>>}, text : Seq(letters), quoted : BOOLEAN]

ASSUME InstancesAssumption ==
  \A inst \in Instances :
    /\ inst \in Seq(Fields(EntryLetters \ {":"}, EntryLetters))
    /\ inst[Len(inst)].quoted
    /\ \A f, g \in DOMAIN inst :
         Member(inst[f].tag) = Member(inst[g].tag) /\ Member(inst[f].tag) \in Saved
           => f = g
    /\ \A m \in Saved : \E f \in DOMAIN inst : Member(inst[f].tag) = m
    /\ \A f \in DOMAIN inst :
         \/ inst[f].quoted
         \/ inst[f].text # <<>> /\ Member(inst[f].tag) \notin Saved

ASSUME PolledAssumption ==
  \A inst \in Polled :
    /\ inst \in Seq(Fields(Letters, Letters))
    /\ Len(inst) \in 2 .. 63 /\ inst[1].quoted /\ inst[2].quoted

Cells == (1 .. MaxSize) \X Saved
Mine  == (1 .. size) \X Saved

Blank == [text |-> <<>>, done |-> FALSE]

OK == 0
TIMEOUT == -1
JSON_ERROR == -2
NOT_FOUND == -3
NOT_CONNECTED == -4

(* A place in the answer: in field f of entry k, at character n.  The part *)
(* is named for its symbol where it has but one.                           *)
Place(part, k, f, n) == [part |-> part, k |-> k, f |-> f, n |-> n]

Nothing == Place("end", 0, 0, 0)

(* A call starts with variables of its own and a blank array.  (Blank, and *)
(* not what the stack holds, where the code writes before it reads.)       *)
Locals ==
  /\ op = "post" /\ cnt = 0 /\ s = 0 /\ res = OK
  /\ size = 0 /\ plain = FALSE /\ reply = <<>> /\ at = Nothing
  /\ late = 0 /\ i = 0
  /\ parse = FALSE /\ parsing = "none" /\ data_instance = -1
  /\ jsontag = <<>> /\ c = "Q" /\ astray = FALSE
  /\ stored = [p \in Cells |-> Blank] /\ elsewhere = {}
  /\ markcnt = 0 /\ output = Blank

Init == pc = "idle" /\ sense_IP = 0 /\ socks = 0 /\ Locals

Go(a, b) == pc = a /\ pc' = b

----------------------------------------------------------------------------
(* sp_sense_connect. *)

(* A call that is refused with SENSE_ERR_PARAMETER does nothing and is left *)
(* out.  One of no entries is only refused if there is no array either.    *)
Call ==
  /\ Go("idle", IF sense_IP = 0 THEN "resolve" ELSE "connect")
  /\ op' \in {"post", "poll"}
  /\ cnt' = IF sense_IP = 0 THEN 10 ELSE 4
  /\ UNCHANGED <<res, size, plain, reply, sense_IP, s, socks, readVars,
                 parseVars, pollVars>>

(* The error is put into an unsigned: it passes for a socket. *)
GiveUp(code) == pc' = "request" /\ s' = code

Resolve(ok, ip) ==
  /\ pc = "resolve" /\ (~ok => ip = 0)
  /\ sense_IP' = ip
  /\ IF ok /\ ip # 0 THEN pc' = "connect" /\ cnt' = 4 /\ UNCHANGED s
     ELSE /\ cnt' = cnt - 1
          /\ IF cnt = 1 THEN GiveUp(NOT_FOUND) ELSE UNCHANGED <<pc, s>>
  /\ UNCHANGED <<res, callVars, socks, readVars, parseVars, pollVars>>

(* sp_connect closes its socket when it fails. *)
Connect(ok) ==
  /\ pc = "connect"
  /\ IF ok
     THEN pc' = "request" /\ s' = 0 /\ socks' = socks + 1 /\ UNCHANGED cnt
     ELSE /\ cnt' = cnt - 1 /\ UNCHANGED socks
          /\ IF cnt = 1 THEN GiveUp(NOT_CONNECTED) ELSE UNCHANGED <<pc, s>>
  /\ UNCHANGED <<res, callVars, sense_IP, readVars, parseVars, pollVars>>

----------------------------------------------------------------------------
(* The request. *)

Digits(n) == 1 + Cardinality({d \in 1 .. 9 : n \div 10^d > 0})

(* sp_send takes a long: the upper half is sent with a minus sign. *)
Printed(n) == IF n < Half THEN Digits(n) ELSE 1 + Digits(2 * Half - n)

(* first, and the lengths of the entries. *)
Total(first, lengths) == FoldLeft(LAMBDA sum, n : sum + n, first, lengths)

ContentLength(data) ==
  Total(2 + (Len(data) - 1),
        [k \in DOMAIN data |-> Digits(data[k].feed_id) + data[k].value + 23])

(* "[", the entries with a comma between two of them, "]". *)
BodyLength(data) ==
  LET commas == IF Len(data) > 1 THEN Len(data) - 1 ELSE 0
  IN  Total(1 + commas + 1,
            [k \in DOMAIN data |->
               11 + Printed(data[k].feed_id) + 10 + data[k].value + 2])

(* sp_send(s, char * ) fills txbuf from str[0] again after each BUFFER_SIZE *)
(* characters, and so never comes to the end of a longer string.           *)
Endless(data) == \E k \in DOMAIN data : data[k].value >= BUFFER_SIZE

(* The answer is a header and, to a post, the list of the entries, each an *)
(* object of fields; to a poll, one object.                                *)
Headers == <<"CR", "LF", "x", ":", "x", "CR", "LF", "CR", "LF">>

Field == reply[at.k][at.f]

Symbol ==
  CASE at.part = "header" -> Headers[at.n]
    [] at.part \in {"quote", "tagEnd", "open", "shut"} -> "Q"
    [] at.part = "tag"  -> Field.tag[at.n]
    [] at.part = "text" -> Field.text[at.n]
    [] at.part = "next" -> "COMMA"
    [] OTHER -> at.part

After ==
  LET to(part) == [at EXCEPT !.part = part]
      fieldEnd == to(IF at.f < Len(reply[at.k]) THEN "COMMA" ELSE "END")
      char(n)  == IF n <= Len(Field.text) THEN Place("text", at.k, at.f, n)
                  ELSE IF Field.quoted THEN Place("shut", at.k, at.f, n)
                  ELSE fieldEnd
      list     == op = "post"
  IN  CASE at.part = "200"    -> Place("header", 0, 0, 1)
        [] at.part = "header" ->
             IF at.n < Len(Headers) THEN [at EXCEPT !.n = @ + 1]
             ELSE IF list THEN Place("[", 0, 0, 0) ELSE Place("BEGIN", 1, 0, 0)
        [] at.part = "["      ->
             IF reply = <<>> THEN to("]") ELSE Place("BEGIN", 1, 0, 0)
        [] at.part \in {"BEGIN", "COMMA"} -> Place("quote", at.k, at.f + 1, 0)
        [] at.part = "quote"  -> Place("tag", at.k, at.f, 1)
        [] at.part = "tag"    ->
             Place(IF at.n < Len(Field.tag) THEN "tag" ELSE "tagEnd", at.k, at.f, at.n + 1)
        [] at.part = "tagEnd" -> to(":")
        [] at.part = ":"      -> IF Field.quoted THEN to("open") ELSE char(1)
        [] at.part = "open"   -> char(1)
        [] at.part = "text"   -> char(at.n + 1)
        [] at.part = "shut"   -> fieldEnd
        [] at.part = "END"    -> to(IF at.k < Len(reply) THEN "next"
                                    ELSE IF list THEN "]" ELSE "end")
        [] at.part = "next"   -> Place("BEGIN", at.k + 1, 0, 0)
        [] OTHER -> to("end")

(* The server answers an entry with an object; to a body of another length *)
(* than announced it answers with an error, of which no more than the      *)
(* status is read, or not at all.                                          *)
ServerAnswers(ok, answer) ==
  IF s < 0 THEN at' = Nothing /\ reply' = <<>>
  ELSE IF ok THEN at' = Place("200", 0, 0, 0) /\ reply' = answer
  ELSE at' \in {Nothing, Place("400", 0, 0, 0)} /\ reply' = <<>>

Entries == [feed_id : FeedIds, value : ValueLens]

SendPost(data) ==
  /\ op = "post" /\ pc = "request" /\ pc' = IF Endless(data) THEN "resend" ELSE "first"
  /\ size' = Len(data)
  /\ plain' = (size' > 0 /\ \A k \in 1 .. size' : data[k].feed_id < Half)
  /\ \E answer \in [1 .. size' -> Instances] :
       ServerAnswers(ContentLength(data) = BodyLength(data), answer)
  /\ UNCHANGED <<op, res, netVars, late, i, parseVars, pollVars>>

(* The characters that are sent again. *)
Resend == pc = "resend" /\ UNCHANGED vars

SendPoll ==
  /\ Go("request", "first") /\ op = "poll"
  /\ \E answer \in Polled, ok \in BOOLEAN :
       ServerAnswers(ok, <<answer>>)
  /\ plain' = (at'.part = "200")
  /\ UNCHANGED <<op, size, res, netVars, late, i, parseVars, pollVars>>

----------------------------------------------------------------------------
(* Reading.  Available: data_available says yes, and sp_read or sp_peek    *)
(* gives the next symbol.  Otherwise the time is over, at once on a socket *)
(* that is an error code.                                                  *)

Ended == s < 0 \/ at.part = "end"

Available == ~Ended /\ UNCHANGED late

TimesOut ==
  \/ Ended /\ UNCHANGED late
  \/ ~Ended /\ late < MaxLate /\ late' = late + 1

Consume == at' = After

(* sp_read and sp_peek: data_available has said yes, for the peer has      *)
(* closed the connection, and recv fails.  Its error makes for a full      *)
(* buffer of what was there before.                                        *)
PeerGone ==
  /\ s >= 0
  /\ pc \in {"status", "skip", "match", "top", "eat", "tagFirst", "tagRead", "data",
             "pollMark", "pollStore"}
  /\ pc' = "stale" /\ i' = 0
  /\ UNCHANGED <<res, callVars, netVars, at, late, parseVars, pollVars>>

FailHeaders(r) == pc' = "closeEarly" /\ res' = r

headersKeep == <<callVars, netVars, parseVars, pollVars>>

(* Mutant: reads without asking data_available. *)
FirstBlocks ==
  /\ pc = "first" /\ UNCHANGED <<headersKeep, at, i>>
  /\ Available /\ pc' = "status" /\ UNCHANGED res

(* read_http_headers: five seconds for the first character. *)
First ==
  /\ pc = "first" /\ UNCHANGED <<headersKeep, at, i>>
  /\ \/ Available /\ pc' = "status" /\ UNCHANGED res
     \/ TimesOut /\ FailHeaders(TIMEOUT)

(* The fifteen characters of the status, which are one symbol.  (Where they *)
(* hold no code, the error would be 0 and pass for success.)               *)
Status ==
  /\ pc = "status" /\ UNCHANGED <<headersKeep, i>>
  /\ \/ /\ Available /\ Consume
        /\ \/ Symbol = "200" /\ pc' = "skip" /\ UNCHANGED res
           \/ Symbol = "400" /\ FailHeaders(-400)
     \/ TimesOut /\ FailHeaders(TIMEOUT) /\ UNCHANGED at

Ending == <<"CR", "LF", "CR", "LF">>

Body == IF op = "post" THEN "parseStart" ELSE "pollFirst"

(* sp_http_skip_to: a first character of the ending. *)
Skip ==
  /\ pc = "skip" /\ UNCHANGED <<res, headersKeep>>
  /\ \/ /\ Available /\ Consume
        /\ IF Symbol = Ending[1] THEN pc' = "match" /\ i' = 1
           ELSE UNCHANGED <<pc, i>>
     \/ TimesOut /\ pc' = Body /\ UNCHANGED <<at, i>>

(* A character that does not match is left for Skip.  A late one is, too,  *)
(* and the match is lost; the result HTTP_EOS is not looked at.            *)
Match ==
  /\ pc = "match" /\ UNCHANGED <<res, headersKeep>>
  /\ \/ /\ Available
        /\ IF Symbol = Ending[i + 1]
           THEN Consume /\ i' = i + 1 /\ pc' = IF i' = 4 THEN Body ELSE "match"
           ELSE pc' = "skip" /\ UNCHANGED <<at, i>>
     \/ TimesOut /\ pc' = "skip" /\ UNCHANGED <<at, i>>

----------------------------------------------------------------------------
(* read_and_parse. *)

Finish(r) == pc' = "close" /\ res' = r

parseKeep == <<callVars, netVars, i, pollVars>>

(* What is in memory that is not initialized: the hash of a tag, or not. *)
Tags == {field.tag : field \in UNION {Range(inst) : inst \in Instances}}

(* Mutant: starts at the first entry and counts on. *)
ParseStartAtFirst ==
  /\ Go("parseStart", "top")
  /\ parse' = FALSE /\ parsing' = "none" /\ data_instance' = 0
  /\ jsontag' \in {<<>>} \cup {tag \in Tags : Member(tag) \in Saved}
  /\ UNCHANGED <<res, parseKeep, at, late, c, astray, arrayVars>>

(* jsontag is not initialized. *)
ParseStart ==
  /\ Go("parseStart", "top")
  /\ parse' = FALSE /\ parsing' = "none" /\ data_instance' = -1
  /\ jsontag' \in {<<>>} \cup {tag \in Tags : Member(tag) \in Saved}
  /\ UNCHANGED <<res, parseKeep, at, late, c, astray, arrayVars>>

(* The second half of the loop: where to go in state p. *)
ParseNext(p) ==
  IF ~parse' THEN "top"
  ELSE CASE p = "none" -> "top" [] p = "tag" -> "tagFirst" [] p = "data" -> "data"

(* data_instance is a signed char. *)
NextInstance == IF data_instance = CharMax THEN -CharMax - 1 ELSE data_instance + 1

Cell == <<data_instance + 1, Member(jsontag)>>

(* The write pointer is set to the start of the cell. *)
Opened(p) == IF p \in Mine THEN [stored EXCEPT ![p] = Blank] ELSE stored

Top ==
  /\ pc = "top" /\ UNCHANGED <<parseKeep, jsontag, c, astray, elsewhere>>
  /\ \/ /\ Available /\ Consume
        /\ parse' = (Symbol # "]" /\ (parse \/ Symbol = "["))
        /\ data_instance' = IF Symbol = "BEGIN" THEN NextInstance ELSE data_instance
        /\ parsing' = IF Symbol = "Q" /\ parsing = "none" THEN "tag" ELSE parsing
        /\ \/ Symbol = "]" /\ Finish(OK)
           \/ Symbol = ":" /\ pc' = "eat" /\ UNCHANGED res
           \/ Symbol \notin {"]", ":"} /\ pc' = ParseNext(parsing') /\ UNCHANGED res
        /\ stored' = IF pc' = "data" THEN Opened(Cell') ELSE stored
     \/ /\ TimesOut /\ Finish(OK)
        /\ UNCHANGED <<at, parse, data_instance, parsing, stored>>

(* Mutant: the quote is left. *)
EatNot ==
  /\ pc = "eat"
  /\ UNCHANGED <<parseKeep, parse, data_instance, jsontag, c, astray, elsewhere>>
  /\ \/ /\ Available /\ UNCHANGED <<at, res>>
        /\ parsing' = "data" /\ pc' = IF parse THEN "data" ELSE "top"
        /\ stored' = IF parse THEN Opened(Cell) ELSE stored
     \/ /\ TimesOut /\ Finish(JSON_ERROR)
        /\ UNCHANGED <<at, parsing, stored>>

(* The quote after a colon. *)
Eat ==
  /\ pc = "eat"
  /\ UNCHANGED <<parseKeep, parse, data_instance, jsontag, c, astray, elsewhere>>
  /\ \/ /\ Available /\ Consume /\ UNCHANGED res
        /\ parsing' = "data" /\ pc' = IF parse THEN "data" ELSE "top"
        /\ stored' = IF parse THEN Opened(Cell) ELSE stored
     \/ /\ TimesOut /\ Finish(JSON_ERROR)
        /\ UNCHANGED <<at, parsing, stored>>

tagKeep == <<parseKeep, parse, parsing, data_instance, arrayVars>>

(* Mutant: the sum of the last tag is not reset. *)
TagFirstAdds ==
  /\ pc = "tagFirst" /\ UNCHANGED <<tagKeep, jsontag, astray>>
  /\ \/ Available /\ Consume /\ c' = Symbol /\ pc' = "tagMore" /\ UNCHANGED res
     \/ TimesOut /\ Finish(JSON_ERROR) /\ UNCHANGED <<at, c>>

TagFirst ==
  /\ pc = "tagFirst" /\ UNCHANGED <<tagKeep, astray>>
  /\ \/ /\ Available /\ Consume /\ UNCHANGED res
        /\ c' = Symbol /\ jsontag' = <<>> /\ pc' = "tagMore"
     \/ TimesOut /\ Finish(JSON_ERROR) /\ UNCHANGED <<at, c, jsontag>>

(* When nothing more is there in time, the loop ends without the quote and *)
(* drops c; the rest of the tag is then read as another.                   *)
TagMore ==
  /\ pc = "tagMore" /\ UNCHANGED <<res, tagKeep, at, c>>
  /\ \/ /\ Available /\ UNCHANGED astray
        /\ IF c = "Q" THEN pc' = "top" /\ UNCHANGED jsontag
           ELSE pc' = "tagRead" /\ jsontag' = Append(jsontag, c)
     \/ /\ TimesOut /\ pc' = "top" /\ UNCHANGED jsontag
        /\ astray' = (astray \/ c # "Q")

TagRead ==
  /\ pc = "tagRead" /\ UNCHANGED <<tagKeep, jsontag, astray>>
  /\ \/ Available /\ Consume /\ c' = Symbol /\ pc' = "tagMore" /\ UNCHANGED res
     \/ TimesOut /\ Finish(JSON_ERROR) /\ UNCHANGED <<at, c>>

(* Where a character, or the 0 behind the last, is written that is not in  *)
(* the cell: the entry is none of the caller's, or the member is full.     *)
Misses(p) ==
  IF p[2] \notin Saved THEN {}
  ELSE IF p \notin Mine THEN {"entry"}
  ELSE IF Len(stored[p].text) < Room[p[2]] THEN {} ELSE {"member"}

(* One character of a value; quote and comma end it.  What is in a cell    *)
(* while a neighbour is overwritten is not followed.                       *)
Data ==
  /\ pc = "data"
  /\ UNCHANGED <<parseKeep, parse, data_instance, jsontag, c, astray>>
  /\ \/ /\ Available /\ Consume /\ UNCHANGED res
        /\ elsewhere' = elsewhere \cup Misses(Cell)
        /\ LET ends == Symbol \in {"Q", "COMMA"} IN
           /\ pc' = IF ends THEN "top" ELSE "data"
           /\ parsing' = IF ends THEN "none" ELSE "data"
           /\ stored' =
                IF Cell \notin Mine THEN stored
                ELSE IF ends THEN [stored EXCEPT ![Cell].done = TRUE]
                ELSE [stored EXCEPT ![Cell].text = Append(@, Symbol)]
     \/ TimesOut /\ Finish(JSON_ERROR) /\ UNCHANGED <<at, parsing, arrayVars>>

----------------------------------------------------------------------------
(* parse_poll_response. *)

pollKeep == <<callVars, netVars, i, parseVars>>

PollFirst ==
  /\ pc = "pollFirst" /\ UNCHANGED <<pollKeep, at, output>>
  /\ markcnt' = 0
  /\ \/ Available /\ pc' = "pollMark" /\ UNCHANGED res
     \/ TimesOut /\ Finish(TIMEOUT)

PollMark ==
  /\ pc = "pollMark" /\ UNCHANGED <<pollKeep, output>>
  /\ \/ /\ Available /\ Consume /\ UNCHANGED res
        /\ markcnt' = IF Symbol = "Q" THEN (markcnt + 1) % 256 ELSE markcnt
        /\ pc' = IF Symbol = "Q" /\ markcnt' = 7 THEN "pollStore" ELSE "pollMark"
     \/ TimesOut /\ Finish(JSON_ERROR) /\ UNCHANGED <<at, markcnt>>

(* A late character ends the inner loop only. *)
PollStore ==
  /\ pc = "pollStore" /\ UNCHANGED <<pollKeep, markcnt>>
  /\ \/ /\ Available /\ Consume
        /\ IF Symbol = "Q"
           THEN Finish(OK) /\ output' = [output EXCEPT !.done = TRUE]
           ELSE /\ output' = [output EXCEPT !.text = Append(@, Symbol)]
                /\ UNCHANGED <<pc, res>>
     \/ TimesOut /\ pc' = "pollMark" /\ UNCHANGED <<res, at, output>>

----------------------------------------------------------------------------
(* The variables of the call are gone: Locals holds again. *)
Return ==
  /\ op' = "post" /\ cnt' = 0 /\ s' = 0 /\ res' = OK
  /\ size' = 0 /\ plain' = FALSE /\ reply' = <<>> /\ at' = Nothing
  /\ late' = 0 /\ i' = 0
  /\ parse' = FALSE /\ parsing' = "none" /\ data_instance' = -1
  /\ jsontag' = <<>> /\ c' = "Q" /\ astray' = FALSE
  /\ stored' = [p \in Cells |-> Blank] /\ elsewhere' = {}
  /\ markcnt' = 0 /\ output' = Blank
  /\ UNCHANGED sense_IP

(* The device does not know an error code as a socket. *)
CloseSocket ==
  /\ socks' = IF s >= 0 THEN socks - 1 ELSE socks
  /\ Return

(* Mutant: returns without closing. *)
CloseEarlyNot == Go("closeEarly", "idle") /\ Return /\ UNCHANGED socks

CloseEarly == Go("closeEarly", "idle") /\ CloseSocket

Close == Go("close", "idle") /\ CloseSocket

(* A stale call may come to one of them, or read on for ever. *)
CloseStale == Go("stale", "idle") /\ CloseSocket

Main ==
  \/ \E ok \in BOOLEAN : Connect(ok) \/ \E ip \in {0, 1} : Resolve(ok, ip)
  \/ SendPoll \/ \E data \in BoundedSeq(Entries, MaxSize) : SendPost(data)
  \/ First \/ Status \/ Skip \/ Match
  \/ ParseStart \/ Top \/ Eat \/ TagFirst \/ TagMore \/ TagRead \/ Data
  \/ PollFirst \/ PollMark \/ PollStore
  \/ CloseEarly \/ Close

Next == Call \/ Main \/ Resend \/ PeerGone \/ CloseStale

Spec == Init /\ [][Next]_vars

(* The CPU runs; every call of the library returns. *)
FairSpec == Spec /\ WF_vars(Main)

----------------------------------------------------------------------------
(* Properties.                                                             *)

(* What the server has said of an entry, for a member. *)
Said(k, m) ==
  LET field == CHOOSE f \in Range(reply[k]) : Member(f.tag) = m IN field.text

(* The entries can be counted in a char, and the texts have room. *)
FewEntries == size <= CharMax + 1

TextsFit ==
  \A k \in DOMAIN reply : \A f \in DOMAIN reply[k] :
    LET m == Member(reply[k][f].tag) IN m \in Saved => Len(reply[k][f].text) < Room[m]

(* However late the answer is in whichever places behind the headers, no   *)
(* entry but the caller's is written to.  As long as no tag was ended by a *)
(* late character, and the texts fit, nothing is written elsewhere, and a  *)
(* cell holds what the server has said for it, of this entry, or its       *)
(* beginning; a value that is ended is whole.  A poll that succeeds gives  *)
(* the value.                                                              *)
OnlyWhatCame ==
  i = 4 =>
    /\ op = "post" /\ FewEntries =>
         /\ "entry" \notin elsewhere
         /\ ~astray /\ TextsFit =>
              /\ elsewhere = {}
              /\ \A p \in Cells : stored[p] # Blank =>
                   /\ p[1] <= size
                   /\ IsPrefix(stored[p].text, Said(p[1], p[2]))
                   /\ stored[p].done => stored[p].text = Said(p[1], p[2])
    /\ op = "poll" /\ output.done => output.text = reply[1][2].text

(* A request that reaches the server and is answered in time succeeds, and *)
(* leaves the whole answer with the caller, who has room for it: the       *)
(* announced length is that of the body, the end of the headers is found,  *)
(* and the parsers follow the answer to its end.                           *)
InTimeServed ==
  s >= 0 /\ late = 0 /\ plain =>
    /\ pc # "closeEarly"
    /\ pc = "close" =>
         /\ res = OK
         /\ op = "post" /\ FewEntries /\ TextsFit =>
              /\ elsewhere = {}
              /\ \A p \in Mine : stored[p] = [text |-> Said(p[1], p[2]), done |-> TRUE]
         /\ op = "poll" => output = [text |-> reply[1][2].text, done |-> TRUE]

(* "This is where the response timetag gets stored": what is written is    *)
(* written into the array the caller gave.                                 *)
StoredInPlace == elsewhere = {}

(* No call leaves a socket open, of which the device has four. *)
NoSocketLeft == pc = "idle" => socks = 0

(* Every call returns, whatever fails and however late the answer is,      *)
(* unless a value is too long for sp_send, or the server closes the        *)
(* connection while it is read from.                                       *)
CallEnds == (pc # "idle") ~> (pc \in {"idle", "resend", "stale"})

=============================================================================
