---------------------------- MODULE ClientProofs ----------------------------
(***************************************************************************)
(* What is proved of the Open.Sen.se client: no call leaves a socket open; *)
(* whatever is late, only the caller's entries are written, and until a    *)
(* late character has ended a tag with what the server has said of them;   *)
(* and a request that is answered in time is served in full.               *)
(*                                                                         *)
(* The first needs to know which values of the socket variable, which also *)
(* carries error codes, stand for a socket.  The others need the invariant *)
(* of ClientInvariant: where the parsers are, and where the answer is.     *)
(* Its proof goes through the client's steps in the order of Client: for   *)
(* each parser, what one symbol does to the cursor and to the parser, and  *)
(* then each step, with a symbol in time and without.                      *)
(***************************************************************************)
EXTENDS ClientInvariant, SequenceTheorems, FiniteSetTheorems, TLAPS

----------------------------------------------------------------------------
(* The socket.                                                             *)

SocketInv ==
  /\ s \in {0, NOT_FOUND, NOT_CONNECTED}
  /\ pc \in Before => s = 0
  /\ socks = IF pc \notin Before /\ s >= 0 THEN 1 ELSE 0

(* The state of the parser is one that its switch knows: in another it     *)
(* could go on anywhere.                                                   *)
ParserInv == parsing \in {"none", "tag", "data"}

CallInv == SocketInv /\ ParserInv

----------------------------------------------------------------------------
(* The invariant of the socket is inductive.                               *)

(* No call, no socket. *)
LEMMA InitInv == Init => CallInv
BY DEF Init, Locals, CallInv, SocketInv, ParserInv, Before

(* sp_sense_connect ends with a socket, or with an error in its place. *)
LEMMA StepResolve ==
  ASSUME CallInv, NEW ok \in BOOLEAN, NEW ip \in {0, 1}, Resolve(ok, ip)
  PROVE  CallInv'
<1>1. pc = "resolve" /\ s = 0 /\ socks = 0 /\ socks' = socks
  BY DEF CallInv, SocketInv, Before, Resolve
<1>2. \/ pc' \in {"resolve", "connect"} /\ s' = s
      \/ pc' = "request" /\ s' = NOT_FOUND
  BY <1>1 DEF Resolve, GiveUp
<1>3. ParserInv'
  BY DEF Resolve, parseVars, CallInv, ParserInv
<1> QED
  BY <1>1, <1>2, <1>3 DEF CallInv, SocketInv, Before, NOT_FOUND, NOT_CONNECTED

(* So does the connection. *)
LEMMA StepConnect ==
  ASSUME CallInv, NEW ok \in BOOLEAN, Connect(ok)
  PROVE  CallInv'
<1>1. pc = "connect" /\ s = 0 /\ socks = 0
  BY DEF CallInv, SocketInv, Before, Connect
<1>2. \/ pc' = "request" /\ s' = 0 /\ socks' = 1
      \/ pc' = "connect" /\ s' = 0 /\ socks' = 0
      \/ pc' = "request" /\ s' = NOT_CONNECTED /\ socks' = 0
  BY <1>1 DEF Connect, GiveUp
<1>3. ParserInv'
  BY DEF Connect, parseVars, CallInv, ParserInv
<1> QED
  BY <1>1, <1>2, <1>3 DEF CallInv, SocketInv, Before, NOT_FOUND, NOT_CONNECTED

(* A step between the request and the close. *)
Within ==
  /\ pc \notin Before /\ pc' \notin Before
  /\ UNCHANGED netVars
  /\ ParserInv'

(* Such a step keeps the socket. *)
LEMMA StepWithin == CallInv /\ Within => CallInv'
BY DEF CallInv, SocketInv, Within, netVars

(* The request is such a step ... *)
LEMMA RequestWithin ==
  ASSUME ParserInv
  PROVE  /\ SendPoll => Within
         /\ \A data \in BoundedSeq(Entries, MaxSize) : SendPost(data) => Within
<1> USE DEF Within, Before, ParserInv, parseVars
<1>1. SendPoll => Within
  BY DEF SendPoll, Go
<1>2. ASSUME NEW data, SendPost(data)  PROVE Within
  BY <1>2 DEF SendPost
<1> QED BY <1>1, <1>2

(* ... so are those of the header reader, *)
LEMMA HeadersWithin ==
  ASSUME ParserInv
  PROVE  First \/ Status \/ Skip \/ Match => Within
<1> USE DEF Within, Before, ParserInv, headersKeep, parseVars, FailHeaders, Body
<1>1. First => Within   BY DEF First
<1>2. Status => Within  BY DEF Status
<1>3. Skip => Within    BY DEF Skip
<1>4. Match => Within   BY DEF Match
<1> QED BY <1>1, <1>2, <1>3, <1>4

(* of read_and_parse *)
LEMMA PostWithin ==
  ASSUME ParserInv
  PROVE  ParseStart \/ Top \/ Eat \/ TagFirst \/ TagMore \/ TagRead \/ Data
           => Within
<1> USE DEF Within, Before, ParserInv, parseKeep, tagKeep, Finish
<1>1. ParseStart => Within  BY DEF ParseStart, Go
<1>2. Top => Within
  <2> SUFFICES ASSUME Top  PROVE Within
    OBVIOUS
  <2>1. pc = "top" /\ UNCHANGED netVars
    BY DEF Top
  <2>2. parsing' \in {"none", "tag", "data"}
    BY DEF Top
  <2>3. \A p \in {"none", "tag", "data"} :
          ParseNext(p) \in {"top", "tagFirst", "data"}
    BY DEF ParseNext
  <2>4. pc' \in {"close", "eat", "top", "tagFirst", "data"}
    BY <2>2, <2>3 DEF Top
  <2> QED BY <2>1, <2>2, <2>4
<1>3. Eat => Within         BY DEF Eat
<1>4. TagFirst => Within    BY DEF TagFirst
<1>5. TagMore => Within     BY DEF TagMore
<1>6. TagRead => Within     BY DEF TagRead
<1>7. Data => Within        BY DEF Data
<1> QED BY <1>1, <1>2, <1>3, <1>4, <1>5, <1>6, <1>7

(* and of parse_poll_response. *)
LEMMA PollWithin ==
  ASSUME ParserInv
  PROVE  PollFirst \/ PollMark \/ PollStore => Within
<1> USE DEF Within, Before, ParserInv, pollKeep, parseVars, Finish
<1>1. PollFirst => Within  BY DEF PollFirst
<1>2. PollMark => Within   BY DEF PollMark
<1>3. PollStore => Within  BY DEF PollStore
<1> QED BY <1>1, <1>2, <1>3

(* So is a read that fails. *)
LEMMA GoneWithin == ParserInv /\ PeerGone => Within
BY DEF PeerGone, Within, Before, ParserInv, parseVars

(* Every way to return closes the socket, if there is one. *)
LEMMA StepClose == CallInv /\ (CloseEarly \/ Close \/ CloseStale) => CallInv'
<1> SUFFICES ASSUME CallInv, CloseEarly \/ Close \/ CloseStale  PROVE CallInv'
  OBVIOUS
<1>1. /\ pc \in {"closeEarly", "close", "stale"} /\ pc' = "idle" /\ s' = 0
      /\ socks' = IF s >= 0 THEN socks - 1 ELSE socks
      /\ parsing' = "none"
  BY DEF CloseEarly, Close, CloseStale, CloseSocket, Return, Go
<1>2. socks = IF s >= 0 THEN 1 ELSE 0
  BY <1>1 DEF CallInv, SocketInv, Before
<1>3. socks' = 0
  BY <1>1, <1>2
<1> QED BY <1>1, <1>3 DEF CallInv, SocketInv, ParserInv, Before

(* The invariant of the socket is inductive. *)
LEMMA StepInv == CallInv /\ [Next]_vars => CallInv'
<1> SUFFICES ASSUME CallInv, [Next]_vars  PROVE CallInv'
  OBVIOUS
<1>0. ParserInv
  BY DEF CallInv
<1>1. CASE Call
  BY <1>1
  DEF Call, Go, CallInv, SocketInv, ParserInv, Before, parseVars
<1>2. CASE \E ok \in BOOLEAN : Connect(ok) \/ \E ip \in {0, 1} : Resolve(ok, ip)
  BY <1>2, StepConnect, StepResolve
<1>3. CASE SendPoll \/ \E data \in BoundedSeq(Entries, MaxSize) : SendPost(data)
  BY <1>0, <1>3, RequestWithin, StepWithin
<1>4. CASE First \/ Status \/ Skip \/ Match
  BY <1>0, <1>4, HeadersWithin, StepWithin
<1>5. CASE ParseStart \/ Top \/ Eat \/ TagFirst \/ TagMore \/ TagRead \/ Data
  BY <1>0, <1>5, PostWithin, StepWithin
<1>6. CASE PollFirst \/ PollMark \/ PollStore
  BY <1>0, <1>6, PollWithin, StepWithin
<1>7. CASE CloseEarly \/ Close \/ CloseStale
  BY <1>7, StepClose
<1>8. CASE PeerGone
  BY <1>0, <1>8, GoneWithin, StepWithin
<1>9. CASE UNCHANGED vars
  BY <1>9 DEF vars, netVars, parseVars, CallInv, SocketInv, ParserInv, Before
<1> QED
  BY <1>1, <1>2, <1>3, <1>4, <1>5, <1>6, <1>7, <1>8, <1>9 DEF Next, Main, Resend

----------------------------------------------------------------------------
(* The answer: its entries and fields, and where one symbol leads.         *)

SomeField == [tag : Seq(Letters) \ {<<>>}, text : Seq(Letters), quoted : BOOLEAN]

(* Every entry of an answer is a sequence of fields, and not empty. *)
LEMMA EntryFacts ==
  ASSUME AnswerOK, op \in {"post", "poll"}, NEW k \in 1 .. Len(reply)
  PROVE  /\ Len(reply) \in Nat
         /\ reply[k] \in Seq(SomeField)
         /\ Len(reply[k]) \in Nat \ {0}
         /\ op = "post" => reply[k] \in Instances
         /\ op = "poll" => reply[k] \in Polled
<1>1. CASE op = "post"
  <2>1. reply \in Seq(Instances)
    BY <1>1 DEF AnswerOK
  <2>2. reply[k] \in Instances /\ Len(reply) \in Nat
    BY <2>1, ElementOfSeq, LenProperties
  <2>3. reply[k] \in Seq(Fields(EntryLetters \ {":"}, EntryLetters))
    BY <2>2, InstancesAssumption, Zenon
  <2>4. Seq(EntryLetters) \subseteq Seq(Letters) /\ Seq(EntryLetters \ {":"}) \subseteq Seq(Letters)
    BY SeqMonotonic DEF EntryLetters
  <2>5. Fields(EntryLetters \ {":"}, EntryLetters) \subseteq SomeField
    BY <2>4 DEF Fields, SomeField
  <2>6. reply[k] \in Seq(SomeField)
    BY <2>3, <2>5, SeqMonotonic
  <2>7. \E f \in DOMAIN reply[k] : Member(reply[k][f].tag) = "id"
    <3>1. \A m \in Saved : \E f \in DOMAIN reply[k] : Member(reply[k][f].tag) = m
      BY <2>2, InstancesAssumption, Zenon
    <3> QED BY <3>1 DEF Saved
  <2>8. Len(reply[k]) \in Nat \ {0}
    BY <2>6, <2>7, LenProperties
  <2> QED BY <1>1, <2>2, <2>6, <2>8
<1>2. CASE op = "poll"
  <2>1. reply \in Seq(Polled)
    BY <1>2 DEF AnswerOK
  <2>2. reply[k] \in Polled /\ Len(reply) \in Nat
    BY <2>1, ElementOfSeq, LenProperties
  <2>3. reply[k] \in Seq(Fields(Letters, Letters)) /\ Len(reply[k]) \in 2 .. 63
    BY <2>2, PolledAssumption, Zenon
  <2>4. reply[k] \in Seq(SomeField)
    <3>1. Fields(Letters, Letters) = SomeField
      BY DEF Fields, SomeField
    <3> QED BY <2>3, <3>1
  <2>5. Len(reply[k]) \in Nat \ {0}
    <3>1. \A n \in 2 .. 63 : n \in Nat \ {0}
      OBVIOUS
    <3> QED BY <2>3, <3>1, Zenon
  <2> QED BY <1>2, <2>2, <2>4, <2>5
<1> QED BY <1>1, <1>2

(* Where the cursor is in an entry or a field, there is one. *)
LEMMA FieldFacts ==
  ASSUME AtType, AnswerOK, PlaceOK
  PROVE  /\ Len(reply) \in Nat
         /\ at.part \in OfEntries => Len(reply[at.k]) \in Nat \ {0}
         /\ at.part \in OfFields => /\ Field \in SomeField
                                    /\ Len(Field.text) \in Nat
                                    /\ Len(Field.tag) \in Nat \ {0}
<1>1. Len(reply) \in Nat
  BY LenProperties DEF AtType, AnswerOK
<1>2. ASSUME at.part \in OfEntries
      PROVE  reply[at.k] \in Seq(SomeField) /\ Len(reply[at.k]) \in Nat \ {0}
  BY <1>2, EntryFacts DEF AtType, PlaceOK
<1>3. ASSUME at.part \in OfFields
      PROVE  /\ Field \in SomeField /\ Len(Field.text) \in Nat
             /\ Len(Field.tag) \in Nat \ {0}
  <2>1. reply[at.k] \in Seq(SomeField) /\ at.f \in 1 .. Len(reply[at.k])
    BY <1>2, <1>3 DEF OfEntries, PlaceOK
  <2>2. Field \in SomeField
    BY <2>1, ElementOfSeq DEF Field
  <2>3. Field.tag \in Seq(Letters) /\ Field.tag # <<>> /\ Field.text \in Seq(Letters)
    BY <2>2 DEF SomeField
  <2>4. Len(Field.tag) \in Nat /\ Len(Field.tag) # 0
    BY <2>3, LenProperties, EmptySeq
  <2> QED BY <2>2, <2>3, <2>4, LenProperties
<1> QED BY <1>1, <1>2, <1>3

(* Where one symbol leads, by components. *)
StepTo(part, k, f, n) ==
  IsPlace(at)' /\ at'.part = part /\ at'.k = k /\ at'.f = f /\ at'.n = n
Step(part) == StepTo(part, at.k, at.f, at.n)

(* What the components of the next place are where After names it in full  *)
(* ...                                                                     *)
LEMMA StepIsPlace ==
  ASSUME NEW part, NEW k \in Nat, NEW f \in Nat, NEW n \in Nat,
         at' = Place(part, k, f, n)
  PROVE  StepTo(part, k, f, n)
BY DEF Place, StepTo, IsPlace

(* ... and where it names the part alone. *)
LEMMA StepIsPart ==
  ASSUME AtType, NEW part, at' = [at EXCEPT !.part = part]
  PROVE  Step(part)
BY DEF AtType, Step, StepTo, IsPlace

FieldEnds ==
  \/ at.f < Len(reply[at.k]) /\ Step("COMMA")
  \/ at.f >= Len(reply[at.k]) /\ Step("END")
Char(n) ==
  \/ n <= Len(Field.text) /\ StepTo("text", at.k, at.f, n)
  \/ n > Len(Field.text) /\ Field.quoted /\ StepTo("shut", at.k, at.f, n)
  \/ n > Len(Field.text) /\ ~Field.quoted /\ FieldEnds

(* Behind a symbol of the headers comes the next, or the body. *)
LEMMA StepInHeader ==
  ASSUME AtType, Consume, at.part = "header", at.n \in 1 .. 9
  PROVE  \/ at.n < 9 /\ StepTo("header", at.k, at.f, at.n + 1)
         \/ at.n = 9 /\ op = "post" /\ StepTo("[", 0, 0, 0)
         \/ at.n = 9 /\ op = "poll" /\ StepTo("BEGIN", 1, 0, 0)
<1>1. at' = IF at.n < Len(Headers) THEN [at EXCEPT !.n = @ + 1]
            ELSE IF op = "post" THEN Place("[", 0, 0, 0) ELSE Place("BEGIN", 1, 0, 0)
  BY Zenon DEF Consume, After
<1>2. Len(Headers) = 9
  BY DEF Headers
<1>3. CASE at.n < 9
  <2>0. at.n < Len(Headers)
    BY <1>2, <1>3
  <2>1. at' = [at EXCEPT !.n = @ + 1]
    BY <1>1, <2>0, Zenon
  <2>2. StepTo("header", at.k, at.f, at.n + 1)
    BY <2>1 DEF StepTo, AtType, IsPlace
  <2> QED BY <1>3, <2>2
<1>4. CASE at.n = 9 /\ op = "post"
  <2>1. at' = Place("[", 0, 0, 0)
    BY <1>1, <1>2, <1>4
  <2> QED BY <1>4, <2>1, StepIsPlace
<1>5. CASE at.n = 9 /\ op = "poll"
  <2>1. at' = Place("BEGIN", 1, 0, 0)
    BY <1>1, <1>2, <1>5
  <2> QED BY <1>5, <2>1, StepIsPlace
<1>6. \/ at.n < 9
      \/ at.n = 9 /\ op = "post"
      \/ at.n = 9 /\ op = "poll"
  BY DEF AtType
<1> QED BY <1>3, <1>4, <1>5, <1>6

(* Behind the colon comes the value, and behind the value the next field,  *)
(* the next entry or the end.                                              *)
LEMMA StepInText ==
  ASSUME AtType, AnswerOK, PlaceOK, Consume, at.part \in OfFields
  PROVE  /\ at.part = ":" => \/ Field.quoted /\ Step("open")
                             \/ ~Field.quoted /\ Char(1)
         /\ at.part = "open" => Char(1)
         /\ at.part = "text" => Char(at.n + 1)
         /\ at.part = "shut" => FieldEnds
         /\ at.part = "END" => \/ at.k < Len(reply) /\ Step("next")
                               \/ at.k >= Len(reply) /\ op = "post" /\ Step("]")
                               \/ at.k >= Len(reply) /\ op = "poll" /\ Step("end")
<1> DEFINE to(part) == [at EXCEPT !.part = part]
           fieldEnd == to(IF at.f < Len(reply[at.k]) THEN "COMMA" ELSE "END")
           char(n)  == IF n <= Len(Field.text) THEN Place("text", at.k, at.f, n)
                       ELSE IF Field.quoted THEN Place("shut", at.k, at.f, n)
                       ELSE fieldEnd
<1>1. /\ Len(reply) \in Nat /\ at.k \in Nat /\ Len(reply[at.k]) \in Nat /\ at.f \in Nat
      /\ Len(Field.text) \in Nat /\ Field.quoted \in BOOLEAN /\ at.n \in Nat
  BY FieldFacts DEF AtType, OfEntries, SomeField, IsPlace
<1>2. ASSUME at' = fieldEnd  PROVE FieldEnds
  <2>1. CASE at.f < Len(reply[at.k])
    <3>1. at' = [at EXCEPT !.part = "COMMA"]
      BY <1>2, <2>1
    <3> QED BY <2>1, <3>1, StepIsPart DEF FieldEnds
  <2>2. CASE at.f >= Len(reply[at.k])
    <3>0. ~(at.f < Len(reply[at.k]))
      BY <1>1, <2>2
    <3>1. at' = [at EXCEPT !.part = "END"]
      BY <1>2, <3>0, Zenon
    <3> QED BY <2>2, <3>1, StepIsPart DEF FieldEnds
  <2> QED BY <1>1, <2>1, <2>2
<1>3. ASSUME NEW n \in Nat, at' = char(n)  PROVE Char(n)
  <2>1. CASE n <= Len(Field.text)
    <3>1. at' = Place("text", at.k, at.f, n)
      BY <1>3, <2>1
    <3> QED BY <1>1, <2>1, <3>1, StepIsPlace DEF Char
  <2>2. CASE n > Len(Field.text) /\ Field.quoted
    <3>0. ~(n <= Len(Field.text))
      BY <1>1, <2>2
    <3>1. at' = Place("shut", at.k, at.f, n)
      BY <1>3, <2>2, <3>0, Zenon
    <3> QED BY <1>1, <2>2, <3>1, StepIsPlace DEF Char
  <2>3. CASE n > Len(Field.text) /\ ~Field.quoted
    <3>0. ~(n <= Len(Field.text))
      BY <1>1, <2>3
    <3>1. at' = fieldEnd
      BY <1>3, <2>3, <3>0, Zenon
    <3> QED BY <1>2, <2>3, <3>1 DEF Char
  <2> HIDE DEF char
  <2> QED BY <1>1, <2>1, <2>2, <2>3
<1>4. at.part = ":" => at' = IF Field.quoted THEN to("open") ELSE char(1)
  BY Zenon DEF Consume, After
<1>5. at.part = "open" => at' = char(1)
  BY Zenon DEF Consume, After
<1>6. at.part = "text" => at' = char(at.n + 1)
  BY Zenon DEF Consume, After
<1>7. at.part = "shut" => at' = fieldEnd
  BY Zenon DEF Consume, After
<1>8. at.part = "END" => at' = to(IF at.k < Len(reply) THEN "next"
                                ELSE IF op = "post" THEN "]" ELSE "end")
  BY Zenon DEF Consume, After
<1> HIDE DEF fieldEnd, char
<1>9. at.part = ":" => \/ Field.quoted /\ Step("open")
                       \/ ~Field.quoted /\ Char(1)
  BY <1>1, <1>3, <1>4, StepIsPart
<1>10. /\ at.part = "open" => Char(1)
       /\ at.part = "text" => Char(at.n + 1)
  BY <1>1, <1>3, <1>5, <1>6
<1>11. ASSUME at.part = "END"
       PROVE  \/ at.k < Len(reply) /\ Step("next")
              \/ at.k >= Len(reply) /\ op = "post" /\ Step("]")
              \/ at.k >= Len(reply) /\ op = "poll" /\ Step("end")
  <2>1. CASE at.k < Len(reply)
    <3>1. at' = [at EXCEPT !.part = "next"]
      BY <1>8, <1>11, <2>1, Zenon
    <3>2. Step("next")
      BY <3>1, StepIsPart
    <3> QED BY <2>1, <3>2
  <2>2. CASE ~(at.k < Len(reply)) /\ op = "post"
    <3>1. at' = [at EXCEPT !.part = "]"]
      BY <1>8, <1>11, <2>2, Zenon
    <3>2. Step("]")
      BY <3>1, StepIsPart
    <3> QED BY <1>1, <2>2, <3>2
  <2>3. CASE ~(at.k < Len(reply)) /\ op # "post"
    <3>1. at' = [at EXCEPT !.part = "end"]
      BY <1>8, <1>11, <2>3, Zenon
    <3>2. Step("end")
      BY <3>1, StepIsPart
    <3> QED BY <1>1, <2>3, <3>2 DEF AtType
  <2> QED BY <2>1, <2>2, <2>3
<1>12. at.part = "shut" => FieldEnds
  BY <1>2, <1>7, Zenon
<1> QED BY <1>9, <1>10, <1>11, <1>12, Zenon

(* What comes behind the other parts. *)
LEMMA StepElsewhere ==
  ASSUME AtType, Consume
  PROVE  /\ at.part = "200" => StepTo("header", 0, 0, 1)
         /\ at.part = "[" => \/ reply = <<>> /\ Step("]")
                             \/ reply # <<>> /\ StepTo("BEGIN", 1, 0, 0)
         /\ at.part \in {"BEGIN", "COMMA"} => StepTo("quote", at.k, at.f + 1, 0)
         /\ at.part = "quote"  => StepTo("tag", at.k, at.f, 1)
         /\ at.part = "tag"    =>
              \/ at.n < Len(Field.tag) /\ StepTo("tag", at.k, at.f, at.n + 1)
              \/ ~(at.n < Len(Field.tag)) /\ StepTo("tagEnd", at.k, at.f, at.n + 1)
         /\ at.part = "tagEnd" => Step(":")
         /\ at.part = "next" => StepTo("BEGIN", at.k + 1, 0, 0)
         /\ at.part \in {"]", "400", "end"} => Step("end")
<1>0. /\ at.k \in Nat /\ at.f \in Nat /\ at.k + 1 \in Nat /\ at.f + 1 \in Nat
      /\ at.n + 1 \in Nat
  BY DEF AtType, IsPlace
<1>1. ASSUME at.part = "200"  PROVE StepTo("header", 0, 0, 1)
  <2>1. at' = Place("header", 0, 0, 1)
    BY <1>1, Zenon DEF Consume, After
  <2> QED BY <2>1, StepIsPlace
<1>2. ASSUME at.part = "["
      PROVE  \/ reply = <<>> /\ Step("]")
             \/ reply # <<>> /\ StepTo("BEGIN", 1, 0, 0)
  <2>1. at' = IF reply = <<>> THEN [at EXCEPT !.part = "]"] ELSE Place("BEGIN", 1, 0, 0)
    BY <1>2, Zenon DEF Consume, After
  <2>2. CASE reply = <<>>
    BY <2>1, <2>2, StepIsPart
  <2>3. CASE reply # <<>>
    BY <2>1, <2>3, StepIsPlace
  <2> QED BY <2>2, <2>3
<1>3. ASSUME at.part \in {"BEGIN", "COMMA"}  PROVE StepTo("quote", at.k, at.f + 1, 0)
  <2>1. at' = Place("quote", at.k, at.f + 1, 0)
    BY <1>3 DEF Consume, After
  <2> QED BY <1>0, <2>1, StepIsPlace
<1>4. ASSUME at.part = "quote"  PROVE StepTo("tag", at.k, at.f, 1)
  <2>1. at' = Place("tag", at.k, at.f, 1)
    BY <1>4, Zenon DEF Consume, After
  <2> QED BY <1>0, <2>1, StepIsPlace
<1>5. ASSUME at.part = "tag"
      PROVE  \/ at.n < Len(Field.tag) /\ StepTo("tag", at.k, at.f, at.n + 1)
             \/ ~(at.n < Len(Field.tag)) /\ StepTo("tagEnd", at.k, at.f, at.n + 1)
  <2>1. at' = Place(IF at.n < Len(Field.tag) THEN "tag" ELSE "tagEnd", at.k, at.f, at.n + 1)
    BY <1>5, Zenon DEF Consume, After
  <2>2. CASE at.n < Len(Field.tag)
    <3>1. at' = Place("tag", at.k, at.f, at.n + 1)
      BY <2>1, <2>2, Zenon
    <3> QED BY <1>0, <2>2, <3>1, StepIsPlace
  <2>3. CASE ~(at.n < Len(Field.tag))
    <3>1. at' = Place("tagEnd", at.k, at.f, at.n + 1)
      BY <2>1, <2>3, Zenon
    <3> QED BY <1>0, <2>3, <3>1, StepIsPlace
  <2> QED BY <2>2, <2>3
<1>6. ASSUME at.part = "tagEnd"  PROVE Step(":")
  <2>1. at' = [at EXCEPT !.part = ":"]
    BY <1>6, Zenon DEF Consume, After
  <2> QED BY <2>1, StepIsPart
<1>7. ASSUME at.part = "next"  PROVE StepTo("BEGIN", at.k + 1, 0, 0)
  <2>1. at' = Place("BEGIN", at.k + 1, 0, 0)
    BY <1>7, Zenon DEF Consume, After
  <2> QED BY <1>0, <2>1, StepIsPlace
<1>8. ASSUME at.part \in {"]", "400", "end"}  PROVE Step("end")
  <2>1. at' = [at EXCEPT !.part = "end"]
    BY <1>8 DEF Consume, After
  <2> QED BY <2>1, StepIsPart
<1> QED BY <1>1, <1>2, <1>3, <1>4, <1>5, <1>6, <1>7, <1>8

(* One symbol leads from a place of the answer to a place of the answer. *)
LEMMA PlaceStep ==
  ASSUME AtType, AnswerOK, PlaceOK, at.part \in Parts, Consume, UNCHANGED callVars
  PROVE  AtType' /\ AnswerOK' /\ PlaceOK' /\ at'.part \in Parts \cup {"end"}
<1>1. AnswerOK' /\ op' = op /\ reply' = reply
  BY DEF AnswerOK, callVars
<1>2. /\ Len(reply) \in Nat
      /\ op \in {"post", "poll"}
      /\ op = "poll" => Len(reply) = 1
  BY FieldFacts DEF AtType, AnswerOK
<1>3. /\ at.k \in Nat /\ at.f \in Nat /\ at.n \in Nat
  BY DEF AtType, IsPlace
<1> DEFINE D == AtType' /\ PlaceOK' /\ at'.part \in Parts \cup {"end"}
<1>4. ASSUME at.part = "200"  PROVE D
  <2>1. StepTo("header", 0, 0, 1)
    BY <1>4, StepElsewhere
  <2> QED BY <1>1, <1>2, <2>1
      DEF StepTo, PlaceOK, AtType, Parts, InList, OfEntries, OfFields
<1>5. ASSUME at.part = "header"  PROVE D
  <2>1. at.n \in 1 .. 9
    BY <1>5 DEF PlaceOK
  <2>2. \/ at.n < 9 /\ StepTo("header", at.k, at.f, at.n + 1)
        \/ at.n = 9 /\ op = "post" /\ StepTo("[", 0, 0, 0)
        \/ at.n = 9 /\ op = "poll" /\ StepTo("BEGIN", 1, 0, 0)
    BY <1>5, <2>1, StepInHeader
  <2>3. CASE at.n < 9 /\ StepTo("header", at.k, at.f, at.n + 1)
    BY <1>1, <1>2, <2>1, <2>3
      DEF StepTo, PlaceOK, AtType, Parts, InList, OfEntries, OfFields
  <2>4. CASE op = "post" /\ StepTo("[", 0, 0, 0)
    BY <1>1, <1>2, <2>4 DEF StepTo, PlaceOK, AtType, Parts, InList, OfEntries, OfFields
  <2>5. CASE op = "poll" /\ StepTo("BEGIN", 1, 0, 0)
    <3>1. Len(reply) = 1
      BY <1>2, <2>5, Zenon
    <3> QED BY <1>1, <2>5, <3>1
        DEF StepTo, PlaceOK, AtType, Parts, InList, OfEntries, OfFields
  <2> HIDE DEF D
  <2> QED BY <2>2, <2>3, <2>4, <2>5
<1>6. ASSUME at.part = "["  PROVE D
  <2>1. \/ reply = <<>> /\ Step("]")
        \/ reply # <<>> /\ StepTo("BEGIN", 1, 0, 0)
    BY <1>6, StepElsewhere
  <2>2. op = "post" /\ at.k = 0
    BY <1>6 DEF PlaceOK
  <2>3. reply # <<>> => 1 <= Len(reply)
    BY <2>2, EmptySeq DEF AnswerOK
  <2>4. Len(<<>>) = 0
    OBVIOUS
  <2> QED BY <1>1, <1>2, <1>3, <2>1, <2>2, <2>3, <2>4
      DEF Step, StepTo, PlaceOK, AtType, Parts, InList, OfEntries, OfFields
<1>7. ASSUME at.part \in {"BEGIN", "COMMA"}  PROVE D
  <2>1. StepTo("quote", at.k, at.f + 1, 0)
    BY <1>7, StepElsewhere
  <2>2. Len(reply[at.k]) \in Nat \ {0}
    BY <1>7, FieldFacts DEF OfEntries, OfFields
  <2> QED BY <1>1, <1>2, <1>3, <1>7, <2>1, <2>2
      DEF StepTo, PlaceOK, AtType, Parts, InList, OfEntries, OfFields
<1>8. ASSUME at.part \in {"quote", "tag", "tagEnd"}  PROVE D
  <2>1. /\ at.k \in 1 .. Len(reply) /\ at.f \in 1 .. Len(reply[at.k])
        /\ at.part = "tag" => at.n \in 1 .. Len(Field.tag)
    BY <1>8 DEF PlaceOK, OfEntries, OfFields
  <2>2. Len(Field.tag) \in Nat \ {0}
    BY <1>8, FieldFacts DEF OfFields
  <2>3. \/ at'.part = "tag" /\ at'.n \in 1 .. Len(Field.tag)
        \/ at'.part = "tagEnd" /\ at'.n = Len(Field.tag) + 1
        \/ at'.part = ":"
    BY <1>3, <1>8, <2>1, <2>2, StepElsewhere DEF Step, StepTo
  <2>4. IsPlace(at)' /\ at'.k = at.k /\ at'.f = at.f
    BY <1>8, StepElsewhere DEF Step, StepTo
  <2>5. Field' = Field
    BY <1>1, <2>4 DEF Field
  <2> QED BY <1>1, <1>2, <2>1, <2>3, <2>4, <2>5
      DEF PlaceOK, AtType, Parts, InList, OfEntries, OfFields
<1>9. ASSUME at.part = "next"  PROVE D
  <2>1. StepTo("BEGIN", at.k + 1, 0, 0)
    BY <1>9, StepElsewhere
  <2> QED BY <1>1, <1>2, <1>3, <1>9, <2>1
      DEF StepTo, PlaceOK, AtType, Parts, InList, OfEntries, OfFields
<1>10. ASSUME at.part = "]"  PROVE D
  <2>1. Step("end")
    BY <1>10, StepElsewhere
  <2> QED BY <1>1, <1>2, <1>3, <1>10, <2>1
      DEF Step, StepTo, PlaceOK, AtType, Parts, InList, OfEntries, OfFields
<1>11. ASSUME at.part \in OfFields, FieldEnds  PROVE D
  <2>1. at.f \in 1 .. Len(reply[at.k]) /\ at.k \in 1 .. Len(reply)
    BY <1>11 DEF PlaceOK, OfEntries
  <2>2. Len(reply[at.k]) \in Nat
    BY <1>11, FieldFacts DEF OfEntries
  <2>3. \/ at.f < Len(reply[at.k]) /\ Step("COMMA")
        \/ at.f = Len(reply[at.k]) /\ Step("END")
    BY <1>11, <2>1, <2>2 DEF FieldEnds
  <2> QED BY <1>1, <1>2, <1>3, <2>1, <2>2, <2>3
      DEF Step, StepTo, PlaceOK, AtType, Parts, InList, OfEntries, OfFields
<1>12. ASSUME at.part \in OfFields, NEW n \in 1 .. Len(Field.text) + 1, Char(n)
       PROVE  D
  <2>1. at.f \in 1 .. Len(reply[at.k]) /\ at.k \in 1 .. Len(reply)
    BY <1>12 DEF PlaceOK, OfEntries
  <2>2. Len(reply[at.k]) \in Nat /\ Len(Field.text) \in Nat
    BY <1>12, FieldFacts DEF OfEntries
  <2>3. CASE n <= Len(Field.text) /\ StepTo("text", at.k, at.f, n)
    <3>1. Field' = Field
      BY <1>1, <2>3 DEF StepTo, Field
    <3> QED BY <1>1, <1>2, <1>3, <2>1, <2>2, <2>3, <3>1
        DEF StepTo, PlaceOK, AtType, Parts, InList, OfEntries, OfFields
  <2>4. CASE n > Len(Field.text) /\ Field.quoted /\ StepTo("shut", at.k, at.f, n)
    <3>1. Field' = Field
      BY <1>1, <2>4 DEF StepTo, Field
    <3>2. n = Len(Field.text) + 1
      BY <2>2, <2>4
    <3> QED BY <1>1, <1>2, <1>3, <2>1, <2>2, <2>4, <3>1, <3>2
        DEF StepTo, PlaceOK, AtType, Parts, InList, OfEntries, OfFields
  <2> QED BY <1>11, <1>12, <2>3, <2>4 DEF Char
<1>13. ASSUME at.part \in {":", "open", "text", "shut"}  PROVE D
  <2>1. at.part \in OfFields /\ Len(Field.text) \in Nat
    BY <1>13, FieldFacts DEF OfFields
  <2>2. at.part = "text" => at.n \in 1 .. Len(Field.text)
    BY DEF PlaceOK
  <2>3. CASE Field.quoted /\ Step("open")
    <3>1. Field' = Field
      BY <1>1, <2>3 DEF Step, StepTo, Field
    <3> QED BY <1>1, <1>2, <1>3, <2>1, <2>3, <3>1
        DEF Step, StepTo, PlaceOK, AtType, Parts, InList, OfEntries, OfFields
  <2>4. \/ Field.quoted /\ Step("open")
        \/ Char(1)
        \/ at.part = "text" /\ Char(at.n + 1)
        \/ FieldEnds
    BY <1>13, <2>1, StepInText
  <2>5. 1 \in 1 .. Len(Field.text) + 1
    BY <2>1
  <2>6. at.part = "text" => at.n + 1 \in 1 .. Len(Field.text) + 1
    BY <2>1, <2>2
  <2> HIDE DEF D
  <2> QED BY <1>11, <1>12, <2>1, <2>3, <2>4, <2>5, <2>6
<1>14. ASSUME at.part = "END"  PROVE D
  <2>1. at.part \in OfFields /\ at.k \in 1 .. Len(reply) /\ at.f = Len(reply[at.k])
    BY <1>14 DEF OfFields, OfEntries, PlaceOK
  <2>2. \/ at.k < Len(reply) /\ Step("next")
        \/ at.k >= Len(reply) /\ op = "post" /\ Step("]")
        \/ at.k >= Len(reply) /\ op = "poll" /\ Step("end")
    BY <1>14, <2>1, StepInText
  <2>3. Len(reply[at.k]) \in Nat \ {0}
    BY <2>1, FieldFacts DEF OfEntries
  <2>4. CASE at.k < Len(reply) /\ Step("next")
    <3>1. op = "post"
      <4>1. ASSUME op = "poll"  PROVE FALSE
        <5>1. Len(reply) = 1
          BY <1>2, <4>1, Zenon
        <5> QED BY <2>1, <2>4, <5>1
      <4> QED BY <1>2, <4>1
    <3> QED BY <1>1, <1>2, <1>3, <2>1, <2>3, <2>4, <3>1
        DEF Step, StepTo, PlaceOK, AtType, Parts, InList, OfEntries, OfFields
  <2>5. CASE at.k >= Len(reply) /\ op = "post" /\ Step("]")
    BY <1>1, <1>2, <1>3, <2>1, <2>3, <2>5
      DEF Step, StepTo, PlaceOK, AtType, Parts, InList, OfEntries, OfFields
  <2>6. CASE at.k >= Len(reply) /\ op = "poll" /\ Step("end")
    <3>1. Len(reply) = 1
      BY <1>2, <2>6, Zenon
    <3> QED BY <1>1, <1>3, <2>1, <2>3, <2>6, <3>1
        DEF Step, StepTo, PlaceOK, AtType, Parts, InList, OfEntries, OfFields
  <2> HIDE DEF D
  <2> QED BY <2>2, <2>4, <2>5, <2>6
<1> HIDE DEF D
<1>15. D
  BY <1>4, <1>5, <1>6, <1>7, <1>8, <1>9, <1>10, <1>13, <1>14
    DEF Parts, InList, OfEntries, OfFields
<1> QED BY <1>1, <1>15 DEF D

(* What the server says of an entry of a list. *)
LEMMA EntrySays ==
  ASSUME AnswerOK, op = "post",
         NEW k \in 1 .. Len(reply), NEW f \in 1 .. Len(reply[k])
  PROVE  /\ reply[k][f].tag \in Seq(EntryLetters \ {":"})
         /\ reply[k][f].text \in Seq(EntryLetters)
         /\ ~reply[k][f].quoted => /\ reply[k][f].text # <<>>
                                   /\ Member(reply[k][f].tag) \notin Saved
                                   /\ f < Len(reply[k])
<1>1. reply[k] \in Instances
  BY EntryFacts
<1>2. /\ reply[k] \in Seq(Fields(EntryLetters \ {":"}, EntryLetters))
      /\ reply[k][Len(reply[k])].quoted
      /\ \A g \in DOMAIN reply[k] :
           \/ reply[k][g].quoted
           \/ reply[k][g].text # <<>> /\ Member(reply[k][g].tag) \notin Saved
  BY <1>1, InstancesAssumption, Zenon
<1>3. reply[k][f] \in Fields(EntryLetters \ {":"}, EntryLetters)
  BY <1>2, ElementOfSeq
<1>4. f \in DOMAIN reply[k] /\ Len(reply[k]) \in Nat
  BY <1>2, LenProperties
<1>5. ~reply[k][f].quoted => f # Len(reply[k])
  BY <1>2, Zenon
<1>6. ~reply[k][f].quoted => reply[k][f].text # <<>> /\ Member(reply[k][f].tag) \notin Saved
  BY <1>2, <1>4, Zenon
<1>7. ~reply[k][f].quoted => f < Len(reply[k])
  BY <1>4, <1>5
<1>8. /\ reply[k][f].tag \in Seq(EntryLetters \ {":"})
      /\ reply[k][f].text \in Seq(EntryLetters)
  BY <1>3 DEF Fields
<1> QED BY <1>6, <1>7, <1>8

Quoting == {"quote", "tagEnd", "open", "shut"}

(* The symbol of each part. *)
LEMMA SymbolOf ==
  ASSUME AtType, AnswerOK, PlaceOK
  PROVE  /\ at.part = "header" => Symbol \in {"CR", "LF", "x", ":"}
         /\ at.part \in Quoting => Symbol = "Q"
         /\ at.part = "tag" => Symbol = Field.tag[at.n] /\ Symbol \in Letters
         /\ at.part = "text" => Symbol = Field.text[at.n] /\ Symbol \in Letters
         /\ at.part = "next" => Symbol = "COMMA"
         /\ at.part \in {"200", "400", "[", "]", "BEGIN", "END", "COMMA", ":"} => Symbol = at.part
<1>1. ASSUME at.part = "header"  PROVE Symbol \in {"CR", "LF", "x", ":"}
  <2>1. Symbol = Headers[at.n]
    BY <1>1, Zenon DEF Symbol
  <2>2. at.n \in 1 .. 9
    BY <1>1 DEF PlaceOK
  <2> QED BY <2>1, <2>2 DEF Headers
<1>2. ASSUME at.part \in Quoting  PROVE Symbol = "Q"
  BY <1>2 DEF Symbol, Quoting
<1>3. ASSUME at.part = "tag"  PROVE Symbol = Field.tag[at.n] /\ Symbol \in Letters
  <2>1. Symbol = Field.tag[at.n]
    BY <1>3, Zenon DEF Symbol
  <2>2. Field.tag \in Seq(Letters)
    BY <1>3, FieldFacts DEF OfFields, SomeField
  <2>3. at.n \in 1 .. Len(Field.tag)
    BY <1>3 DEF PlaceOK
  <2>4. Field.tag[at.n] \in Letters
    BY <2>2, <2>3, ElementOfSeq
  <2> QED BY <2>1, <2>4
<1>4. ASSUME at.part = "text"  PROVE Symbol = Field.text[at.n] /\ Symbol \in Letters
  <2>1. Symbol = Field.text[at.n]
    BY <1>4, Zenon DEF Symbol
  <2>2. Field.text \in Seq(Letters)
    BY <1>4, FieldFacts DEF OfFields, SomeField
  <2>3. at.n \in 1 .. Len(Field.text)
    BY <1>4 DEF PlaceOK
  <2>4. Field.text[at.n] \in Letters
    BY <2>2, <2>3, ElementOfSeq
  <2> QED BY <2>1, <2>4
<1>5. ASSUME at.part = "next"  PROVE Symbol = "COMMA"
  BY <1>5, Zenon DEF Symbol
<1>6. ASSUME at.part \in {"200", "400", "[", "]", "BEGIN", "END", "COMMA", ":"}
      PROVE  Symbol = at.part
  BY <1>6 DEF Symbol
<1> QED BY <1>1, <1>2, <1>3, <1>4, <1>5, <1>6

(* The parsers keep their place by these symbols. *)
LEMMA QuoteFacts ==
  ASSUME AtType, AnswerOK, PlaceOK, at.part \in Parts
  PROVE  /\ Symbol = "Q" <=> at.part \in Quoting
         /\ Symbol \in {"CR", "LF"} => at.part = "header"
<1>1. at.part \in Quoting \/ at.part \in {"header", "tag", "text", "next"}
      \/ at.part \in {"200", "400", "[", "]", "BEGIN", "END", "COMMA", ":"}
  BY DEF Parts, InList, OfEntries, OfFields, Quoting
<1>2. CASE at.part \in Quoting
  BY <1>2, SymbolOf DEF Quoting
<1>3. CASE at.part \in {"header", "tag", "text", "next"}
  <2>1. Symbol \in {"CR", "LF", "x", ":", "COMMA"} \/ Symbol \in Letters
    BY <1>3, SymbolOf
  <2>2. Symbol # "Q"
    BY <2>1 DEF Letters
  <2>3. at.part \notin Quoting
    BY <1>3 DEF Quoting
  <2>4. CASE at.part # "header"
    <3>1. Symbol = "COMMA" \/ Symbol \in Letters
      BY <1>3, <2>4, SymbolOf
    <3> QED BY <2>2, <2>3, <3>1 DEF Letters
  <2> QED BY <2>2, <2>3, <2>4
<1>4. CASE at.part \in {"200", "400", "[", "]", "BEGIN", "END", "COMMA", ":"}
  <2>1. Symbol = at.part
    BY <1>4, SymbolOf
  <2> QED BY <1>4, <2>1 DEF Quoting
<1> QED BY <1>1, <1>2, <1>3, <1>4

(* In a list the braces, brackets and commas are those of the list: no tag *)
(* and no value can pass for one.                                          *)
LEMMA ListFacts ==
  ASSUME AtType, AnswerOK, PlaceOK, op = "post", at.part \in InList
  PROVE  /\ Symbol = "[" <=> at.part = "["
         /\ Symbol = "]" <=> at.part = "]"
         /\ Symbol = "BEGIN" <=> at.part = "BEGIN"
         /\ Symbol = "COMMA" <=> at.part \in {"COMMA", "next"}
         /\ Symbol = ":" => at.part \in {":", "text"}
<1>0. ASSUME at.part \in {"tag", "text"}
      PROVE  /\ Symbol \in EntryLetters
             /\ at.part = "tag" => Symbol # ":"
  <2>1. at.k \in 1 .. Len(reply) /\ at.f \in 1 .. Len(reply[at.k])
    BY <1>0 DEF PlaceOK, OfEntries, OfFields
  <2>2. Field.tag \in Seq(EntryLetters \ {":"}) /\ Field.text \in Seq(EntryLetters)
    BY <2>1, EntrySays DEF Field
  <2>3. ASSUME at.part = "text"  PROVE Symbol \in EntryLetters
    <3>1. at.n \in 1 .. Len(Field.text)
      BY <2>3 DEF PlaceOK
    <3>2. Field.text[at.n] \in EntryLetters
      BY <2>2, <3>1, ElementOfSeq
    <3> QED BY <2>3, <3>2, SymbolOf
  <2>4. ASSUME at.part = "tag"  PROVE Symbol \in EntryLetters \ {":"}
    <3>1. at.n \in 1 .. Len(Field.tag)
      BY <2>4 DEF PlaceOK
    <3>2. Field.tag[at.n] \in EntryLetters \ {":"}
      BY <2>2, <3>1, ElementOfSeq
    <3> QED BY <2>4, <3>2, SymbolOf
  <2> QED BY <1>0, <2>3, <2>4
<1>1. at.part \in Quoting \/ at.part \in {"tag", "text"} \/ at.part = "next"
      \/ at.part \in {"[", "]", "BEGIN", "END", "COMMA", ":"}
  BY DEF InList, OfEntries, OfFields, Quoting
<1>2. CASE at.part \in Quoting
  <2>1. Symbol = "Q"
    BY <1>2, SymbolOf
  <2> QED BY <1>2, <2>1 DEF Quoting
<1>3. CASE at.part = "tag"
  BY <1>0, <1>3 DEF EntryLetters, Letters
<1>4. CASE at.part = "text"
  BY <1>0, <1>4 DEF EntryLetters, Letters
<1>5. CASE at.part = "next"
  BY <1>5, SymbolOf
<1>6. CASE at.part \in {"[", "]", "BEGIN", "END", "COMMA", ":"}
  <2>1. Symbol = at.part
    BY <1>6, SymbolOf
  <2> QED BY <1>6, <2>1
<1> QED BY <1>1, <1>2, <1>3, <1>4, <1>5, <1>6

(* From the body nothing leads back to the headers. *)
LEMMA BodyStep ==
  ASSUME AtType, AnswerOK, PlaceOK, at.part \in InList, Consume, UNCHANGED callVars
  PROVE  at'.part \in InList \cup {"end"}
<1> DEFINE Out == at'.part \notin {"200", "header"}
<1>1. ASSUME at.part \in {":", "open", "text", "shut", "END"}  PROVE Out
  <2>1. at.part \in OfFields
    BY <1>1 DEF OfFields
  <2>2. \/ Step("open") \/ Char(1) \/ Char(at.n + 1) \/ FieldEnds
        \/ Step("next") \/ Step("]") \/ Step("end")
    BY <1>1, <2>1, StepInText
  <2> QED BY <2>2 DEF Char, FieldEnds, Step, StepTo
<1>2. ASSUME at.part \in {"[", "BEGIN", "COMMA", "quote", "tag", "tagEnd", "next", "]"}
      PROVE Out
  <2>1. \/ Step("]") \/ StepTo("BEGIN", 1, 0, 0) \/ StepTo("quote", at.k, at.f + 1, 0)
        \/ StepTo("tag", at.k, at.f, 1) \/ StepTo("tag", at.k, at.f, at.n + 1)
        \/ StepTo("tagEnd", at.k, at.f, at.n + 1) \/ Step(":")
        \/ StepTo("BEGIN", at.k + 1, 0, 0) \/ Step("end")
    BY <1>2, StepElsewhere
  <2> QED BY <2>1 DEF Step, StepTo
<1>3. at.part \in Parts
  BY DEF Parts
<1>4. at'.part \in Parts \cup {"end"}
  BY <1>3, PlaceStep
<1>5. Out
  BY <1>1, <1>2 DEF InList, OfEntries, OfFields
<1> QED BY <1>4, <1>5 DEF Parts

----------------------------------------------------------------------------
(* read_http_headers, and what all steps that read have in common.         *)

(* A step that reads a symbol, or none. *)
Reads == UNCHANGED callVars /\ ((~Ended /\ Consume) \/ at' = at)

(* A step that reads nothing leaves the place as it is. *)
LEMMA SamePlace ==
  ASSUME AtType, UNCHANGED callVars, at' = at
  PROVE  AtType' /\ Field' = Field /\ (AnswerOK => AnswerOK') /\ (PlaceOK => PlaceOK')
<1>1. op' = op /\ size' = size /\ reply' = reply
  BY DEF callVars
<1>2. Field' = Field
  BY <1>1 DEF Field
<1> QED BY <1>1, <1>2 DEF AtType, IsPlace, AnswerOK, PlaceOK

(* A step that reads keeps the cursor in the answer. *)
LEMMA ReadPlace ==
  ASSUME PlaceInv, Reads, pc' \notin Requests, i' = 4 => Answered,
         i = 4 => at.part # "400"
  PROVE  PlaceInv'
<1>0. AtType /\ (Answered => AnswerOK /\ PlaceOK) /\ at.part \in Parts \cup {"400", "end"}
  BY DEF PlaceInv
<1>1. CASE at' = at
  <2>1. AtType' /\ (AnswerOK => AnswerOK') /\ (PlaceOK => PlaceOK')
    BY <1>0, <1>1, SamePlace DEF Reads
  <2>2. Answered' => Answered
    BY <1>1 DEF Answered
  <2> QED BY <1>0, <1>1, <2>1, <2>2 DEF PlaceInv
<1>2. CASE ~Ended /\ Consume /\ at.part \in Parts
  <2>1. AnswerOK /\ PlaceOK
    BY <1>0, <1>2 DEF Answered
  <2>2. AtType' /\ AnswerOK' /\ PlaceOK' /\ at'.part \in Parts \cup {"end"}
    BY <1>0, <1>2, <2>1, PlaceStep DEF Reads
  <2> QED BY <2>2 DEF PlaceInv
<1>3. CASE ~Ended /\ Consume /\ at.part = "400"
  <2>1. Step("end")
    BY <1>0, <1>3, StepElsewhere
  <2>2. ~Answered'
    BY <1>3, <2>1 DEF Step, StepTo, Answered, Parts, InList, OfEntries, OfFields
  <2>3. AtType'
    BY <1>0, <2>1 DEF Step, StepTo, AtType, Reads, callVars
  <2>4. at'.part = "end"
    BY <2>1 DEF Step, StepTo
  <2> QED BY <2>2, <2>3, <2>4 DEF PlaceInv
<1> QED BY <1>0, <1>1, <1>2, <1>3 DEF Reads, Ended

(* A symbol that is waited for in vain was late, or there is none. *)
LEMMA TimeFacts ==
  ASSUME late \in Nat, s \in Int, UNCHANGED <<s, plain>>, Available \/ TimesOut
  PROVE  /\ late' \in Nat
         /\ InTime' => InTime
         /\ TimesOut /\ InTime' => at.part = "end"
         /\ Available => ~Ended
<1>1. late' \in Nat
  BY DEF Available, TimesOut
<1>2. InTime' => InTime
  BY <1>1 DEF Available, TimesOut, InTime
<1>3. ASSUME TimesOut, InTime'  PROVE at.part = "end"
  <2>1. late' # late + 1 /\ ~(s < 0)
    BY <1>3 DEF InTime
  <2> QED BY <1>3, <2>1 DEF TimesOut, Ended
<1>4. Available => ~Ended
  BY DEF Available
<1> QED BY <1>1, <1>2, <1>3, <1>4

(* Before the end of the headers is found, the rest of the invariant is empty. *)
LEMMA NotYet ==
  ASSUME PlaceInv', HeaderInv', FreshInv', i' # 4
  PROVE  ReadInv'
BY DEF ReadInv

(* read_http_headers waits for the first character. *)
LEMMA FirstStep ==
  ASSUME ReadInv, s \in Int, First
  PROVE  ReadInv'
<1>1. pc = "first" /\ pc' \in {"status", "closeEarly"} /\ at' = at /\ i' = i
  BY DEF First, FailHeaders
<1>2. UNCHANGED <<callVars, s, plain, stored, elsewhere, astray, output>>
  BY DEF First, headersKeep, callVars, netVars, parseVars, arrayVars, pollVars
<1>3. PlaceInv /\ HeaderInv /\ FreshInv
  BY DEF ReadInv
<1>4. (Available /\ pc' = "status") \/ TimesOut
  BY DEF First
<1>5. late' \in Nat /\ (InTime' => InTime) /\ (TimesOut /\ InTime' => at.part = "end")
  BY <1>2, <1>3, <1>4, TimeFacts DEF HeaderInv
<1>6. i # 4 /\ i' # 4
  BY <1>1, <1>3 DEF HeaderInv, Reading, ListPcs, PollPcs
<1>7. PlaceInv'
  BY <1>1, <1>2, <1>3, <1>6, ReadPlace DEF Reads, Requests, Before
<1>8. HeaderInv'
  <2>1. InTime' => pc' = "status" /\ at'.part = "200"
    BY <1>1, <1>3, <1>4, <1>5 DEF HeaderInv
  <2> QED BY <1>1, <1>5, <1>6, <2>1 DEF HeaderInv, Reading, ListPcs, PollPcs
<1>9. FreshInv'
  BY <1>1, <1>2, <1>3 DEF FreshInv, Reading, ListPcs, PollPcs
<1> QED BY <1>6, <1>7, <1>8, <1>9, NotYet

(* It reads the status. *)
LEMMA StatusStep ==
  ASSUME ReadInv, s \in Int, Status
  PROVE  ReadInv'
<1>1. pc = "status" /\ pc' \in {"skip", "closeEarly"} /\ i' = i
  BY DEF Status, FailHeaders
<1>2. UNCHANGED <<callVars, s, plain, stored, elsewhere, astray, output>>
  BY DEF Status, headersKeep, callVars, netVars, parseVars, arrayVars, pollVars
<1>3. PlaceInv /\ HeaderInv /\ FreshInv
  BY DEF ReadInv
<1>4. \/ Available /\ Consume /\ (Symbol # "400" => pc' = "skip")
      \/ TimesOut /\ at' = at
  BY DEF Status
<1>5. late' \in Nat /\ (InTime' => InTime) /\ (TimesOut /\ InTime' => at.part = "end")
      /\ (Available => ~Ended)
  BY <1>2, <1>3, <1>4, TimeFacts DEF HeaderInv
<1>6. i # 4 /\ i' # 4
  BY <1>1, <1>3 DEF HeaderInv, Reading, ListPcs, PollPcs
<1>7. PlaceInv'
  BY <1>1, <1>2, <1>3, <1>4, <1>5, <1>6, ReadPlace DEF Reads, Requests, Before
<1>8. HeaderInv'
  <2>1. ASSUME InTime'
        PROVE  pc' = "skip" /\ at'.part = "header" /\ at'.n \in {1, 3, 4, 5, 6}
    <3>1. at.part = "200"
      BY <1>1, <1>3, <1>5, <2>1 DEF HeaderInv
    <3>2. AtType /\ AnswerOK /\ PlaceOK
      BY <1>3, <3>1 DEF PlaceInv, Answered, Parts
    <3>3. (Symbol = "200" /\ StepTo("header", 0, 0, 1)) \/ TimesOut
      BY <1>4, <3>1, <3>2, SymbolOf, StepElsewhere
    <3>4. Available /\ Consume /\ (Symbol # "400" => pc' = "skip") /\ ~TimesOut
      BY <1>4, <1>5, <2>1, <3>1
    <3> QED BY <3>3, <3>4 DEF StepTo
  <2> QED BY <1>1, <1>5, <1>6, <2>1 DEF HeaderInv, Reading, ListPcs, PollPcs
<1>9. FreshInv'
  BY <1>1, <1>2, <1>3 DEF FreshInv, Reading, ListPcs, PollPcs
<1> QED BY <1>6, <1>7, <1>8, <1>9, NotYet

(* Where the ending begins. *)
LEMMA HeaderSymbol ==
  ASSUME at.part = "header", at.n \in 1 .. 9
  PROVE  /\ Symbol = "CR" <=> at.n \in {1, 6, 8}
         /\ Symbol = "LF" <=> at.n \in {2, 7, 9}
<1>1. Symbol = Headers[at.n]
  BY Zenon DEF Symbol
<1> QED BY <1>1 DEF Headers

(* It skips to a character that can begin the end of the headers. *)
LEMMA SkipStep ==
  ASSUME ReadInv, s \in Int, Skip
  PROVE  ReadInv'
<1>1. pc = "skip" /\ pc' \in {"match", "skip", "parseStart", "pollFirst"}
  BY DEF Skip, Body
<1>2. UNCHANGED <<callVars, s, plain, stored, elsewhere, astray, output>>
  BY DEF Skip, headersKeep, callVars, netVars, parseVars, arrayVars, pollVars
<1>3. PlaceInv /\ HeaderInv /\ FreshInv
  BY DEF ReadInv
<1>4. \/ Available /\ Consume /\ Symbol = "CR" /\ pc' = "match" /\ i' = 1
      \/ Available /\ Consume /\ Symbol # "CR" /\ pc' = pc /\ i' = i
      \/ TimesOut /\ pc' = Body /\ at' = at /\ i' = i
  BY DEF Skip, Ending
<1>5. late' \in Nat /\ (InTime' => InTime) /\ (TimesOut /\ InTime' => at.part = "end")
      /\ (Available => ~Ended)
  BY <1>2, <1>3, <1>4, TimeFacts DEF HeaderInv
<1>6. i # 4 /\ i' # 4
  BY <1>1, <1>3, <1>4 DEF HeaderInv, Reading, ListPcs, PollPcs
<1>7. PlaceInv'
  BY <1>1, <1>2, <1>3, <1>4, <1>5, <1>6, ReadPlace DEF Reads, Requests, Before
<1>8. FreshInv'
  BY <1>1, <1>2, <1>3 DEF FreshInv, Reading, ListPcs, PollPcs
<1>9. CASE Available /\ Consume /\ Symbol = "CR" /\ pc' = "match" /\ i' = 1
  <2>1. at.part \in Parts \/ at.part = "400"
    BY <1>3, <1>5, <1>9 DEF PlaceInv, Ended
  <2>2. at.part # "400"
    <3>1. at.part = "400" => Symbol = "400"
      BY Zenon DEF Symbol
    <3> QED BY <1>9, <3>1
  <2>3. AtType /\ AnswerOK /\ PlaceOK /\ at.part \in Parts
    BY <1>3, <2>1, <2>2 DEF PlaceInv, Answered
  <2>4. at.part = "header" /\ at.n \in 1 .. 9
    BY <1>9, <2>3, QuoteFacts DEF PlaceOK
  <2>5. at.n \in {1, 6, 8}
    BY <1>9, <2>4, HeaderSymbol
  <2>6. StepTo("header", at.k, at.f, at.n + 1)
    BY <1>9, <2>3, <2>4, <2>5, StepInHeader
  <2>7. at'.part = "header" /\ <<i', at'.n>> \in {<<1, 2>>, <<1, 7>>, <<1, 9>>}
    BY <1>9, <2>5, <2>6 DEF StepTo
  <2>8. InTime' => <<i', at'.n>> # <<1, 9>>
    BY <1>1, <1>3, <1>5, <2>5, <2>6 DEF HeaderInv, StepTo
  <2>9. HeaderInv'
    BY <1>5, <1>9, <2>7, <2>8 DEF HeaderInv, Matches, Reading, ListPcs, PollPcs
  <2> QED BY <1>6, <1>7, <1>8, <2>9, NotYet
<1>10. CASE Available /\ Consume /\ Symbol # "CR" /\ pc' = pc /\ i' = i
  <2>1. ASSUME InTime'  PROVE at'.part = "header" /\ at'.n \in {1, 3, 4, 5, 6}
    <3>1. at.part = "header" /\ at.n \in {1, 3, 4, 5, 6}
      BY <1>1, <1>3, <1>5, <2>1 DEF HeaderInv
    <3>2. at.n \in {3, 4, 5}
      BY <1>10, <3>1, HeaderSymbol
    <3>3. StepTo("header", at.k, at.f, at.n + 1)
      BY <1>3, <1>10, <3>1, <3>2, StepInHeader DEF PlaceInv
    <3> QED BY <3>2, <3>3 DEF StepTo
  <2>2. HeaderInv'
    BY <1>1, <1>5, <1>6, <1>10, <2>1 DEF HeaderInv, Reading, ListPcs, PollPcs
  <2> QED BY <1>6, <1>7, <1>8, <2>2, NotYet
<1>11. CASE TimesOut /\ pc' = Body /\ at' = at /\ i' = i
  <2>1. ~InTime'
    BY <1>1, <1>3, <1>5, <1>11 DEF HeaderInv
  <2>2. pc' \in {"parseStart", "pollFirst"}
    BY <1>11 DEF Body
  <2>3. HeaderInv'
    BY <1>5, <1>6, <2>1, <2>2 DEF HeaderInv
  <2> QED BY <1>6, <1>7, <1>8, <2>3, NotYet
<1> QED BY <1>4, <1>9, <1>10, <1>11

(* It finds the rest of that end, in its place and no other. *)
LEMMA MatchStep ==
  ASSUME ReadInv, s \in Int, Match
  PROVE  ReadInv'
<1>1. pc = "match"
  BY DEF Match
<1>2. UNCHANGED <<callVars, s, plain, stored, elsewhere, astray, output>>
  BY DEF Match, headersKeep, callVars, netVars, parseVars, arrayVars, pollVars
<1>3. PlaceInv /\ HeaderInv /\ FreshInv
  BY DEF ReadInv
<1>4. i \in 1 .. 3
  BY <1>1, <1>3 DEF HeaderInv
<1>5. \/ Available /\ Consume /\ Symbol = Ending[i + 1] /\ i' = i + 1
           /\ pc' = IF i' = 4 THEN Body ELSE "match"
      \/ Available /\ Symbol # Ending[i + 1] /\ pc' = "skip" /\ at' = at /\ i' = i
      \/ TimesOut /\ pc' = "skip" /\ at' = at /\ i' = i
  BY DEF Match
<1>6. late' \in Nat /\ (InTime' => InTime) /\ (TimesOut /\ InTime' => at.part = "end")
      /\ (Available => ~Ended)
  BY <1>2, <1>3, <1>5, TimeFacts DEF HeaderInv
<1>7. Ending[2] = "LF" /\ Ending[3] = "CR" /\ Ending[4] = "LF"
  BY DEF Ending
<1>8. CASE Available /\ Consume /\ Symbol = Ending[i + 1] /\ i' = i + 1
             /\ pc' = IF i' = 4 THEN Body ELSE "match"
  <2>1. Symbol \in {"CR", "LF"}
    BY <1>4, <1>7, <1>8
  <2>2. at.part # "400"
    <3>1. at.part = "400" => Symbol = "400"
      BY Zenon DEF Symbol
    <3> QED BY <2>1, <3>1
  <2>3. AtType /\ AnswerOK /\ PlaceOK /\ at.part \in Parts
    BY <1>3, <1>6, <1>8, <2>2 DEF PlaceInv, Answered, Ended
  <2>4. at.part = "header" /\ at.n \in 1 .. 9 /\ <<i, at.n>> \in Matches
    BY <1>1, <1>3, <2>1, <2>3, QuoteFacts DEF PlaceOK, HeaderInv
  <2>5. \/ i = 1 /\ at.n \in {2, 7, 9}
        \/ i = 2 /\ at.n = 8
        \/ i = 3 /\ at.n = 9
    BY <1>4, <1>7, <1>8, <2>4, HeaderSymbol DEF Matches
  <2>6. PlaceInv'
    BY <1>1, <1>2, <1>3, <1>6, <1>8, <2>2, <2>3, ReadPlace
    DEF Reads, Requests, Before, Body, Answered
  <2>7. CASE i = 3
    <3>1. at.n = 9 /\ i' = 4 /\ pc' = Body
      BY <1>8, <2>5, <2>7
    <3>2. \/ op = "post" /\ at'.part = "[" /\ pc' = "parseStart"
          \/ op = "poll" /\ at'.part = "BEGIN" /\ pc' = "pollFirst"
      BY <1>8, <2>3, <2>4, <3>1, StepInHeader DEF StepTo, Body
    <3>3. op' = op
      BY <1>2 DEF callVars
    <3>4. HeaderInv'
      BY <1>6, <3>1, <3>2, <3>3 DEF HeaderInv, Reading, ListPcs, PollPcs
    <3>5. FreshInv'
      BY <1>1, <1>2, <1>3 DEF FreshInv, Reading, ListPcs, PollPcs
    <3>6. (pc' = "parseStart" => at'.part = "[") /\ (op' = "post" => pc' = "parseStart")
      BY <3>2, <3>3
    <3>7. op' = "poll" => PollInv'
      BY <3>2, <3>3 DEF PollInv
    <3> QED BY <2>6, <3>4, <3>5, <3>6, <3>7 DEF ReadInv
  <2>8. CASE i # 3
    <3>1. i' \in {2, 3} /\ i' # 4 /\ pc' = "match"
      <4>1. i' \in {2, 3}
        BY <1>8, <2>5, <2>8
      <4> QED BY <1>8, <4>1
    <3>2. \/ at'.part = "header" /\ at'.n = at.n + 1
          \/ i = 1 /\ at.n = 9 /\ at'.part \in {"[", "BEGIN"}
      <4>1. \/ at.n < 9 /\ StepTo("header", at.k, at.f, at.n + 1)
            \/ at.n = 9 /\ at'.part \in {"[", "BEGIN"}
        BY <1>8, <2>3, <2>4, StepInHeader DEF StepTo
      <4>2. at.n = 9 => i = 1
        BY <2>5, <2>8
      <4>3. CASE StepTo("header", at.k, at.f, at.n + 1)
        <5>1. at'.part = "header" /\ at'.n = at.n + 1
          BY <4>3 DEF StepTo
        <5> QED BY <5>1
      <4>4. CASE at.n = 9 /\ at'.part \in {"[", "BEGIN"}
        BY <4>2, <4>4
      <4> QED BY <4>1, <4>3, <4>4
    <3>3. \/ i' = 2 /\ at'.part = "header" /\ at'.n \in {3, 8}
          \/ i' = 2 /\ at'.part \in {"[", "BEGIN"}
          \/ i' = 3 /\ at'.part = "header" /\ at'.n = 9
      <4>1. CASE i = 1 /\ at.n \in {2, 7}
        BY <1>8, <3>2, <4>1
      <4>2. CASE i = 1 /\ at.n = 9
        <5>1. at'.part \in {"[", "BEGIN"}
          BY <1>8, <2>3, <2>4, <4>2, StepInHeader DEF StepTo
        <5> QED BY <1>8, <4>2, <5>1
      <4>3. CASE i = 2 /\ at.n = 8
        BY <1>8, <3>2, <4>3
      <4> QED BY <2>5, <2>8, <4>1, <4>2, <4>3
    <3>4. InTime' => at'.part = "header"
      BY <1>1, <1>3, <1>6, <2>5, <3>2 DEF HeaderInv
    <3>5. HeaderInv'
      BY <1>6, <3>1, <3>3, <3>4 DEF HeaderInv, Matches, Reading, ListPcs, PollPcs
    <3>6. FreshInv'
      BY <1>1, <1>2, <1>3, <3>1 DEF FreshInv, Reading, ListPcs, PollPcs
    <3> QED BY <2>6, <3>1, <3>5, <3>6, NotYet
  <2> QED BY <2>7, <2>8
<1>9. CASE ((Available /\ Symbol # Ending[i + 1]) \/ TimesOut) /\ pc' = "skip" /\ at' = at /\ i' = i
  <2>1. i # 4 /\ i' # 4
    BY <1>4, <1>9
  <2>2. PlaceInv'
    BY <1>1, <1>2, <1>3, <1>9, <2>1, ReadPlace DEF Reads, Requests, Before
  <2>3. ASSUME InTime'  PROVE at'.part = "header" /\ at'.n \in {1, 3, 4, 5, 6}
    <3>1. at.part = "header" /\ <<i, at.n>> \in Matches /\ <<i, at.n>> # <<1, 9>>
      BY <1>1, <1>3, <1>6, <2>3 DEF HeaderInv
    <3>2. Symbol # Ending[i + 1]
      BY <1>6, <1>9, <2>3, <3>1
    <3>3. at.n \in 1 .. 9 /\ ~(at.n \in {2, 7, 9} /\ i \in {1, 3}) /\ ~(at.n = 8 /\ i = 2)
      BY <1>7, <3>1, <3>2, HeaderSymbol DEF Matches
    <3> QED BY <1>9, <3>1, <3>3 DEF Matches
  <2>4. HeaderInv'
    BY <1>6, <1>9, <2>1, <2>3 DEF HeaderInv, Reading, ListPcs, PollPcs
  <2>5. FreshInv'
    BY <1>1, <1>2, <1>3, <1>9 DEF FreshInv, Reading, ListPcs, PollPcs
  <2> QED BY <2>1, <2>2, <2>4, <2>5, NotYet
<1> QED BY <1>5, <1>8, <1>9

----------------------------------------------------------------------------
(* read_and_parse: the entries that are begun, and the fields that are     *)
(* past.                                                                   *)

(* The parser of a list at work, behind the headers. *)
InBody == ReadInv /\ s \in Int /\ i = 4 /\ op = "post"

(* What the parser of a list may take for granted of the answer. *)
LEMMA BodyFacts ==
  ASSUME InBody
  PROVE  /\ AtType /\ AnswerOK /\ PlaceOK
         /\ at.part \in InList \cup {"end"}
         /\ Len(reply) \in Nat /\ at.k \in Nat /\ at.f \in Nat /\ at.n \in Nat
         /\ late \in Nat
<1>1. PlaceInv /\ HeaderInv
  BY DEF InBody, ReadInv
<1>2. AtType /\ AnswerOK /\ PlaceOK
  BY <1>1 DEF InBody, PlaceInv, Answered
<1>3. at.part \in InList \cup {"end"}
  BY <1>1 DEF InBody, PlaceInv, HeaderInv, Parts
<1>4. Len(reply) \in Nat
  BY <1>2, LenProperties DEF InBody, AnswerOK
<1> QED BY <1>1, <1>2, <1>3, <1>4 DEF AtType, IsPlace, HeaderInv

(* An entry begins with its brace. *)
LEMMA BegunStep ==
  ASSUME InBody, ~Ended, Consume
  PROVE  /\ Begun \in Nat
         /\ at.part = "BEGIN" => Begun' = Begun + 1
         /\ at.part # "BEGIN" => Begun' = Begun
         /\ at'.part # "["
<1>1. /\ AtType /\ AnswerOK /\ PlaceOK /\ at.part \in InList
      /\ at.k \in Nat /\ at.f \in Nat /\ at.n \in Nat
  BY BodyFacts DEF Ended
<1>2. at.part = "[" => at.k = 0
  BY <1>1 DEF PlaceOK
<1>3. at.part \in OfEntries => at.k >= 1
  <2>1. Len(reply) \in Nat
    BY BodyFacts
  <2> QED BY <1>1, <2>1 DEF PlaceOK
<1>4. ASSUME at.part \in {":", "open", "text", "shut", "END"}
      PROVE  at'.k = at.k /\ at'.part \notin {"[", "BEGIN"}
  <2>1. at.part \in OfFields
    BY <1>4 DEF OfFields
  <2>2. \/ Step("open") \/ Char(1) \/ Char(at.n + 1) \/ FieldEnds
        \/ Step("next") \/ Step("]") \/ Step("end")
    BY <1>1, <1>4, <2>1, StepInText
  <2> QED BY <2>2 DEF Char, FieldEnds, Step, StepTo
<1>5. ASSUME at.part \in {"quote", "tag", "tagEnd", "]", "BEGIN", "COMMA"}
      PROVE  at'.k = at.k /\ at'.part \notin {"[", "BEGIN"}
  <2>1. \/ StepTo("quote", at.k, at.f + 1, 0)
        \/ StepTo("tag", at.k, at.f, 1) \/ StepTo("tag", at.k, at.f, at.n + 1)
        \/ StepTo("tagEnd", at.k, at.f, at.n + 1) \/ Step(":") \/ Step("end")
    BY <1>1, <1>5, StepElsewhere
  <2> QED BY <2>1 DEF Step, StepTo
<1>6. CASE at.part = "["
  <2>1. Step("]") \/ StepTo("BEGIN", 1, 0, 0)
    BY <1>1, <1>6, StepElsewhere
  <2> QED BY <1>1, <1>2, <1>6, <2>1 DEF Step, StepTo, Begun
<1>7. CASE at.part = "next"
  <2>1. StepTo("BEGIN", at.k + 1, 0, 0)
    BY <1>1, <1>7, StepElsewhere
  <2> QED BY <1>1, <1>7, <2>1 DEF StepTo, Begun
<1>8. CASE at.part = "BEGIN"
  <2>1. at'.k = at.k /\ at'.part \notin {"[", "BEGIN"} /\ at.k >= 1
    BY <1>3, <1>5, <1>8 DEF OfEntries
  <2> QED BY <1>1, <1>8, <2>1 DEF Begun
<1>9. CASE at.part \in InList \ {"[", "next", "BEGIN"}
  <2>1. at'.k = at.k /\ at'.part \notin {"[", "BEGIN"}
    BY <1>4, <1>5, <1>9 DEF InList, OfEntries, OfFields
  <2> QED BY <1>1, <1>9, <2>1 DEF Begun
<1> QED BY <1>1, <1>6, <1>7, <1>8, <1>9

(* A field is past when its value is, be it in quotes or bare. *)
LEMMA PastStep ==
  ASSUME InBody, ~Ended, Consume,
         NEW k \in 1 .. Len(reply), NEW f \in 1 .. Len(reply[k]), Past(k, f)'
  PROVE  Past(k, f) \/ (k = at.k /\ f = at.f /\ (at.part = "shut" \/ ~Field.quoted))
<1>1. /\ AtType /\ AnswerOK /\ PlaceOK /\ at.part \in InList /\ Len(reply) \in Nat
      /\ at.k \in Nat /\ at.f \in Nat /\ at.n \in Nat
  BY BodyFacts DEF Ended
<1>2. Len(reply[k]) \in Nat
  BY <1>1, EntryFacts DEF InBody
<1>3. \/ k < at'.k
      \/ k = at'.k /\ f < at'.f
      \/ k = at'.k /\ f = at'.f /\ at'.part \in {"COMMA", "END", "next", "]", "end"}
  BY DEF Past
<1>4. CASE at.part \in {"quote", "tag", "tagEnd"}
  <2>1. \/ StepTo("tag", at.k, at.f, 1) \/ StepTo("tag", at.k, at.f, at.n + 1)
        \/ StepTo("tagEnd", at.k, at.f, at.n + 1) \/ Step(":")
    BY <1>1, <1>4, StepElsewhere
  <2> QED BY <1>3, <2>1 DEF Step, StepTo, Past
<1>5. CASE at.part \in {"BEGIN", "COMMA"}
  <2>1. StepTo("quote", at.k, at.f + 1, 0)
    BY <1>1, <1>5, StepElsewhere
  <2>2. k < at.k \/ (k = at.k /\ f < at.f + 1)
    BY <1>3, <2>1 DEF StepTo
  <2>3. at.part = "BEGIN" => at.f = 0
    BY <1>1 DEF PlaceOK
  <2>4. k < at.k \/ (k = at.k /\ f < at.f) \/ (k = at.k /\ f = at.f /\ at.part = "COMMA")
    BY <1>1, <1>2, <1>5, <2>2, <2>3
  <2> QED BY <2>4 DEF Past
<1>6. CASE at.part = "["
  <2>1. (reply = <<>> /\ Step("]")) \/ StepTo("BEGIN", 1, 0, 0)
    BY <1>1, <1>6, StepElsewhere
  <2>2. reply # <<>>
    BY <1>1
  <2>3. k < 1 \/ (k = 1 /\ f < 0)
    BY <1>3, <2>1, <2>2 DEF StepTo
  <2> QED BY <1>1, <1>2, <2>3
<1>7. CASE at.part = "next"
  <2>1. StepTo("BEGIN", at.k + 1, 0, 0)
    BY <1>1, <1>7, StepElsewhere
  <2>2. k < at.k + 1 \/ f < 0
    BY <1>3, <2>1 DEF StepTo
  <2>3. k < at.k \/ k = at.k
    BY <1>1, <1>2, <2>2
  <2>4. CASE k = at.k
    <3>1. at.f = Len(reply[k])
      BY <1>1, <1>7, <2>4 DEF PlaceOK
    <3>2. f < at.f \/ f = at.f
      BY <1>2, <3>1
    <3> QED BY <1>7, <2>4, <3>2 DEF Past
  <2>5. CASE k < at.k
    BY <2>5 DEF Past
  <2> QED BY <2>3, <2>4, <2>5
<1>8. CASE at.part \in {"]", "END"}
  <2>1. Step("next") \/ Step("]") \/ Step("end")
    BY <1>1, <1>8, StepElsewhere, StepInText DEF OfFields
  <2>2. k < at.k \/ (k = at.k /\ f < at.f) \/ (k = at.k /\ f = at.f)
    BY <1>3, <2>1 DEF Step, StepTo
  <2> QED BY <1>8, <2>2 DEF Past
<1>9. CASE at.part \in {":", "open", "text", "shut"}
  <2>1. at.part \in OfFields
    BY <1>9 DEF OfFields
  <2>2. \/ Step("open")
        \/ at'.part \in {"text", "shut"} /\ at'.k = at.k /\ at'.f = at.f
        \/ (at.part = "shut" \/ ~Field.quoted) /\ FieldEnds
    <3>1. \/ Step("open") \/ Char(1) \/ Char(at.n + 1)
          \/ at.part = "shut" /\ FieldEnds
      BY <1>1, <1>9, <2>1, StepInText
    <3> QED BY <3>1 DEF Char, StepTo
  <2>3. CASE Step("open")
    BY <1>3, <2>3 DEF Step, StepTo, Past
  <2>4. CASE at'.part \in {"text", "shut"} /\ at'.k = at.k /\ at'.f = at.f
    BY <1>3, <2>4 DEF Past
  <2>5. CASE (at.part = "shut" \/ ~Field.quoted) /\ FieldEnds
    <3>1. at'.k = at.k /\ at'.f = at.f
      BY <2>5 DEF FieldEnds, Step, StepTo
    <3>2. k < at.k \/ (k = at.k /\ f < at.f) \/ (k = at.k /\ f = at.f)
      BY <1>3, <3>1
    <3> QED BY <2>5, <3>2 DEF Past
  <2> QED BY <2>2, <2>3, <2>4, <2>5
<1> QED BY <1>1, <1>4, <1>5, <1>6, <1>7, <1>8, <1>9 DEF InList, OfEntries, OfFields

(* What the steps of the parser have in common. *)
ListStep ==
  /\ pc \in ListPcs /\ pc' \in (ListPcs \cup {"close"}) \ {"parseStart"}
  /\ Reads /\ UNCHANGED <<netVars, i, pollVars>>
  /\ late' \in Nat /\ (InTime' => InTime) /\ (astray => astray')

(* What can be told after a step could be told before it. *)
LEMMA TracedBefore ==
  ASSUME ListStep
  PROVE  FewEntries' = FewEntries /\ (Traced' => Traced /\ TextsFit)
<1>1. size' = size /\ reply' = reply
  BY DEF ListStep, Reads, callVars
<1>2. FewEntries' = FewEntries /\ TextsFit' = TextsFit
  BY <1>1 DEF FewEntries, TextsFit
<1> QED BY <1>2 DEF Traced, ListStep

(* With the end of the headers missed nothing is said of what is parsed.    *)
LEMMA ListFrame ==
  ASSUME ReadInv, ListStep, InBody => ParseInv' /\ StoredInv', s \in Int
  PROVE  ReadInv'
<1>1. PlaceInv /\ HeaderInv
  BY DEF ReadInv
<1>2. i' = i /\ op' = op
  BY DEF ListStep, Reads, callVars
<1>3. i = 4 => op = "post" /\ at.part \notin {"200", "header", "400"}
  BY <1>1 DEF ListStep, HeaderInv
<1>4. i = 4 => InBody
  BY <1>3 DEF InBody
<1>5. PlaceInv'
  BY <1>1, <1>2, <1>3, ReadPlace
  DEF ListStep, ListPcs, Requests, Before, Answered
<1>6. i = 4 => at'.part \notin {"200", "header", "400"}
  <2>1. ASSUME i = 4, ~Ended, Consume  PROVE at'.part \in InList \cup {"end"}
    <3>1. AtType /\ AnswerOK /\ PlaceOK /\ at.part \in InList
      BY <1>4, <2>1, BodyFacts DEF Ended
    <3> QED BY <2>1, <3>1, BodyStep DEF ListStep, Reads
  <2> QED BY <1>3, <2>1 DEF ListStep, Reads, InList, OfEntries, OfFields
<1>7. HeaderInv'
  <2>1. pc' \in ListPcs \cup {"close"} /\ pc' \in Reading
    BY DEF ListStep, Reading
  <2>2. pc' \notin {"first", "status", "skip", "match", "closeEarly"} /\ pc' \notin PollPcs
    BY <2>1 DEF ListPcs, PollPcs
  <2>3. InTime' => i' = 4
    BY <1>1, <1>2 DEF ListStep, HeaderInv, Reading
  <2> QED BY <1>2, <1>3, <1>6, <2>1, <2>2, <2>3 DEF HeaderInv, ListStep
<1>8. FreshInv'
  BY DEF ListStep, FreshInv, Reading, ListPcs, PollPcs
<1>9. pc' # "parseStart"
  BY DEF ListStep
<1> QED BY <1>2, <1>3, <1>4, <1>5, <1>7, <1>8, <1>9 DEF ReadInv

(* A step that stores nothing, and does not begin to. *)
LEMMA SameStored ==
  ASSUME InBody, StoredInv, ListStep, UNCHANGED arrayVars, pc' # "data",
         ~astray /\ ~Ended /\ Consume => at.part # "shut"
  PROVE  StoredInv'
<1>1. reply' = reply /\ Cells' = Cells /\ stored' = stored /\ elsewhere' = elsewhere
  BY DEF ListStep, Reads, callVars, Cells, arrayVars
<1>2. /\ FewEntries' => "entry" \notin elsewhere
      /\ Traced' => /\ elsewhere = {}
                    /\ \A p \in Cells : stored[p] # Blank => CellOK(p, stored[p], reply)
  BY TracedBefore DEF StoredInv
<1>3. ASSUME Traced', NEW k \in 1 .. Len(reply), NEW f \in 1 .. Len(reply[k]),
             Past(k, f)', Member(reply[k][f].tag) \in Saved
      PROVE  stored[<<k, Member(reply[k][f].tag)>>] = Whole(reply[k][f].text)
  <2>1. Traced /\ ~astray
    BY <1>3, TracedBefore DEF Traced
  <2>2. Past(k, f)
    <3>1. CASE at' = at
      BY <1>3, <3>1 DEF Past
    <3>2. CASE ~Ended /\ Consume
      <4>1. Past(k, f) \/ (k = at.k /\ f = at.f /\ ~Field.quoted)
        BY <1>3, <2>1, <3>2, PastStep
      <4>2. ~reply[k][f].quoted => Member(reply[k][f].tag) \notin Saved
        BY EntrySays, BodyFacts DEF InBody
      <4> QED BY <1>3, <4>1, <4>2 DEF Field
    <3> QED BY <3>1, <3>2 DEF ListStep, Reads
  <2> QED BY <1>3, <2>1, <2>2 DEF StoredInv
<1>4. Traced' => \A k \in 1 .. Len(reply) : \A f \in 1 .. Len(reply[k]) :
        LET m == Member(reply[k][f].tag) IN
        Past(k, f)' /\ m \in Saved => stored[<<k, m>>] = Whole(reply[k][f].text)
  BY <1>3
<1> QED BY <1>1, <1>2, <1>4 DEF StoredInv

(* The array is blank when the parser starts, in front of the list. *)
LEMMA ParseStartStep ==
  ASSUME ReadInv, s \in Int, ParseStart
  PROVE  ReadInv'
<1>1. /\ pc = "parseStart" /\ pc' = "top" /\ parse' = FALSE /\ parsing' = "none"
      /\ data_instance' = -1 /\ at' = at /\ UNCHANGED <<stored, elsewhere, astray>>
  BY DEF ParseStart, Go, arrayVars
<1>2. UNCHANGED <<callVars, netVars, i, pollVars, late>>
  BY DEF ParseStart, parseKeep
<1>3. InTime' = InTime /\ late \in Nat
  BY <1>2 DEF InTime, callVars, netVars, ReadInv, HeaderInv
<1>4. ListStep
  BY <1>1, <1>2, <1>3 DEF ListStep, Reads, ListPcs
<1>5. ASSUME InBody  PROVE ParseInv' /\ StoredInv'
  <2>1. at.part = "[" /\ at.k = 0
    BY <1>1, <1>5, BodyFacts DEF InBody, ReadInv, PlaceOK
  <2>2. Begun' = 0
    BY <1>1, <2>1 DEF Begun
  <2>3. Following'
    BY <1>1, <2>1 DEF Following, Between
  <2>4. CountInv'
    BY <1>1, <2>2 DEF CountInv
  <2>5. stored = [p \in Cells |-> Blank] /\ elsewhere = {} /\ ~astray
    BY <1>1, <1>5 DEF InBody, ReadInv, FreshInv
  <2>6. \A k \in 1 .. Len(reply) : \A f \in 1 .. Len(reply[k]) : ~Past(k, f)
    <3> TAKE k \in 1 .. Len(reply)
    <3> TAKE f \in 1 .. Len(reply[k])
    <3>1. k > 0 /\ Len(reply) \in Nat
      BY <1>5, BodyFacts
    <3> QED BY <2>1, <3>1 DEF Past
  <2>7. \A k \in 1 .. Len(reply') : \A f \in 1 .. Len(reply'[k]) : ~Past(k, f)'
    BY <1>1, <1>2, <2>6 DEF callVars, Past
  <2>8. StoredInv'
    BY <1>1, <2>5, <2>7 DEF StoredInv
  <2>9. ParseInv'
    BY <1>1, <2>1, <2>2, <2>3, <2>4, <2>5, SMTT(30) DEF ParseInv
  <2> QED BY <2>8, <2>9
<1> QED BY <1>4, <1>5, ListFrame

----------------------------------------------------------------------------
(* The top of the loop.                                                    *)

(* Within a field the field does not change. *)
LEMMA FieldSame ==
  ASSUME ListStep, NEW part, NEW n, StepTo(part, at.k, at.f, n)
  PROVE  Field' = Field
BY DEF ListStep, Reads, callVars, StepTo, Field

(* A value begins behind the colon, and behind the quote if there is one.   *)
LEMMA ValueBegins ==
  ASSUME InBody, ListStep, Consume, at.part \in {":", "open"}
  PROVE  Field' = Field /\ \/ at.part = ":" /\ at'.part = "open"
                           \/ at'.part = "text" /\ at'.n = 1 /\ (at.part = ":" => ~Field.quoted)
                           \/ at.part = "open" /\ at'.part = "shut" /\ at'.n = 1
<1>1. AtType /\ AnswerOK /\ PlaceOK /\ Len(reply) \in Nat
  BY BodyFacts
<1>2. at.part \in OfFields
  BY DEF OfFields
<1>3. at.k \in 1 .. Len(reply) /\ at.f \in 1 .. Len(reply[at.k])
  BY <1>1, <1>2 DEF PlaceOK, OfEntries
<1>4. ~Field.quoted => Field.text # <<>>
  BY <1>1, <1>3, EntrySays DEF InBody, Field
<1>5. Field \in SomeField /\ Len(Field.text) \in Nat
  BY <1>1, <1>2, FieldFacts
<1>6. ~Field.quoted => ~(1 > Len(Field.text))
  BY <1>4, <1>5, EmptySeq DEF SomeField
<1>7. at.part = "open" => Field.quoted
  BY <1>1 DEF PlaceOK
<1>8. \/ at.part = ":" /\ Step("open")
      \/ (at.part = ":" => ~Field.quoted) /\ StepTo("text", at.k, at.f, 1)
      \/ at.part = "open" /\ StepTo("shut", at.k, at.f, 1)
  <2>1. \/ at.part = ":" /\ Step("open")
        \/ at.part = ":" /\ ~Field.quoted /\ Char(1)
        \/ at.part = "open" /\ Char(1)
    BY <1>1, <1>2, StepInText
  <2> QED BY <1>6, <1>7, <2>1 DEF Char
<1>9. CASE at.part = ":" /\ Step("open")
  BY <1>9, FieldSame DEF Step, StepTo
<1>10. CASE (at.part = ":" => ~Field.quoted) /\ StepTo("text", at.k, at.f, 1)
  BY <1>10, FieldSame DEF StepTo
<1>11. CASE at.part = "open" /\ StepTo("shut", at.k, at.f, 1)
  BY <1>11, FieldSame DEF StepTo
<1> QED BY <1>8, <1>9, <1>10, <1>11

(* Between two values the parser takes the symbols as they come. *)
LEMMA TopFollows ==
  ASSUME InBody, ListStep, pc = "top", Following, ~Ended, Consume, jsontag' = jsontag,
         parsing' = IF Symbol = "Q" /\ parsing = "none" THEN "tag" ELSE parsing,
         \/ Symbol = "]" /\ pc' = "close"
         \/ Symbol = ":" /\ pc' = "eat"
         \/ Symbol \notin {"]", ":"} /\ pc' = IF parsing' = "tag" THEN "tagFirst" ELSE "top",
         pc' # "close"
  PROVE  Following'
<1>1. AtType /\ AnswerOK /\ PlaceOK /\ at.part \in InList
  BY BodyFacts DEF Ended
<1>2. \/ at.part = ":" /\ jsontag = Field.tag
      \/ parsing = "none" /\ at.part \in Between \ {"end"}
  BY <1>1 DEF Following, InList, OfEntries, OfFields
<1>3. CASE at.part = ":" /\ jsontag = Field.tag
  <2>1. pc' = "eat"
    BY <1>1, <1>3, SymbolOf
  <2>2. /\ jsontag' = Field'.tag
        /\ \/ at'.part = "open"
           \/ at'.part = "text" /\ at'.n = 1 /\ ~Field'.quoted
    BY <1>3, ValueBegins
  <2> QED BY <2>1, <2>2 DEF Following
<1>4. CASE parsing = "none" /\ at.part = "quote"
  <2>1. Symbol = "Q" /\ StepTo("tag", at.k, at.f, 1)
    BY <1>1, <1>4, SymbolOf, StepElsewhere DEF Quoting
  <2>2. pc' = "tagFirst"
    BY <1>4, <2>1
  <2> QED BY <2>1, <2>2 DEF Following, StepTo
<1>5. CASE parsing = "none" /\ at.part \in {"[", "BEGIN", "COMMA", "END", "next"}
  <2>1. Symbol \in {"[", "BEGIN", "COMMA", "END"}
    BY <1>1, <1>5, SymbolOf
  <2>2. parsing' = "none" /\ pc' = "top"
    BY <1>5, <2>1
  <2>3. at'.part \in {"]", "BEGIN", "quote", "next", "end"}
    <3>1. at.part \in OfFields \/ at.part \in {"[", "BEGIN"}
      BY <1>5 DEF OfFields
    <3>2. \/ Step("]") \/ StepTo("BEGIN", 1, 0, 0) \/ StepTo("quote", at.k, at.f + 1, 0)
          \/ Step("next") \/ Step("end") \/ StepTo("BEGIN", at.k + 1, 0, 0)
      BY <1>1, <1>5, <3>1, StepElsewhere, StepInText
    <3> QED BY <3>2 DEF Step, StepTo
  <2> QED BY <2>2, <2>3 DEF Following, Between
<1>6. at.part # "]"
  <2>1. at.part = "]" => Symbol = "]"
    BY <1>1, SymbolOf
  <2> QED BY <2>1
<1> QED BY <1>2, <1>3, <1>4, <1>5, <1>6 DEF Between

(* The entries of a list that can be counted are. *)
LEMMA NextCounts ==
  ASSUME InBody, CountInv, FewEntries, at.part = "BEGIN"
  PROVE  NextInstance = data_instance + 1
<1>1. at.k \in 1 .. Len(reply) /\ size = Len(reply) /\ Len(reply) \in Nat
  BY BodyFacts DEF InBody, AnswerOK, PlaceOK, OfEntries
<1>2. data_instance <= at.k - 2 /\ data_instance \in Int
  BY <1>1 DEF CountInv, Begun
<1>3. data_instance # CharMax
  BY <1>1, <1>2, CharAssumption DEF FewEntries
<1> QED BY <1>3 DEF NextInstance

(* The top of the loop follows the answer, and stores nothing. *)
LEMMA TopReads ==
  ASSUME InBody, ParseInv, StoredInv, ListStep, Top, ~Ended, Consume, Available, ~TimesOut
  PROVE  ParseInv' /\ StoredInv'
<1>1. /\ AtType /\ AnswerOK /\ PlaceOK /\ at.part \in InList
      /\ at.k \in Nat /\ Len(reply) \in Nat
  BY BodyFacts DEF Ended
<1>2. /\ Symbol = "[" <=> at.part = "["
      /\ Symbol = "]" <=> at.part = "]"
      /\ Symbol = "BEGIN" <=> at.part = "BEGIN"
      /\ Symbol = ":" => at.part \in {":", "text"}
      /\ Symbol = "Q" <=> at.part \in Quoting
  BY <1>1, ListFacts, QuoteFacts DEF InBody, Parts
<1>3. /\ pc = "top" /\ jsontag' = jsontag
      /\ parse' <=> (Symbol # "]" /\ (parse \/ Symbol = "["))
      /\ data_instance' = IF Symbol = "BEGIN" THEN NextInstance ELSE data_instance
      /\ parsing' = IF Symbol = "Q" /\ parsing = "none" THEN "tag" ELSE parsing
      /\ stored' = IF pc' = "data" THEN Opened(Cell') ELSE stored
      /\ UNCHANGED <<astray, elsewhere>>
  <2>1. pc = "top" /\ UNCHANGED <<jsontag, astray, elsewhere>>
    BY DEF Top
  <2>2. parse' <=> (Symbol # "]" /\ (parse \/ Symbol = "["))
    BY Zenon DEF Top
  <2>3. /\ data_instance' = IF Symbol = "BEGIN" THEN NextInstance ELSE data_instance
        /\ parsing' = IF Symbol = "Q" /\ parsing = "none" THEN "tag" ELSE parsing
    BY Zenon DEF Top
  <2>4. stored' = IF pc' = "data" THEN Opened(Cell') ELSE stored
    BY Zenon DEF Top
  <2> QED BY <2>1, <2>2, <2>3, <2>4, Zenon
<1>4. \/ Symbol = "]" /\ pc' = "close" /\ res' = OK
      \/ Symbol = ":" /\ pc' = "eat"
      \/ Symbol \notin {"]", ":"} /\ pc' = ParseNext(parsing')
  BY DEF Top, Finish
<1>5. parsing \in {"none", "tag"} /\ parsing' \in {"none", "tag"}
  BY <1>3 DEF ParseInv
<1>6. parse' <=> at.part # "]"
  BY <1>2, <1>3 DEF ParseInv
<1>7. Symbol \notin {"]", ":"} => pc' = IF parsing' = "tag" THEN "tagFirst" ELSE "top"
  BY <1>2, <1>4, <1>5, <1>6 DEF ParseNext
<1>8. pc' \in {"close", "eat", "tagFirst", "top"}
  BY <1>4, <1>7
<1>9. UNCHANGED arrayVars
  BY <1>3, <1>8 DEF arrayVars
<1>10. /\ Begun \in Nat
       /\ at.part = "BEGIN" => Begun' = Begun + 1
       /\ at.part # "BEGIN" => Begun' = Begun
       /\ at'.part # "["
  BY BegunStep
<1>11. CountInv
  BY DEF ParseInv
<1>12. CountInv'
  <2> SUFFICES ASSUME FewEntries'  PROVE
        /\ data_instance' \in -1 .. Begun' - 1
        /\ Begun' > 0 => data_instance' >= 0
        /\ ~astray' => data_instance' = Begun' - 1
    BY DEF CountInv
  <2>1. /\ FewEntries /\ data_instance \in -1 .. Begun - 1
        /\ Begun > 0 => data_instance >= 0
        /\ ~astray' => data_instance = Begun - 1
    BY <1>3, <1>11, TracedBefore DEF CountInv
  <2>2. CASE at.part = "BEGIN"
    <3>1. data_instance' = data_instance + 1
      BY <1>2, <1>3, <1>11, <2>1, <2>2, NextCounts
    <3> QED BY <1>10, <2>1, <2>2, <3>1
  <2>3. CASE at.part # "BEGIN"
    <3>1. data_instance' = data_instance
      BY <1>2, <1>3, <2>3
    <3> QED BY <1>10, <2>1, <2>3, <3>1
  <2> QED BY <2>2, <2>3
<1>13. ASSUME Begun' = 0
       PROVE  pc' \in {"top", "close"} /\ (pc' = "top" => parsing' = "none")
  <2>1. Begun = 0 /\ at.part # "BEGIN"
    BY <1>10, <1>13
  <2>2. parsing = "none"
    BY <1>3, <2>1 DEF ParseInv
  <2>3. at.part \notin OfFields
    BY <1>1, <2>1 DEF PlaceOK, OfEntries, Begun
  <2>4. at.part \in {"[", "]"}
    BY <1>1, <2>1, <2>3 DEF InList, OfEntries
  <2>5. Symbol = at.part
    BY <1>1, <2>4, SymbolOf
  <2> QED BY <1>3, <1>4, <1>7, <2>2, <2>4, <2>5
<1>14. ASSUME pc' # "close", ~astray'  PROVE Following'
  <2>1. Following
    BY <1>3, <1>14 DEF ParseInv
  <2> QED BY <1>3, <1>4, <1>7, <1>14, <2>1, TopFollows
<1>15. ASSUME InTime', pc' = "close"  PROVE at'.part = "end" /\ res' = OK
  <2>1. Symbol = "]" /\ res' = OK
    BY <1>4, <1>7, <1>15
  <2>2. Step("end")
    BY <1>1, <1>2, <2>1, StepElsewhere
  <2> QED BY <2>1, <2>2 DEF Step, StepTo
<1>16. pc' # "close" => (parse' <=> at'.part # "[")
  <2>1. pc' # "close" => at.part # "]"
    BY <1>1, <1>2, <1>4, <1>7
  <2> QED BY <1>6, <1>10, <2>1
<1>17. ParseInv'
  <2>1. InTime' => ~astray'
    BY <1>3 DEF ParseInv, ListStep
  <2>2. pc' \notin {"tagMore", "tagRead"}
    BY <1>8
  <2> QED BY <1>5, <1>12, <1>13, <1>14, <1>15, <1>16, <2>1, <2>2 DEF ParseInv
<1>18. ~astray => at.part # "shut"
  <2>1. ~astray => Following
    BY <1>3 DEF ParseInv
  <2> QED BY <1>3, <2>1 DEF Following, Between
<1>19. StoredInv'
  <2>1. pc' # "data"
    BY <1>8
  <2> QED BY <1>9, <1>18, <2>1, SameStored
<1> QED BY <1>17, <1>19

(* A symbol is in time or it is late. *)
LEMMA EitherTime ==
  ASSUME late \in Nat
  PROVE  /\ Available => ~Ended /\ ~TimesOut
         /\ TimesOut => ~Available
BY DEF Available, TimesOut

(* What a step of the parser may say of time. *)
LEMMA ListTimes ==
  ASSUME ReadInv, s \in Int, UNCHANGED <<callVars, netVars>>, Available \/ TimesOut
  PROVE  /\ late' \in Nat
         /\ InTime' => InTime
         /\ TimesOut /\ InTime' => at.part = "end"
         /\ Available => ~Ended /\ ~TimesOut
         /\ TimesOut => ~Available
<1>1. late \in Nat
  BY DEF ReadInv, HeaderInv
<1>2. UNCHANGED <<s, plain>>
  BY DEF callVars, netVars
<1> QED BY <1>1, <1>2, TimeFacts, EitherTime

(* The invariants of the parser hold from its first step on. *)
LEMMA BodyInv ==
  ASSUME InBody, pc # "parseStart"
  PROVE  ParseInv /\ StoredInv
BY DEF InBody, ReadInv

(* A parser that stops leaves all as it is. *)
LEMMA Stops ==
  ASSUME InBody, ParseInv, StoredInv, ListStep, at' = at, pc' = "close",
         UNCHANGED <<data_instance, astray, arrayVars>>,
         InTime' => at.part = "end" /\ res' = OK
  PROVE  ParseInv' /\ StoredInv'
<1>1. Begun' = Begun /\ (InTime' => InTime) /\ FewEntries' = FewEntries
  BY TracedBefore DEF Begun, ListStep
<1>2. CountInv'
  BY <1>1 DEF ParseInv, CountInv
<1>3. ParseInv'
  BY <1>1, <1>2 DEF ParseInv
<1>4. StoredInv'
  <2>1. ~astray /\ ~Ended /\ Consume => at.part # "shut"
    <3>1. ASSUME at.part = "shut", ~Ended, Consume  PROVE FALSE
      <4>1. AtType /\ AnswerOK /\ PlaceOK /\ at.part \in OfFields
        BY <3>1, BodyFacts DEF OfFields
      <4>2. FieldEnds
        BY <3>1, <4>1, StepInText
      <4> QED BY <3>1, <4>2 DEF FieldEnds, Step, StepTo
    <3> QED BY <3>1
  <2> QED BY <2>1, SameStored
<1> QED BY <1>3, <1>4

(* The top of the loop, whether or not a symbol is there in time. *)
LEMMA TopStep ==
  ASSUME ReadInv, ParserInv, s \in Int, Top
  PROVE  ReadInv'
<1>1. pc = "top" /\ UNCHANGED <<callVars, netVars, i, pollVars, astray>>
  BY DEF Top, parseKeep
<1>2. \/ Available /\ Consume
      \/ /\ TimesOut /\ at' = at /\ pc' = "close" /\ res' = OK
         /\ UNCHANGED <<data_instance, arrayVars>>
  BY DEF Top, Finish, arrayVars
<1>3. /\ late' \in Nat /\ (InTime' => InTime)
      /\ TimesOut /\ InTime' => at.part = "end"
      /\ Available => ~Ended /\ ~TimesOut
  BY <1>1, <1>2, ListTimes
<1>4. pc' \in {"close", "eat", "top", "tagFirst", "data"}
  <2>1. parsing' \in {"none", "tag", "data"}
    BY DEF Top, ParserInv
  <2>2. ParseNext(parsing') \in {"top", "tagFirst", "data"}
    BY <2>1 DEF ParseNext
  <2> QED BY <2>2 DEF Top, Finish
<1>5. ListStep
  BY <1>1, <1>2, <1>3, <1>4 DEF ListStep, Reads, ListPcs
<1>6. ASSUME InBody  PROVE ParseInv' /\ StoredInv'
  <2>1. ParseInv /\ StoredInv
    BY <1>1, <1>6, BodyInv
  <2>2. CASE Available /\ Consume
    BY <1>3, <1>5, <1>6, <2>1, <2>2, TopReads
  <2>3. CASE TimesOut /\ at' = at /\ pc' = "close" /\ res' = OK /\ UNCHANGED <<data_instance, arrayVars>>
    BY <1>1, <1>3, <1>5, <1>6, <2>1, <2>3, Stops
  <2> QED BY <1>2, <2>2, <2>3
<1> QED BY <1>5, <1>6, ListFrame

(* Within an entry: the brace of the entry is read, and that of the list. *)
LEMMA EntryBegun ==
  ASSUME InBody, ParseInv, pc \in {"eat", "tagFirst", "tagMore", "tagRead", "data"}
  PROVE  /\ Begun \in 1 .. Len(reply) /\ Len(reply) \in Nat /\ parse
         /\ FewEntries => data_instance \in 0 .. Begun - 1
         /\ at.part # "["
<1>1. Begun \in 0 .. Len(reply) /\ Len(reply) \in Nat
  <2>1. /\ at.k \in Nat /\ Len(reply) \in Nat /\ PlaceOK
        /\ at.part \in InList \cup {"end"}
    BY BodyFacts
  <2>2. at.k <= Len(reply) /\ (at.part = "BEGIN" => at.k >= 1)
    BY <2>1 DEF PlaceOK, InList, OfEntries
  <2> QED BY <2>1, <2>2 DEF Begun
<1>2. Begun # 0
  BY DEF ParseInv
<1>3. at.part # "["
  <2>1. at.part = "[" => at.k = 0
    BY BodyFacts DEF PlaceOK
  <2> QED BY <1>2, <2>1 DEF Begun
<1>4. parse
  BY <1>3 DEF ParseInv
<1>5. FewEntries => data_instance \in 0 .. Begun - 1
  BY <1>1, <1>2 DEF ParseInv, CountInv
<1> QED BY <1>1, <1>2, <1>3, <1>4, <1>5

(* What the steps within an entry leave true of the entries that are begun. *)
LEMMA EntryStays ==
  ASSUME InBody, ParseInv, ListStep, pc \in {"eat", "tagFirst", "tagMore", "tagRead", "data"},
         data_instance' = data_instance, (parse' <=> parse)
  PROVE  CountInv' /\ Begun' # 0 /\ (parse' <=> at'.part # "[")
<1>1. /\ Begun \in 1 .. Len(reply) /\ Len(reply) \in Nat /\ parse
      /\ FewEntries => data_instance \in 0 .. Begun - 1
      /\ at.part # "["
  BY EntryBegun
<1>2. FewEntries' => FewEntries /\ (~astray' => data_instance = Begun - 1)
  BY TracedBefore DEF ParseInv, CountInv, ListStep
<1>3. CASE at' = at
  <2>1. Begun' = Begun
    BY <1>3 DEF Begun
  <2> QED BY <1>1, <1>2, <1>3, <2>1 DEF CountInv
<1>4. CASE ~Ended /\ Consume
  <2>1. /\ at.part = "BEGIN" => Begun' = Begun + 1
        /\ at.part # "BEGIN" => Begun' = Begun
        /\ at'.part # "["
    BY <1>4, BegunStep
  <2>2. ~astray' => at.part # "BEGIN"
    BY DEF ListStep, ParseInv, Following
  <2>3. CASE at.part = "BEGIN"
    BY <1>1, <1>2, <2>1, <2>2, <2>3 DEF CountInv
  <2>4. CASE at.part # "BEGIN"
    BY <1>1, <1>2, <2>1, <2>4 DEF CountInv
  <2> QED BY <2>3, <2>4
<1> QED BY <1>3, <1>4 DEF ListStep, Reads

----------------------------------------------------------------------------
(* The quote behind a colon, and the cell that is begun with it.           *)

(* A text grows by one symbol at a time. *)
LEMMA TextGrows ==
  ASSUME NEW S, NEW text \in Seq(S)
  PROVE  /\ SubSeq(text, 1, 0) = <<>>
         /\ SubSeq(text, 1, Len(text)) = text
         /\ \A n \in 1 .. Len(text) :
              Append(SubSeq(text, 1, n - 1), text[n]) = SubSeq(text, 1, n)
<1>1. SubSeq(text, 1, 0) = <<>>
  BY SubSeqEmpty
<1>2. SubSeq(text, 1, Len(text)) = text
  BY SubSeqFull
<1>3. ASSUME NEW n \in 1 .. Len(text)
      PROVE  Append(SubSeq(text, 1, n - 1), text[n]) = SubSeq(text, 1, n)
  <2>1. Len(text) \in Nat
    BY LenProperties
  <2>2. SubSeq(text, 1, n) = SubSeq(text, 1, n - 1) \o << text[n] >>
    BY <2>1, SubSeqRecursiveSecond
  <2>3. \A j \in 1 .. n - 1 : text[j] \in S
    BY <2>1, ElementOfSeq
  <2>4. SubSeq(text, 1, n - 1) \in Seq(S) /\ text[n] \in S
    BY <2>1, <2>3, SubSeqProperties, ElementOfSeq
  <2> QED BY <2>2, <2>4, AppendIsConcat
<1> QED BY <1>1, <1>2, <1>3

(* The beginning of a text has the length it has. *)
LEMMA TextBegins ==
  ASSUME NEW S, NEW text \in Seq(S), NEW n \in 0 .. Len(text)
  PROVE  Len(SubSeq(text, 1, n)) = n
<1>1. Len(text) \in Nat
  BY LenProperties
<1>2. \A j \in 1 .. n : text[j] \in S
  BY <1>1, ElementOfSeq
<1> QED BY <1>1, <1>2, SubSeqProperties

(* The entries that are counted are the caller's. *)
LEMMA MineFacts ==
  ASSUME InBody, ParseInv, pc \in {"eat", "data"}
  PROVE  /\ Mine \subseteq Cells
         /\ FewEntries /\ Member(jsontag) \in Saved => Cell \in Mine
<1>1. size = Len(reply) /\ size \in Nat /\ size <= MaxSize /\ MaxSize \in Nat
  BY BodyFacts, BoundsAssumption DEF InBody, AnswerOK
<1>2. ASSUME FewEntries  PROVE data_instance + 1 \in 1 .. size
  BY <1>1, <1>2, EntryBegun
<1>3. 1 .. size \subseteq 1 .. MaxSize
  BY <1>1
<1> QED BY <1>2, <1>3 DEF Mine, Cells, Cell

(* The field that is read, and the cell it is stored in. *)
LEMMA CellFacts ==
  ASSUME InBody, ParseInv, ~astray, pc \in {"eat", "data"}
  PROVE  /\ at.part \in OfFields /\ jsontag = Field.tag
         /\ at.k \in 1 .. Len(reply) /\ at.f \in 1 .. Len(reply[at.k])
         /\ FewEntries => Cell = <<at.k, Member(Field.tag)>>
         /\ Member(jsontag) \in Saved => Field.quoted
         /\ Field \in SomeField /\ Len(Field.text) \in Nat
<1>1. AtType /\ AnswerOK /\ PlaceOK /\ Len(reply) \in Nat
  BY BodyFacts
<1>2. at.part \in {"open", "text", "shut", "COMMA"} /\ jsontag = Field.tag
  BY DEF ParseInv, Following
<1>3. at.part \in OfFields
  BY <1>2 DEF OfFields
<1>4. at.k \in 1 .. Len(reply) /\ at.f \in 1 .. Len(reply[at.k])
  BY <1>1, <1>3 DEF PlaceOK, OfEntries
<1>5. FewEntries => data_instance = at.k - 1
  BY <1>2 DEF ParseInv, CountInv, Begun
<1>6. FewEntries => Cell = <<at.k, Member(Field.tag)>>
  BY <1>1, <1>2, <1>4, <1>5 DEF Cell
<1>7. Member(jsontag) \in Saved => Field.quoted
  BY <1>1, <1>2, <1>4, EntrySays DEF InBody, Field
<1>8. Field \in SomeField /\ Len(Field.text) \in Nat
  BY <1>1, <1>3, FieldFacts
<1> QED BY <1>2, <1>3, <1>4, <1>6, <1>7, <1>8

(* No two fields of an entry are saved in the same member. *)
LEMMA OneField ==
  ASSUME InBody, NEW k \in 1 .. Len(reply),
         NEW f \in 1 .. Len(reply[k]), NEW g \in 1 .. Len(reply[k]),
         Member(reply[k][f].tag) = Member(reply[k][g].tag),
         Member(reply[k][f].tag) \in Saved
  PROVE  f = g
<1>1. AnswerOK /\ op \in {"post", "poll"}
  BY BodyFacts DEF InBody
<1>2. reply[k] \in Instances /\ reply[k] \in Seq(SomeField)
  BY <1>1, EntryFacts DEF InBody
<1>3. \A h, g2 \in DOMAIN reply[k] :
        Member(reply[k][h].tag) = Member(reply[k][g2].tag) /\ Member(reply[k][h].tag) \in Saved
          => h = g2
  BY <1>2, InstancesAssumption, Zenon
<1>4. f \in DOMAIN reply[k] /\ g \in DOMAIN reply[k]
  BY <1>2, LenProperties
<1> QED BY <1>3, <1>4, Zenon

(* A step that writes to the cell of the field that is read, at the most.   *)
LEMMA OtherCells ==
  ASSUME InBody, ParseInv, StoredInv, ListStep, pc \in {"eat", "data"},
         ~Ended, Consume, Traced',
         \A p \in Cells : p = Cell \/ stored'[p] = stored[p],
         NEW k \in 1 .. Len(reply), NEW f \in 1 .. Len(reply[k]),
         Past(k, f)', Member(reply[k][f].tag) \in Saved, ~(k = at.k /\ f = at.f)
  PROVE  stored'[<<k, Member(reply[k][f].tag)>>] = Whole(reply[k][f].text)
<1>1. Past(k, f)
  BY PastStep
<1>2. Traced /\ ~astray /\ FewEntries
  BY TracedBefore DEF Traced
<1>3. stored[<<k, Member(reply[k][f].tag)>>] = Whole(reply[k][f].text)
  BY <1>1, <1>2 DEF StoredInv
<1>4. <<k, Member(reply[k][f].tag)>> \in Cells
  <2>1. Len(reply) <= MaxSize /\ MaxSize \in Nat /\ Len(reply) \in Nat
    BY BodyFacts, BoundsAssumption DEF AnswerOK, InBody
  <2>2. k \in 1 .. MaxSize
    BY <2>1
  <2> QED BY <2>2 DEF Cells
<1>5. <<k, Member(reply[k][f].tag)>> # Cell
  <2>1. /\ Cell = <<at.k, Member(reply[at.k][at.f].tag)>>
        /\ at.k \in 1 .. Len(reply) /\ at.f \in 1 .. Len(reply[at.k])
    BY <1>2, CellFacts DEF Field
  <2>2. ASSUME k = at.k, Member(reply[k][f].tag) = Member(reply[at.k][at.f].tag)  PROVE FALSE
    BY <2>1, <2>2, OneField
  <2> QED BY <2>1, <2>2
<1> QED BY <1>3, <1>4, <1>5

(* Behind a character of a value comes the next, or the value ends. *)
LEMMA ValueGoesOn ==
  ASSUME InBody, ListStep, Consume, at.part = "text"
  PROVE  /\ Field' = Field
         /\ \/ at'.part = "text" /\ at'.n = at.n + 1
            \/ at'.part = "shut" /\ Field.quoted /\ at'.n = at.n + 1
            \/ at'.part = "COMMA" /\ ~Field.quoted
<1>1. AtType /\ AnswerOK /\ PlaceOK /\ Len(reply) \in Nat
  BY BodyFacts
<1>2. at.part \in OfFields
  BY DEF OfFields
<1>3. at.k \in 1 .. Len(reply) /\ at.f \in 1 .. Len(reply[at.k])
  BY <1>1, <1>2 DEF PlaceOK, OfEntries
<1>4. ~Field.quoted => at.f < Len(reply[at.k])
  BY <1>1, <1>3, EntrySays DEF InBody, Field
<1>5. Len(reply[at.k]) \in Nat
  BY <1>1, <1>3, EntryFacts DEF InBody
<1>6. \/ StepTo("text", at.k, at.f, at.n + 1)
      \/ Field.quoted /\ StepTo("shut", at.k, at.f, at.n + 1)
      \/ ~Field.quoted /\ FieldEnds
  BY <1>1, <1>2, StepInText DEF Char
<1>7. ~Field.quoted /\ FieldEnds => ~Field.quoted /\ Step("COMMA")
  BY <1>3, <1>4, <1>5 DEF FieldEnds
<1>8. CASE StepTo("text", at.k, at.f, at.n + 1)
  BY <1>8, FieldSame DEF StepTo
<1>9. CASE Field.quoted /\ StepTo("shut", at.k, at.f, at.n + 1)
  BY <1>9, FieldSame DEF StepTo
<1>10. CASE ~Field.quoted /\ Step("COMMA")
  BY <1>10, FieldSame DEF Step, StepTo
<1> QED BY <1>6, <1>7, <1>8, <1>9, <1>10

(* Behind the character that is eaten begins the value. *)
LEMMA EatFollows ==
  ASSUME InBody, ListStep, Following, pc = "eat", Consume, pc' = "data", jsontag' = jsontag
  PROVE  /\ Following' /\ Field' = Field
         /\ \/ at.part = "open" /\ at'.part \in {"text", "shut"} /\ at'.n = 1
            \/ at.part = "text" /\ ~Field.quoted
<1>1. jsontag = Field.tag
  BY DEF Following
<1>2. at.part = "open" \/ (at.part = "text" /\ ~Field.quoted)
  BY DEF Following
<1>3. CASE at.part = "open"
  <2>1. Field' = Field /\ at'.part \in {"text", "shut"} /\ at'.n = 1
    BY <1>3, ValueBegins
  <2> QED BY <1>1, <1>3, <2>1 DEF Following
<1>4. CASE at.part = "text" /\ ~Field.quoted
  <2>1. Field' = Field /\ at'.part \in {"text", "COMMA"}
    BY <1>4, ValueGoesOn
  <2> QED BY <1>1, <1>4, <2>1 DEF Following
<1> QED BY <1>2, <1>3, <1>4

(* Eating the quote behind a colon begins the cell of that field. *)
LEMMA EatReads ==
  ASSUME InBody, ParseInv, StoredInv, ListStep, Eat, ~Ended, Consume, Available, ~TimesOut
  PROVE  ParseInv' /\ StoredInv'
<1>1. /\ pc = "eat" /\ UNCHANGED <<jsontag, data_instance, astray, elsewhere>>
      /\ (parse' <=> parse) /\ parsing' = "data"
      /\ pc' = IF parse THEN "data" ELSE "top"
      /\ stored' = IF parse THEN Opened(Cell) ELSE stored
  BY DEF Eat
<1>2. parse
  BY <1>1, EntryBegun
<1>3. pc' = "data" /\ stored' = Opened(Cell)
  BY <1>1, <1>2
<1>4. ASSUME ~astray  PROVE Following /\ Following'
  <2>1. Following
    BY <1>1, <1>4 DEF ParseInv
  <2> QED BY <1>1, <1>3, <2>1, EatFollows
<1>5. ParseInv'
  <2>1. CountInv' /\ Begun' # 0 /\ (parse' <=> at'.part # "[")
    BY <1>1, EntryStays
  <2>2. InTime' => ~astray'
    BY <1>1 DEF ListStep, ParseInv
  <2> QED BY <1>1, <1>3, <1>4, <2>1, <2>2 DEF ParseInv
<1>6. Cells' = Cells /\ reply' = reply
  BY DEF Cells, ListStep, Reads, callVars
<1>7. /\ DOMAIN stored' = Cells
      /\ \A p \in Cells : p = Cell /\ p \in Mine => stored'[p] = Blank
      /\ \A p \in Cells : (p = Cell /\ p \in Mine) \/ stored'[p] = stored[p]
  <2>1. DOMAIN stored = Cells
    BY DEF StoredInv
  <2>2. CASE Cell \in Mine
    <3>1. stored' = [stored EXCEPT ![Cell] = Blank]
      BY <1>3, <2>2 DEF Opened
    <3> QED BY <2>1, <2>2, <3>1
  <2>3. CASE Cell \notin Mine
    <3>1. stored' = stored
      BY <1>3, <2>3 DEF Opened
    <3> QED BY <2>1, <2>3, <3>1
  <2> QED BY <2>2, <2>3
<1>8. /\ FewEntries' => "entry" \notin elsewhere'
      /\ Traced' => /\ elsewhere' = {}
                    /\ \A p \in Cells : stored'[p] # Blank => CellOK(p, stored'[p], reply)
  BY <1>1, <1>7, TracedBefore DEF StoredInv
<1>9. ASSUME Traced', Member(jsontag) \in Saved
      PROVE  stored'[Cell] = Part(Field.text, at.n - 1)'
  <2>1. ~astray /\ FewEntries
    BY <1>9, TracedBefore DEF Traced
  <2>2. Cell \in Cells /\ Cell \in Mine /\ Field.quoted /\ Field \in SomeField
    BY <1>1, <1>9, <2>1, CellFacts, MineFacts
  <2>3. Field' = Field /\ at'.n = 1
    BY <1>1, <1>3, <1>4, <2>1, <2>2, EatFollows
  <2>4. stored'[Cell] = Blank
    BY <1>7, <2>2
  <2>5. SubSeq(Field.text, 1, 0) = <<>>
    BY <2>2, TextGrows DEF SomeField
  <2>6. Part(Field.text, 0) = Blank
    BY <2>5 DEF Part, Blank
  <2> QED BY <2>3, <2>4, <2>6 DEF Part
<1>10. ASSUME Traced', NEW k \in 1 .. Len(reply), NEW f \in 1 .. Len(reply[k]),
              Past(k, f)', Member(reply[k][f].tag) \in Saved
       PROVE  stored'[<<k, Member(reply[k][f].tag)>>] = Whole(reply[k][f].text)
  <2>1. ~astray
    BY <1>10, TracedBefore DEF Traced
  <2>2. ASSUME k = at.k, f = at.f  PROVE FALSE
    <3>1. Member(Field.tag) \in Saved /\ jsontag = Field.tag
      BY <1>1, <1>10, <2>1, <2>2, CellFacts DEF Field
    <3>2. Field.quoted
      BY <1>1, <2>1, <3>1, CellFacts
    <3>3. at.part = "open" /\ at'.part \in {"text", "shut"}
      BY <1>1, <1>3, <1>4, <2>1, <3>2, EatFollows
    <3>4. at'.k = at.k /\ at'.f = at.f /\ at.k \in Nat /\ at.f \in Nat
      <4>1. at.part \in OfFields
        BY <3>3 DEF OfFields
      <4>2. Char(1)
        BY <3>3, <4>1, BodyFacts, StepInText
      <4> QED BY <3>3, <4>2, BodyFacts DEF Char, FieldEnds, Step, StepTo
    <3> QED BY <1>10, <2>2, <3>3, <3>4 DEF Past
  <2> QED BY <1>1, <1>7, <1>10, <2>2, OtherCells
<1>11. Traced' => \A k \in 1 .. Len(reply) : \A f \in 1 .. Len(reply[k]) :
         LET m == Member(reply[k][f].tag) IN
         Past(k, f)' /\ m \in Saved => stored'[<<k, m>>] = Whole(reply[k][f].text)
  BY <1>10
<1>12. StoredInv'
  <2>1. Traced' /\ pc' = "data" /\ Member(jsontag') \in Saved
          => stored'[Cell'] = Part(Field.text, at.n - 1)'
    BY <1>1, <1>9 DEF Cell
  <2> QED BY <1>6, <1>7, <1>8, <1>11, <2>1 DEF StoredInv
<1> QED BY <1>5, <1>12

(* A parser that follows the answer is not at its end within an entry. *)
LEMMA NotAtEnd ==
  ASSUME InBody, ParseInv, ListStep, pc \in {"eat", "tagFirst", "tagMore", "tagRead", "data"},
         TimesOut, TimesOut /\ InTime' => at.part = "end"
  PROVE  ~InTime'
<1>1. InTime => Following
  BY DEF ParseInv
<1>2. Following => at.part # "end"
  BY DEF Following
<1> QED BY <1>1, <1>2 DEF ListStep

(* The quote behind a colon, whether or not it is there in time. *)
LEMMA EatStep ==
  ASSUME ReadInv, s \in Int, Eat
  PROVE  ReadInv'
<1>1. pc = "eat" /\ UNCHANGED <<callVars, netVars, i, pollVars, astray>>
  BY DEF Eat, parseKeep
<1>2. \/ Available /\ Consume /\ pc' \in {"data", "top"}
      \/ /\ TimesOut /\ at' = at /\ pc' = "close"
         /\ UNCHANGED <<data_instance, arrayVars>>
  BY DEF Eat, Finish, arrayVars
<1>3. /\ late' \in Nat /\ (InTime' => InTime)
      /\ TimesOut /\ InTime' => at.part = "end"
      /\ Available => ~Ended /\ ~TimesOut
  BY <1>1, <1>2, ListTimes
<1>4. ListStep
  BY <1>1, <1>2, <1>3 DEF ListStep, Reads, ListPcs
<1>5. ASSUME InBody  PROVE ParseInv' /\ StoredInv'
  <2>1. ParseInv /\ StoredInv
    BY <1>1, <1>5, BodyInv
  <2>2. CASE Available /\ Consume
    BY <1>3, <1>4, <1>5, <2>1, <2>2, EatReads
  <2>3. CASE TimesOut /\ at' = at /\ pc' = "close" /\ UNCHANGED <<data_instance, arrayVars>>
    <3>1. ~InTime'
      BY <1>1, <1>3, <1>4, <1>5, <2>1, <2>3, NotAtEnd
    <3> QED BY <1>1, <1>4, <1>5, <2>1, <2>3, <3>1, Stops
  <2> QED BY <1>2, <2>2, <2>3
<1> QED BY <1>4, <1>5, ListFrame

(* The steps that read a tag store nothing. *)
LEMMA TagStored ==
  ASSUME InBody, ParseInv, StoredInv, ListStep,
         pc \in {"tagFirst", "tagMore", "tagRead"}, pc' # "data", UNCHANGED arrayVars
  PROVE  StoredInv'
<1>1. ~astray => Following
  BY DEF ParseInv
<1>2. Following => at.part # "shut"
  BY DEF Following
<1> QED BY <1>1, <1>2, SameStored

(* And they leave the parser in the entry. *)
LEMMA TagParses ==
  ASSUME InBody, ParseInv, ListStep, pc \in {"tagFirst", "tagMore", "tagRead"},
         UNCHANGED <<parse, parsing, data_instance>>,
         pc' \in {"top", "tagMore", "tagRead"},
         ~astray' => Following', InTime' => ~astray'
  PROVE  ParseInv'
<1>1. CountInv' /\ Begun' # 0 /\ (parse' <=> at'.part # "[")
  BY EntryStays
<1>2. parsing' \in {"none", "tag"}
  BY DEF ParseInv
<1> QED BY <1>1, <1>2 DEF ParseInv

(* In a tag comes the next character, or the quote. *)
LEMMA TagGoesOn ==
  ASSUME InBody, ListStep, Consume, at.part \in {"tag", "tagEnd"}
  PROVE  /\ Field' = Field /\ Field.tag \in Seq(Letters) /\ Len(Field.tag) \in Nat
         /\ at.n \in Nat
         /\ at.part = "tag" => /\ at.n \in 1 .. Len(Field.tag) /\ Symbol = Field.tag[at.n]
                               /\ at'.part \in {"tag", "tagEnd"} /\ at'.n = at.n + 1
         /\ at.part = "tagEnd" => /\ at.n = Len(Field.tag) + 1 /\ Symbol = "Q"
                                  /\ at'.part = ":"
<1>1. AtType /\ AnswerOK /\ PlaceOK /\ at.n \in Nat
  BY BodyFacts
<1>2. Field.tag \in Seq(Letters) /\ Len(Field.tag) \in Nat
  BY <1>1, FieldFacts DEF OfFields, SomeField
<1>3. CASE at.part = "tag"
  <2>1. at.n \in 1 .. Len(Field.tag) /\ Symbol = Field.tag[at.n]
    BY <1>1, <1>3, SymbolOf DEF PlaceOK
  <2>2. \/ StepTo("tag", at.k, at.f, at.n + 1)
        \/ StepTo("tagEnd", at.k, at.f, at.n + 1)
    BY <1>1, <1>3, StepElsewhere
  <2>3. Field' = Field
    BY <2>2, FieldSame
  <2> QED BY <1>1, <1>2, <1>3, <2>1, <2>2, <2>3 DEF StepTo
<1>4. CASE at.part = "tagEnd"
  <2>1. at.n = Len(Field.tag) + 1 /\ Symbol = "Q" /\ Step(":")
    BY <1>1, <1>4, SymbolOf, StepElsewhere DEF PlaceOK, Quoting
  <2>2. Field' = Field
    BY <2>1, FieldSame DEF Step
  <2> QED BY <1>1, <1>2, <1>4, <2>1, <2>2 DEF Step, StepTo
<1> QED BY <1>3, <1>4

(* The first character of a tag. *)
LEMMA TagFirstReads ==
  ASSUME InBody, ParseInv, StoredInv, ListStep, TagFirst, ~Ended, Consume, Available, ~TimesOut
  PROVE  ParseInv' /\ StoredInv'
<1>1. /\ pc = "tagFirst" /\ pc' = "tagMore" /\ c' = Symbol /\ jsontag' = <<>>
      /\ UNCHANGED <<parse, parsing, data_instance, astray, arrayVars>>
  BY DEF TagFirst, tagKeep
<1>2. ~astray => at.part = "tag" /\ at.n = 1
  BY <1>1 DEF ParseInv, Following
<1>3. ASSUME ~astray  PROVE Following'
  <2>1. /\ at'.part \in {"tag", "tagEnd"} /\ at'.n = 2 /\ Field' = Field
        /\ Symbol = Field.tag[1] /\ Field.tag \in Seq(Letters)
    BY <1>2, <1>3, TagGoesOn
  <2>2. SubSeq(Field.tag, 1, 0) = <<>>
    BY <2>1, TextGrows
  <2>3. at'.n > 1 /\ at'.n - 1 = 1 /\ at'.n - 2 = 0
    BY <2>1
  <2>4. c' = Field'.tag[at'.n - 1] /\ jsontag' = SubSeq(Field'.tag, 1, at'.n - 2)
    BY <1>1, <2>1, <2>2, <2>3
  <2> QED BY <1>1, <2>1, <2>3, <2>4 DEF Following
<1>4. InTime' => ~astray'
  BY <1>1 DEF ListStep, ParseInv
<1>5. ParseInv'
  BY <1>1, <1>3, <1>4, TagParses
<1>6. StoredInv'
  BY <1>1, TagStored
<1> QED BY <1>5, <1>6

(* The first character of a tag, whether or not it is there in time. *)
LEMMA TagFirstStep ==
  ASSUME ReadInv, s \in Int, TagFirst
  PROVE  ReadInv'
<1>1. pc = "tagFirst" /\ UNCHANGED <<callVars, netVars, i, pollVars>>
  BY DEF TagFirst, tagKeep, parseKeep
<1>2. \/ Available /\ Consume /\ pc' = "tagMore"
      \/ TimesOut /\ at' = at /\ pc' = "close"
  BY DEF TagFirst, Finish
<1>3. UNCHANGED <<data_instance, astray, arrayVars>>
  BY DEF TagFirst, tagKeep
<1>4. /\ late' \in Nat /\ (InTime' => InTime)
      /\ TimesOut /\ InTime' => at.part = "end"
      /\ Available => ~Ended /\ ~TimesOut
  BY <1>1, <1>2, ListTimes
<1>5. ListStep
  BY <1>1, <1>2, <1>3, <1>4 DEF ListStep, Reads, ListPcs
<1>6. ASSUME InBody  PROVE ParseInv' /\ StoredInv'
  <2>1. ParseInv /\ StoredInv
    BY <1>1, <1>6, BodyInv
  <2>2. CASE Available /\ Consume
    BY <1>4, <1>5, <1>6, <2>1, <2>2, TagFirstReads
  <2>3. CASE TimesOut /\ at' = at /\ pc' = "close"
    <3>1. ~InTime'
      BY <1>1, <1>4, <1>5, <1>6, <2>1, <2>3, NotAtEnd
    <3> QED BY <1>3, <1>5, <1>6, <2>1, <2>3, <3>1, Stops
  <2> QED BY <1>2, <2>2, <2>3
<1> QED BY <1>5, <1>6, ListFrame

(* A further character of a tag. *)
LEMMA TagReadReads ==
  ASSUME InBody, ParseInv, StoredInv, ListStep, TagRead, ~Ended, Consume, Available, ~TimesOut
  PROVE  ParseInv' /\ StoredInv'
<1>1. /\ pc = "tagRead" /\ pc' = "tagMore" /\ c' = Symbol
      /\ UNCHANGED <<jsontag, parse, parsing, data_instance, astray, arrayVars>>
  BY DEF TagRead, tagKeep
<1>2. ~astray => /\ at.part \in {"tag", "tagEnd"}
                 /\ jsontag = SubSeq(Field.tag, 1, at.n - 1)
  BY <1>1 DEF ParseInv, Following
<1>3. ASSUME ~astray  PROVE Following'
  <2>1. /\ Field' = Field /\ Field.tag \in Seq(Letters) /\ Len(Field.tag) \in Nat
        /\ at.n \in Nat
        /\ at.part = "tag" => /\ at.n \in 1 .. Len(Field.tag) /\ Symbol = Field.tag[at.n]
                              /\ at'.part \in {"tag", "tagEnd"} /\ at'.n = at.n + 1
        /\ at.part = "tagEnd" => /\ at.n = Len(Field.tag) + 1 /\ Symbol = "Q"
                                 /\ at'.part = ":"
    BY <1>2, <1>3, TagGoesOn
  <2>2. CASE at.part = "tag"
    <3>1. at'.n > 1 /\ at'.n - 1 = at.n /\ at'.n - 2 = at.n - 1
      BY <2>1, <2>2
    <3>2. c' = Field'.tag[at'.n - 1] /\ jsontag' = SubSeq(Field'.tag, 1, at'.n - 2)
      BY <1>1, <1>2, <1>3, <2>1, <2>2, <3>1
    <3> QED BY <1>1, <2>1, <2>2, <3>1, <3>2 DEF Following
  <2>3. CASE at.part = "tagEnd"
    <3>1. SubSeq(Field.tag, 1, Len(Field.tag)) = Field.tag
      BY <2>1, TextGrows
    <3>2. at.n - 1 = Len(Field.tag)
      BY <2>1, <2>3
    <3>3. jsontag' = Field'.tag
      BY <1>1, <1>2, <1>3, <2>1, <3>1, <3>2
    <3> QED BY <1>1, <2>1, <2>3, <3>3 DEF Following
  <2> QED BY <1>2, <1>3, <2>2, <2>3
<1>4. InTime' => ~astray'
  BY <1>1 DEF ListStep, ParseInv
<1>5. ParseInv'
  BY <1>1, <1>3, <1>4, TagParses
<1>6. StoredInv'
  BY <1>1, TagStored
<1> QED BY <1>5, <1>6

(* A further character of a tag, whether or not it is there in time. *)
LEMMA TagReadStep ==
  ASSUME ReadInv, s \in Int, TagRead
  PROVE  ReadInv'
<1>1. pc = "tagRead" /\ UNCHANGED <<callVars, netVars, i, pollVars>>
  BY DEF TagRead, tagKeep, parseKeep
<1>2. \/ Available /\ Consume /\ pc' = "tagMore"
      \/ TimesOut /\ at' = at /\ pc' = "close"
  BY DEF TagRead, Finish
<1>3. UNCHANGED <<data_instance, astray, arrayVars>>
  BY DEF TagRead, tagKeep
<1>4. /\ late' \in Nat /\ (InTime' => InTime)
      /\ TimesOut /\ InTime' => at.part = "end"
      /\ Available => ~Ended /\ ~TimesOut
  BY <1>1, <1>2, ListTimes
<1>5. ListStep
  BY <1>1, <1>2, <1>3, <1>4 DEF ListStep, Reads, ListPcs
<1>6. ASSUME InBody  PROVE ParseInv' /\ StoredInv'
  <2>1. ParseInv /\ StoredInv
    BY <1>1, <1>6, BodyInv
  <2>2. CASE Available /\ Consume
    BY <1>4, <1>5, <1>6, <2>1, <2>2, TagReadReads
  <2>3. CASE TimesOut /\ at' = at /\ pc' = "close"
    <3>1. ~InTime'
      BY <1>1, <1>4, <1>5, <1>6, <2>1, <2>3, NotAtEnd
    <3> QED BY <1>3, <1>5, <1>6, <2>1, <2>3, <3>1, Stops
  <2> QED BY <1>2, <2>2, <2>3
<1> QED BY <1>5, <1>6, ListFrame

(* A late character ends the tag, unless all of it is read. *)
LEMMA TagMoreFollows ==
  ASSUME InBody, ParseInv, ListStep, TagMore, at' = at
  PROVE  ~astray' => Following'
<1>1. AtType /\ AnswerOK /\ PlaceOK /\ Field' = Field /\ at.n \in Nat
  <2>1. reply' = reply
    BY DEF ListStep, Reads, callVars
  <2> QED BY <2>1, BodyFacts DEF Field
<1>2. /\ pc = "tagMore" /\ c' = c
      /\ \/ c = "Q" /\ pc' = "top" /\ jsontag' = jsontag
         \/ c # "Q" /\ pc' = "tagRead" /\ jsontag' = Append(jsontag, c)
         \/ c # "Q" /\ astray'
  BY DEF TagMore
<1>3. SUFFICES ASSUME ~astray'  PROVE Following'
  OBVIOUS
<1>4. Following
  BY <1>2, <1>3 DEF ParseInv, ListStep
<1>5. CASE /\ at.part \in {"tag", "tagEnd"} /\ at.n > 1
           /\ c = Field.tag[at.n - 1] /\ jsontag = SubSeq(Field.tag, 1, at.n - 2)
  <2>1. /\ Field.tag \in Seq(Letters) /\ Len(Field.tag) \in Nat
    BY <1>1, <1>5, FieldFacts DEF OfFields, SomeField
  <2>2. at.n - 1 \in 1 .. Len(Field.tag)
    BY <1>1, <1>5, <2>1 DEF PlaceOK
  <2>3. c \in Letters
    BY <1>5, <2>1, <2>2, ElementOfSeq
  <2>4. c # "Q"
    BY <2>3 DEF Letters
  <2>5. pc' = "tagRead" /\ jsontag' = Append(jsontag, c)
    BY <1>2, <1>3, <2>4
  <2>6. (at.n - 1) - 1 = at.n - 2
    BY <1>1
  <2>7. Append(SubSeq(Field.tag, 1, at.n - 2), Field.tag[at.n - 1])
          = SubSeq(Field.tag, 1, at.n - 1)
    BY <2>1, <2>2, <2>6, TextGrows
  <2>8. jsontag' = SubSeq(Field'.tag, 1, at'.n - 1)
    BY <1>1, <1>5, <2>5, <2>7
  <2> QED BY <1>5, <2>5, <2>8 DEF Following
<1>6. CASE at.part = ":" /\ c = "Q" /\ jsontag = Field.tag
  BY <1>1, <1>2, <1>3, <1>6 DEF Following
<1> QED BY <1>2, <1>4, <1>5, <1>6 DEF Following

(* The end of a tag is its quote, or nothing more in time. *)
LEMMA TagMoreStep ==
  ASSUME ReadInv, s \in Int, TagMore
  PROVE  ReadInv'
<1>1. pc = "tagMore" /\ UNCHANGED <<callVars, netVars, i, pollVars, at, c>>
  BY DEF TagMore, tagKeep, parseKeep
<1>2. UNCHANGED <<parse, parsing, data_instance, arrayVars>>
  BY DEF TagMore, tagKeep
<1>3. /\ (Available /\ astray' = astray) \/ TimesOut
      /\ pc' \in {"top", "tagRead"}
      /\ astray => astray'
  <2>1. pc' \in {"top", "tagRead"}
    BY DEF TagMore
  <2>2. (Available /\ astray' = astray) \/ (TimesOut /\ (astray => astray'))
    BY Zenon DEF TagMore
  <2>3. astray' = astray => (astray => astray')
    OBVIOUS
  <2> QED BY <2>1, <2>2, <2>3, Zenon
<1>4. /\ late' \in Nat /\ (InTime' => InTime)
      /\ TimesOut /\ InTime' => at.part = "end"
  BY <1>1, <1>3, ListTimes
<1>5. ListStep
  BY <1>1, <1>3, <1>4 DEF ListStep, Reads, ListPcs
<1>6. ASSUME InBody  PROVE ParseInv' /\ StoredInv'
  <2>1. ParseInv /\ StoredInv
    BY <1>1, <1>6, BodyInv
  <2>2. ~astray' => Following'
    BY <1>1, <1>5, <1>6, <2>1, TagMoreFollows
  <2>3. InTime' => ~astray'
    <3>1. TimesOut => ~InTime'
      BY <1>1, <1>4, <1>5, <1>6, <2>1, NotAtEnd
    <3> QED BY <1>3, <1>4, <2>1, <3>1 DEF ParseInv
  <2>4. ParseInv'
    BY <1>1, <1>2, <1>3, <1>5, <1>6, <2>1, <2>2, <2>3, TagParses
  <2>5. StoredInv'
    BY <1>1, <1>2, <1>3, <1>5, <1>6, <2>1, TagStored
  <2> QED BY <2>4, <2>5
<1> QED BY <1>5, <1>6, ListFrame

----------------------------------------------------------------------------
(* The characters of a value.                                              *)

(* A character of a value is followed by the next one, and its end by      *)
(* what is between two fields.                                             *)
LEMMA DataFollows ==
  ASSUME InBody, ListStep, Following, pc = "data", ~Ended, Consume, jsontag' = jsontag,
         \/ Symbol \in {"Q", "COMMA"} /\ pc' = "top" /\ parsing' = "none"
         \/ Symbol \notin {"Q", "COMMA"} /\ pc' = "data"
  PROVE  /\ Following'
         /\ \/ at.part = "text" /\ pc' = "data" /\ Field' = Field
            \/ at.part = "shut" /\ pc' = "top"
            \/ at.part = "COMMA" /\ pc' = "top" /\ ~Field.quoted
<1>1. AtType /\ AnswerOK /\ PlaceOK /\ at.part \in InList
  BY BodyFacts DEF Ended
<1>2. /\ Symbol = "COMMA" <=> at.part \in {"COMMA", "next"}
      /\ Symbol = "Q" <=> at.part \in Quoting
  BY <1>1, ListFacts, QuoteFacts DEF InBody, Parts
<1>3. jsontag = Field.tag /\ \/ at.part = "text"
                             \/ at.part = "shut"
                             \/ at.part = "COMMA" /\ ~Field.quoted
  BY DEF Following
<1>4. CASE at.part = "text"
  <2>1. pc' = "data"
    BY <1>2, <1>4 DEF Quoting
  <2>2. Field' = Field /\ \/ at'.part \in {"text", "shut"}
                          \/ at'.part = "COMMA" /\ ~Field.quoted
    BY <1>4, ValueGoesOn
  <2> QED BY <1>3, <1>4, <2>1, <2>2 DEF Following
<1>5. CASE at.part = "shut"
  <2>1. pc' = "top" /\ parsing' = "none"
    BY <1>2, <1>5 DEF Quoting
  <2>2. at'.part \in {"COMMA", "END"}
    <3>1. FieldEnds
      BY <1>1, <1>5, StepInText DEF OfFields
    <3> QED BY <3>1 DEF FieldEnds, Step, StepTo
  <2> QED BY <1>5, <2>1, <2>2 DEF Following, Between
<1>6. CASE at.part = "COMMA" /\ ~Field.quoted
  <2>1. pc' = "top" /\ parsing' = "none"
    BY <1>2, <1>6
  <2>2. at'.part = "quote"
    BY <1>1, <1>6, StepElsewhere DEF StepTo
  <2> QED BY <1>6, <2>1, <2>2 DEF Following, Between
<1> QED BY <1>3, <1>4, <1>5, <1>6

(* What a character, or the quote behind the last, makes of the cell. *)
LEMMA CellStep ==
  ASSUME InBody, ParseInv, StoredInv, ListStep, Traced, pc = "data",
         Member(jsontag) \in Saved, ~Ended, Consume,
         \/ at.part = "text" /\ stored' = [stored EXCEPT ![Cell].text = Append(@, Symbol)]
         \/ at.part = "shut" /\ stored' = [stored EXCEPT ![Cell].done = TRUE]
  PROVE  /\ at.part = "text" => /\ at.n \in 1 .. Len(Field.text)
                                /\ stored'[Cell] = Part(Field.text, at.n)
         /\ at.part = "shut" => stored'[Cell] = Whole(Field.text)
         /\ DOMAIN stored' = Cells
         /\ \A p \in Cells : p # Cell => stored'[p] = stored[p]
         /\ From(stored'[Cell], Field)
<1>1. AtType /\ AnswerOK /\ PlaceOK /\ Cell \in Cells /\ Field \in SomeField
      /\ Len(Field.text) \in Nat
  BY BodyFacts, CellFacts, MineFacts DEF Traced
<1>2. Field.text \in Seq(Letters)
  BY <1>1 DEF SomeField
<1>3. DOMAIN stored = Cells /\ stored[Cell] = Part(Field.text, at.n - 1)
  BY DEF StoredInv
<1>4. CASE at.part = "text"
  <2>1. at.n \in 1 .. Len(Field.text) /\ Symbol = Field.text[at.n]
    BY <1>1, <1>4, SymbolOf DEF PlaceOK
  <2>2. stored' = [stored EXCEPT ![Cell].text = Append(@, Symbol)]
    BY <1>4
  <2>3. stored'[Cell] = [stored[Cell] EXCEPT !.text = Append(@, Symbol)]
    BY <1>1, <1>3, <2>2
  <2>4. Append(SubSeq(Field.text, 1, at.n - 1), Field.text[at.n]) = SubSeq(Field.text, 1, at.n)
    BY <1>2, <2>1, TextGrows
  <2>5. stored'[Cell] = Part(Field.text, at.n)
    <3>1. stored[Cell] = [text |-> SubSeq(Field.text, 1, at.n - 1), done |-> FALSE]
      BY <1>3, Zenon DEF Part
    <3>2. stored'[Cell] = [text |-> Append(SubSeq(Field.text, 1, at.n - 1), Symbol), done |-> FALSE]
      <4> DEFINE no == FALSE
                 text == SubSeq(Field.text, 1, at.n - 1)
                 cell == stored[Cell]
                 next == stored'[Cell]
      <4>1. cell = [text |-> text, done |-> no]
        BY <3>1
      <4>2. next = [cell EXCEPT !.text = Append(@, Symbol)]
        BY <2>3
      <4> HIDE DEF no, text, cell, next
      <4>3. next = [text |-> Append(text, Symbol), done |-> no]
        BY <4>1, <4>2
      <4> QED BY <4>3 DEF no, text, next
    <3> QED BY <2>1, <2>4, <3>2, Zenon DEF Part
  <2>6. DOMAIN stored' = Cells
    BY <1>3, <2>2
  <2>7. \A p \in Cells : p # Cell => stored'[p] = stored[p]
    BY <1>3, <2>2
  <2> QED BY <1>1, <1>4, <2>1, <2>5, <2>6, <2>7 DEF From
<1>5. CASE at.part = "shut"
  <2>1. at.n - 1 = Len(Field.text)
    BY <1>1, <1>5 DEF PlaceOK
  <2>2. stored' = [stored EXCEPT ![Cell].done = TRUE]
    BY <1>5
  <2>3. stored'[Cell] = [stored[Cell] EXCEPT !.done = TRUE]
    BY <1>1, <1>3, <2>2
  <2>4. SubSeq(Field.text, 1, Len(Field.text)) = Field.text
    BY <1>2, TextGrows
  <2>5. stored'[Cell] = Whole(Field.text)
    <3>1. stored[Cell] = [text |-> Field.text, done |-> FALSE]
      BY <1>3, <2>1, <2>4, Zenon DEF Part
    <3>2. stored'[Cell] = [text |-> Field.text, done |-> TRUE]
      <4> DEFINE no == FALSE
                 yes == TRUE
                 text == Field.text
                 cell == stored[Cell]
                 next == stored'[Cell]
      <4>1. cell = [text |-> text, done |-> no]
        BY <3>1
      <4>2. next = [cell EXCEPT !.done = yes]
        BY <2>3
      <4> HIDE DEF no, yes, text, cell, next
      <4>3. next = [text |-> text, done |-> yes]
        BY <4>1, <4>2
      <4> QED BY <4>3 DEF yes, text, next
    <3> QED BY <3>2, Zenon DEF Whole
  <2>6. DOMAIN stored' = Cells
    BY <1>3, <2>2
  <2>7. \A p \in Cells : p # Cell => stored'[p] = stored[p]
    BY <1>3, <2>2
  <2> QED BY <1>5, <2>5, <2>6, <2>7 DEF From
<1> QED BY <1>4, <1>5

(* A character of a value that is saved. *)
LEMMA DataSaves ==
  ASSUME InBody, ParseInv, StoredInv, ListStep, pc = "data",
         Traced', Member(jsontag) \in Saved,
         jsontag' = jsontag, data_instance' = data_instance,
         ~Ended, Consume,
         \/ at.part = "text" /\ pc' = "data"
              /\ stored' = [stored EXCEPT ![Cell].text = Append(@, Symbol)]
         \/ at.part = "shut" /\ pc' = "top"
              /\ stored' = [stored EXCEPT ![Cell].done = TRUE]
  PROVE  /\ \A p \in Cells : stored'[p] # Blank => CellOK(p, stored'[p], reply)
         /\ pc' = "data" => stored'[Cell] = Part(Field.text, at.n - 1)'
         /\ \A k \in 1 .. Len(reply) : \A f \in 1 .. Len(reply[k]) :
              LET m == Member(reply[k][f].tag) IN
              Past(k, f)' /\ m \in Saved => stored'[<<k, m>>] = Whole(reply[k][f].text)
<1>0. Traced /\ ~astray /\ FewEntries
  BY TracedBefore DEF Traced
<1>1. /\ jsontag = Field.tag /\ Field.quoted /\ Cell = <<at.k, Member(Field.tag)>>
      /\ at.k \in 1 .. Len(reply) /\ at.f \in 1 .. Len(reply[at.k])
  BY <1>0, CellFacts
<1>2. /\ at.part = "text" => /\ at.n \in 1 .. Len(Field.text)
                             /\ stored'[Cell] = Part(Field.text, at.n)
      /\ at.part = "shut" => stored'[Cell] = Whole(Field.text)
      /\ \A p \in Cells : p # Cell => stored'[p] = stored[p]
      /\ From(stored'[Cell], Field)
  BY <1>0, CellStep
<1>3. CellOK(Cell, stored'[Cell], reply)
  <2>1. Cell[1] = at.k /\ Cell[2] = Member(Field.tag)
    BY <1>1
  <2>2. Member(reply[at.k][at.f].tag) = Cell[2] /\ From(stored'[Cell], reply[at.k][at.f])
    BY <1>2, <2>1 DEF Field
  <2> QED BY <1>1, <2>1, <2>2 DEF CellOK
<1>4. \A p \in Cells : stored'[p] # Blank => CellOK(p, stored'[p], reply)
  BY <1>0, <1>2, <1>3 DEF StoredInv
<1>5. ASSUME pc' = "data"  PROVE stored'[Cell] = Part(Field.text, at.n - 1)'
  <2>1. at.part = "text"
    BY <1>5
  <2>2. Field' = Field /\ at'.n = at.n + 1
    BY <1>1, <2>1, ValueGoesOn
  <2>3. at'.n - 1 = at.n
    BY <2>2, BodyFacts
  <2> QED BY <1>2, <2>1, <2>2, <2>3 DEF Part
<1>6. ASSUME NEW k \in 1 .. Len(reply), NEW f \in 1 .. Len(reply[k]),
             Past(k, f)', Member(reply[k][f].tag) \in Saved
      PROVE  stored'[<<k, Member(reply[k][f].tag)>>] = Whole(reply[k][f].text)
  <2>1. CASE k = at.k /\ f = at.f /\ at.part = "text"
    <3>1. at'.part \in {"text", "shut"}
      BY <1>1, <2>1, ValueGoesOn
    <3>2. at'.k = at.k /\ at'.f = at.f
      <4>1. Char(at.n + 1)
        BY <2>1, BodyFacts, StepInText DEF OfFields
      <4> QED BY <3>1, <4>1 DEF Char, FieldEnds, Step, StepTo
    <3>3. at.k \in Nat /\ at.f \in Nat
      BY BodyFacts
    <3> QED BY <1>6, <2>1, <3>1, <3>2, <3>3 DEF Past
  <2>2. CASE k = at.k /\ f = at.f /\ at.part = "shut"
    <3>1. Cell = <<k, Member(reply[k][f].tag)>>
      BY <1>1, <2>2 DEF Field
    <3>2. stored'[Cell] = Whole(reply[k][f].text)
      BY <1>2, <2>2 DEF Field
    <3> QED BY <3>1, <3>2
  <2>3. CASE ~(k = at.k /\ f = at.f)
    BY <1>2, <1>6, <2>3, OtherCells
  <2> QED BY <2>1, <2>2, <2>3
<1> QED BY <1>4, <1>5, <1>6

(* What is not saved is not written, and what is has room, if the text has. *)
LEMMA DataInPlace ==
  ASSUME InBody, ParseInv, StoredInv, ListStep, Data, pc = "data", ~TimesOut
  PROVE  /\ FewEntries' => "entry" \notin elsewhere'
         /\ Traced' /\ (Member(jsontag) \in Saved => at.part \in {"text", "shut"})
              => elsewhere' = {}
<1>1. elsewhere' = elsewhere \cup Misses(Cell)
  BY DEF Data
<1>2. FewEntries' = FewEntries /\ (Traced' => Traced /\ TextsFit)
  BY TracedBefore
<1>3. Cell[2] = Member(jsontag)
  BY DEF Cell
<1>4. FewEntries => "entry" \notin Misses(Cell)
  <2>1. FewEntries /\ Cell[2] \in Saved => Cell \in Mine
    BY <1>3, MineFacts
  <2> QED BY <2>1 DEF Misses
<1>5. ASSUME Traced, TextsFit, Member(jsontag) \in Saved => at.part \in {"text", "shut"}
      PROVE  Misses(Cell) = {}
  <2>1. CASE Member(jsontag) \notin Saved
    BY <1>3, <2>1 DEF Misses
  <2>2. CASE Member(jsontag) \in Saved
    <3>1. ~astray /\ FewEntries
      BY <1>5 DEF Traced
    <3>2. /\ jsontag = Field.tag /\ Cell = <<at.k, Member(Field.tag)>>
          /\ at.k \in 1 .. Len(reply) /\ at.f \in 1 .. Len(reply[at.k])
          /\ Field \in SomeField /\ Len(Field.text) \in Nat
      BY <3>1, CellFacts
    <3>3. Cell \in Mine
      BY <2>2, <3>1, MineFacts
    <3>4. reply \in Seq(Instances) /\ Len(reply[at.k]) \in Nat /\ reply[at.k] \in Seq(SomeField)
      BY <3>2, BodyFacts, EntryFacts DEF InBody, AnswerOK
    <3>5. at.k \in DOMAIN reply /\ at.f \in DOMAIN reply[at.k]
      BY <3>2, <3>4, LenProperties
    <3>6. Len(Field.text) < Room[Member(Field.tag)]
      BY <1>5, <2>2, <3>2, <3>5 DEF TextsFit, Field
    <3>7. stored[Cell] = Part(Field.text, at.n - 1)
      BY <1>5, <2>2 DEF StoredInv
    <3>8. at.n - 1 \in 0 .. Len(Field.text)
      <4>1. at.n \in Nat /\ PlaceOK
        BY BodyFacts
      <4> QED BY <1>5, <2>2, <3>2, <4>1 DEF PlaceOK
    <3>9. Len(SubSeq(Field.text, 1, at.n - 1)) = at.n - 1
      <4>1. Field.text \in Seq(Letters)
        BY <3>2 DEF SomeField
      <4> HIDE DEF Field
      <4> QED BY <3>8, <4>1, TextBegins
    <3>10. stored[Cell].text = SubSeq(Field.text, 1, at.n - 1)
      <4> DEFINE no == FALSE
                 text == SubSeq(Field.text, 1, at.n - 1)
                 cell == stored[Cell]
      <4>1. cell = [text |-> text, done |-> no]
        BY <3>7 DEF Part
      <4> HIDE DEF no, text, cell
      <4>2. cell.text = text
        BY <4>1
      <4> QED BY <4>2 DEF text, cell
    <3>11. Room[Cell[2]] \in Nat
      BY <1>3, <2>2, RoomAssumption DEF Saved
    <3>12. Len(stored[Cell].text) < Room[Cell[2]]
      <4>1. Cell[2] = Member(Field.tag)
        BY <1>3, <3>2
      <4>2. Len(stored[Cell].text) = at.n - 1
        BY <3>9, <3>10, Zenon
      <4>3. Len(Field.text) < Room[Cell[2]]
        BY <3>6, <4>1, Zenon
      <4> QED BY <3>2, <3>8, <3>11, <4>2, <4>3
    <3> QED BY <1>3, <2>2, <3>3, <3>12 DEF Misses
  <2> QED BY <2>1, <2>2
<1> QED BY <1>1, <1>2, <1>4, <1>5 DEF StoredInv

(* A character of a value, stored or not. *)
LEMMA DataReads ==
  ASSUME InBody, ParseInv, StoredInv, ListStep, Data, ~Ended, Consume, Available, ~TimesOut
  PROVE  ParseInv' /\ StoredInv'
<1>1. pc = "data" /\ UNCHANGED <<parse, data_instance, jsontag, astray>>
  BY DEF Data
<1>2. \/ Symbol \in {"Q", "COMMA"} /\ pc' = "top" /\ parsing' = "none"
      \/ Symbol \notin {"Q", "COMMA"} /\ pc' = "data"
  BY DEF Data
<1>3. stored' = IF Cell \notin Mine THEN stored
                ELSE IF Symbol \in {"Q", "COMMA"} THEN [stored EXCEPT ![Cell].done = TRUE]
                ELSE [stored EXCEPT ![Cell].text = Append(@, Symbol)]
  BY Zenon DEF Data
<1>4. ASSUME ~astray
      PROVE  /\ Following'
             /\ \/ at.part = "text" /\ pc' = "data" /\ Field' = Field
                \/ at.part = "shut" /\ pc' = "top"
                \/ at.part = "COMMA" /\ pc' = "top" /\ ~Field.quoted
  <2>1. Following
    BY <1>1, <1>4 DEF ParseInv
  <2> QED BY <1>1, <1>2, <2>1, DataFollows
<1>5. ParseInv'
  <2>1. CountInv' /\ Begun' # 0 /\ (parse' <=> at'.part # "[")
    BY <1>1, EntryStays
  <2>2. InTime' => ~astray'
    BY <1>1 DEF ListStep, ParseInv
  <2> QED BY <1>1, <1>2, <1>4, <2>1, <2>2 DEF ParseInv
<1>6. ASSUME Traced', Member(jsontag) \in Saved
      PROVE  \/ at.part = "text" /\ pc' = "data"
                  /\ stored' = [stored EXCEPT ![Cell].text = Append(@, Symbol)]
             \/ at.part = "shut" /\ pc' = "top"
                  /\ stored' = [stored EXCEPT ![Cell].done = TRUE]
  <2>1. ~astray /\ FewEntries
    BY <1>6, TracedBefore DEF Traced
  <2>2. Field.quoted /\ Cell \in Mine
    BY <1>1, <1>6, <2>1, CellFacts, MineFacts
  <2>3. \/ at.part = "text" /\ pc' = "data"
        \/ at.part = "shut" /\ pc' = "top"
    BY <1>4, <2>1, <2>2
  <2>4. /\ pc' = "data" => Symbol \notin {"Q", "COMMA"}
        /\ pc' = "top" => Symbol \in {"Q", "COMMA"}
    BY <1>2
  <2> QED BY <1>3, <2>2, <2>3, <2>4, Zenon
<1>7. /\ FewEntries' => "entry" \notin elsewhere'
      /\ Traced' => elsewhere' = {}
  BY <1>1, <1>6, DataInPlace
<1>8. DOMAIN stored' = Cells
  BY <1>3 DEF StoredInv
<1>9. Cells' = Cells /\ reply' = reply /\ Cell' = Cell
  BY <1>1 DEF Cells, ListStep, Reads, callVars, Cell
<1>10. ASSUME Traced'
       PROVE  /\ \A p \in Cells : stored'[p] # Blank => CellOK(p, stored'[p], reply)
              /\ pc' = "data" /\ Member(jsontag) \in Saved
                   => stored'[Cell] = Part(Field.text, at.n - 1)'
              /\ \A k \in 1 .. Len(reply) : \A f \in 1 .. Len(reply[k]) :
                   LET m == Member(reply[k][f].tag) IN
                   Past(k, f)' /\ m \in Saved => stored'[<<k, m>>] = Whole(reply[k][f].text)
  <2>1. CASE Member(jsontag) \in Saved
    BY <1>1, <1>6, <1>10, <2>1, DataSaves
  <2>2. CASE Member(jsontag) \notin Saved
    <3>1. Traced /\ ~astray
      BY <1>10, TracedBefore DEF Traced
    <3>2. Cell \notin Mine
      BY <2>2 DEF Cell, Mine
    <3>3. stored' = stored
      BY <1>3, <3>2
    <3>4. ASSUME NEW k \in 1 .. Len(reply), NEW f \in 1 .. Len(reply[k]),
                 Past(k, f)', Member(reply[k][f].tag) \in Saved
          PROVE  stored'[<<k, Member(reply[k][f].tag)>>] = Whole(reply[k][f].text)
      <4>1. ~(k = at.k /\ f = at.f)
        BY <1>1, <2>2, <3>1, <3>4, CellFacts DEF Field
      <4> QED BY <1>1, <1>10, <3>3, <3>4, <4>1, OtherCells
    <3> QED BY <2>2, <3>1, <3>3, <3>4 DEF StoredInv
  <2> QED BY <2>1, <2>2
<1>11. StoredInv'
  BY <1>1, <1>7, <1>8, <1>9, <1>10 DEF StoredInv
<1> QED BY <1>5, <1>11

(* A character of a value, whether or not it is there in time. *)
LEMMA DataStep ==
  ASSUME ReadInv, s \in Int, Data
  PROVE  ReadInv'
<1>1. pc = "data" /\ UNCHANGED <<callVars, netVars, i, pollVars, data_instance, astray>>
  BY DEF Data, parseKeep
<1>2. \/ Available /\ Consume /\ pc' \in {"top", "data"}
      \/ TimesOut /\ at' = at /\ pc' = "close" /\ UNCHANGED arrayVars
  BY DEF Data, Finish
<1>3. /\ late' \in Nat /\ (InTime' => InTime)
      /\ TimesOut /\ InTime' => at.part = "end"
      /\ Available => ~Ended /\ ~TimesOut
  BY <1>1, <1>2, ListTimes
<1>4. ListStep
  BY <1>1, <1>2, <1>3 DEF ListStep, Reads, ListPcs
<1>5. ASSUME InBody  PROVE ParseInv' /\ StoredInv'
  <2>1. ParseInv /\ StoredInv
    BY <1>1, <1>5, BodyInv
  <2>2. CASE Available /\ Consume
    BY <1>3, <1>4, <1>5, <2>1, <2>2, DataReads
  <2>3. CASE TimesOut /\ at' = at /\ pc' = "close" /\ UNCHANGED arrayVars
    <3>1. ~InTime'
      BY <1>1, <1>3, <1>4, <1>5, <2>1, <2>3, NotAtEnd
    <3> QED BY <1>1, <1>4, <1>5, <2>1, <2>3, <3>1, Stops
  <2> QED BY <1>2, <2>2, <2>3
<1> QED BY <1>4, <1>5, ListFrame

----------------------------------------------------------------------------
(* parse_poll_response.                                                    *)

(* The parser of one value at work, behind the headers. *)
InPoll == ReadInv /\ s \in Int /\ i = 4 /\ op = "poll"

(* The fields of an answer to a poll can be counted. *)
LEMMA FieldsCount ==
  ASSUME NEW n, n \in 2 .. 63
  PROVE  n \in Nat /\ n >= 2 /\ n <= 63
OBVIOUS

LEMMA FieldCount ==
  ASSUME NEW n \in Nat, n <= 63, NEW f, f \in 1 .. n
  PROVE  f \in 0 .. 63 /\ f # 0
OBVIOUS

(* What the parser of one value may take for granted of the answer. *)
LEMMA PollFacts ==
  ASSUME InPoll
  PROVE  /\ AtType /\ AnswerOK /\ PlaceOK
         /\ at.part \in InList \cup {"end"}
         /\ at.k \in Nat /\ at.f \in Nat /\ at.n \in Nat
         /\ at.part \in OfEntries => at.k = 1
         /\ Len(reply) = 1
         /\ Len(reply[1]) \in Nat /\ Len(reply[1]) >= 2 /\ Len(reply[1]) <= 63
         /\ reply[1] \in Seq(SomeField)
         /\ reply[1][1].quoted /\ reply[1][2].quoted
<1>1. PlaceInv /\ HeaderInv
  BY DEF InPoll, ReadInv
<1>2. AtType /\ AnswerOK /\ PlaceOK
  BY <1>1 DEF InPoll, PlaceInv, Answered
<1>3. at.part \in InList \cup {"end"}
  BY <1>1 DEF InPoll, PlaceInv, HeaderInv, Parts
<1>4. Len(reply) = 1
  BY <1>2 DEF InPoll, AnswerOK
<1>5. reply[1] \in Polled /\ reply[1] \in Seq(SomeField)
  BY <1>2, <1>4, EntryFacts DEF InPoll
<1>6. Len(reply[1]) \in 2 .. 63 /\ reply[1][1].quoted /\ reply[1][2].quoted
  BY <1>5, PolledAssumption, Zenon
<1>8. Len(reply[1]) \in Nat /\ Len(reply[1]) >= 2 /\ Len(reply[1]) <= 63
  BY <1>6, FieldsCount, Zenon
<1>7. at.part \in OfEntries => at.k = 1
  BY <1>2, <1>4 DEF PlaceOK
<1> QED BY <1>2, <1>3, <1>4, <1>5, <1>6, <1>7, <1>8 DEF AtType, IsPlace

(* What the steps of the parser have in common. *)
PollStep ==
  /\ pc \in PollPcs /\ pc' \in {"pollMark", "pollStore", "close"}
  /\ Reads /\ UNCHANGED <<netVars, i, parseVars>>
  /\ late' \in Nat /\ (InTime' => InTime)

(* With the end of the headers missed nothing is said of what is parsed. *)
LEMMA PollFrame ==
  ASSUME ReadInv, PollStep, InPoll => PollInv', s \in Int
  PROVE  ReadInv'
<1>1. PlaceInv /\ HeaderInv
  BY DEF ReadInv
<1>2. i' = i /\ op' = op
  BY DEF PollStep, Reads, callVars
<1>3. i = 4 => op = "poll" /\ at.part \notin {"200", "header", "400"}
  BY <1>1 DEF PollStep, HeaderInv
<1>4. i = 4 => InPoll
  BY <1>3 DEF InPoll
<1>5. PlaceInv'
  BY <1>1, <1>2, <1>3, ReadPlace
  DEF PollStep, PollPcs, Requests, Before, Answered
<1>6. i = 4 => at'.part \notin {"200", "header", "400"}
  <2>1. ASSUME i = 4, ~Ended, Consume  PROVE at'.part \in InList \cup {"end"}
    <3>1. AtType /\ AnswerOK /\ PlaceOK /\ at.part \in InList
      BY <1>4, <2>1, PollFacts DEF Ended
    <3> QED BY <2>1, <3>1, BodyStep DEF PollStep, Reads
  <2> QED BY <1>3, <2>1 DEF PollStep, Reads, InList, OfEntries, OfFields
<1>7. HeaderInv'
  <2>1. pc' \in PollPcs \cup {"close"} /\ pc' \in Reading
    BY DEF PollStep, PollPcs, Reading
  <2>2. pc' \notin {"first", "status", "skip", "match", "closeEarly"} /\ pc' \notin ListPcs
    BY DEF PollStep, ListPcs
  <2>3. InTime' => i' = 4
    BY <1>1, <1>2 DEF PollStep, HeaderInv, Reading
  <2> QED BY <1>2, <1>3, <1>6, <2>1, <2>2, <2>3 DEF HeaderInv, PollStep
<1>8. FreshInv'
  BY DEF PollStep, FreshInv, Reading, ListPcs, PollPcs
<1>9. pc' # "parseStart"
  BY DEF PollStep
<1> QED BY <1>2, <1>3, <1>4, <1>5, <1>7, <1>8, <1>9 DEF ReadInv

(* The quotes in front of a place, part by part. *)
LEMMA QuotesAre ==
  ASSUME NEW p
  PROVE  /\ p.part = "quote" => Quotes(p) = 4 * (p.f - 1) + 0
         /\ p.part \in {"tag", "tagEnd"} => Quotes(p) = 4 * (p.f - 1) + 1
         /\ p.part \in {":", "open"} => Quotes(p) = 4 * (p.f - 1) + 2
         /\ p.part \in {"text", "shut"} => Quotes(p) = 4 * (p.f - 1) + 3
         /\ p.part \in {"BEGIN", "COMMA", "END", "next", "[", "]", "end"} =>
              Quotes(p) = 4 * (p.f - 1) + 4
<1>1. p.part = "quote" => Quotes(p) = 4 * (p.f - 1) + 0
  BY DEF Quotes
<1>2. p.part \in {"tag", "tagEnd"} => Quotes(p) = 4 * (p.f - 1) + 1
  BY DEF Quotes
<1>3. p.part \in {":", "open"} => Quotes(p) = 4 * (p.f - 1) + 2
  BY DEF Quotes
<1>4. p.part \in {"text", "shut"} => Quotes(p) = 4 * (p.f - 1) + 3
  BY DEF Quotes
<1>5. p.part \in {"BEGIN", "COMMA", "END", "next", "[", "]", "end"} =>
        Quotes(p) = 4 * (p.f - 1) + 4
  BY DEF Quotes
<1> QED BY <1>1, <1>2, <1>3, <1>4, <1>5

(* They fit in a byte. *)
LEMMA QuotesFit ==
  ASSUME NEW p, p.part \in InList \cup {"end"}, p.f \in 0 .. 63, p.part # "BEGIN" => p.f # 0
  PROVE  Quotes(p) \in 0 .. 252
<1>1. \E n \in 0 .. 4 : Quotes(p) = 4 * (p.f - 1) + n
  BY QuotesAre DEF InList, OfEntries, OfFields
<1>2. p.part = "BEGIN" => Quotes(p) = 4 * (p.f - 1) + 4
  BY QuotesAre
<1> QED BY <1>1, <1>2

(* Where the one entry is read, and where the next symbol leads. *)
LEMMA PollPlaces ==
  ASSUME InPoll, Reads, ~Ended, Consume
  PROVE  /\ at.f \in 0 .. 63 /\ (at.part # "BEGIN" => at.f # 0)
         /\ Quotes(at) \in 0 .. 252 /\ Quotes(at') \in 0 .. 252
<1>1. /\ AtType /\ AnswerOK /\ PlaceOK /\ at.part \in InList /\ at.part \in Parts
      /\ op = "poll" /\ op' = op /\ reply' = reply
      /\ Len(reply) = 1
      /\ Len(reply[1]) \in Nat /\ Len(reply[1]) >= 2 /\ Len(reply[1]) <= 63
  BY PollFacts DEF Ended, Parts, InPoll, Reads, callVars
<1>2. AtType' /\ PlaceOK' /\ at'.part \in InList \cup {"end"}
  BY <1>1, PlaceStep, BodyStep DEF Reads
<1>3. at.f \in 0 .. 63 /\ (at.part # "BEGIN" => at.f # 0)
  <2>1. at.part \in OfFields \/ at.part = "BEGIN"
    BY <1>1 DEF PlaceOK, InList, OfEntries
  <2>2. at.k = 1 /\ (at.part = "BEGIN" => at.f = 0)
          /\ (at.part \in OfFields => at.f \in 1 .. Len(reply[1]))
    BY <1>1, <2>1 DEF PlaceOK, OfEntries
  <2>3. CASE at.part = "BEGIN"
    BY <2>2, <2>3
  <2>4. CASE at.part \in OfFields
    BY <1>1, <2>2, <2>4, FieldCount, Zenon
  <2> QED BY <2>1, <2>3, <2>4
<1>4. at'.f \in 0 .. 63 /\ (at'.part # "BEGIN" => at'.f # 0)
  <2>1. at'.part \in OfFields \/ at'.part \in {"BEGIN", "end"}
    BY <1>1, <1>2 DEF PlaceOK, InList, OfEntries
  <2>2. at'.k = 1 /\ (at'.part = "BEGIN" => at'.f = 0)
          /\ (at'.part \in OfFields => at'.f \in 1 .. Len(reply[1]))
          /\ (at'.part = "end" => at'.f = Len(reply[1]))
    BY <1>1, <1>2, <2>1 DEF PlaceOK, OfEntries
  <2>3. CASE at'.part = "BEGIN"
    BY <2>2, <2>3
  <2>4. CASE at'.part \in OfFields
    BY <1>1, <2>2, <2>4, FieldCount, Zenon
  <2>5. CASE at'.part = "end"
    <3>1. ASSUME NEW n \in Nat, n >= 2, n <= 63  PROVE n \in 0 .. 63 /\ n # 0
      BY <3>1
    <3> QED BY <1>1, <2>2, <2>5, <3>1, Zenon
  <2> QED BY <2>1, <2>3, <2>4, <2>5
<1> QED BY <1>1, <1>2, <1>3, <1>4, QuotesFit

(* Every quote that is read is one more in front of the cursor. *)
LEMMA QuotesGrow ==
  ASSUME InPoll, Reads, ~Ended, Consume
  PROVE  /\ Quotes(at') >= Quotes(at)
         /\ Symbol = "Q" => Quotes(at') >= Quotes(at) + 1
<1>1. /\ AtType /\ AnswerOK /\ PlaceOK /\ at.part \in InList /\ at.f \in 0 .. 63
      /\ Symbol = "Q" <=> at.part \in Quoting
  BY PollFacts, PollPlaces, QuoteFacts DEF Ended, Parts
<1>2. CASE at.part \in {"BEGIN", "COMMA"}
  <2>1. at'.part = "quote" /\ at'.f = at.f + 1
    BY <1>1, <1>2, StepElsewhere DEF StepTo
  <2>2. Quotes(at) = 4 * (at.f - 1) + 4 /\ Quotes(at') = 4 * (at'.f - 1) + 0
    BY <1>2, <2>1, QuotesAre
  <2>3. Symbol # "Q"
    BY <1>1, <1>2 DEF Quoting
  <2> QED BY <1>1, <2>1, <2>2, <2>3
<1>3. CASE at.part \in {"quote", "tag", "tagEnd"}
  <2>1. /\ at'.f = at.f
        /\ \/ at.part = "quote" /\ at'.part = "tag"
           \/ at.part = "tag" /\ at'.part \in {"tag", "tagEnd"}
           \/ at.part = "tagEnd" /\ at'.part = ":"
    BY <1>1, <1>3, StepElsewhere DEF Step, StepTo
  <2>2. CASE at.part = "quote"
    BY <1>1, <2>1, <2>2, QuotesAre
  <2>3. CASE at.part = "tag"
    BY <1>1, <2>1, <2>3, QuotesAre DEF Quoting
  <2>4. CASE at.part = "tagEnd"
    BY <1>1, <2>1, <2>4, QuotesAre
  <2> QED BY <1>3, <2>2, <2>3, <2>4
<1>4. CASE at.part \in {":", "open", "text", "shut"}
  <2>1. \/ at.part = ":" /\ at'.part = "open" /\ at'.f = at.f
        \/ at'.part \in {"text", "shut"} /\ at'.f = at.f /\ at.part # "shut"
        \/ at'.part \in {"COMMA", "END"} /\ at'.f = at.f
    <3>1. \/ at.part = ":" /\ Step("open")
          \/ at.part # "shut" /\ (Char(1) \/ Char(at.n + 1))
          \/ FieldEnds
      BY <1>1, <1>4, StepInText DEF OfFields
    <3> QED BY <3>1 DEF Char, FieldEnds, Step, StepTo
  <2>2. /\ at.part = ":" => Quotes(at) = 4 * (at.f - 1) + 2 /\ Symbol # "Q"
        /\ at.part = "open" => Quotes(at) = 4 * (at.f - 1) + 2
        /\ at.part = "text" => Quotes(at) = 4 * (at.f - 1) + 3 /\ Symbol # "Q"
        /\ at.part = "shut" => Quotes(at) = 4 * (at.f - 1) + 3
    BY <1>1, QuotesAre DEF Quoting
  <2>3. /\ at'.part = "open" => Quotes(at') = 4 * (at'.f - 1) + 2
        /\ at'.part \in {"text", "shut"} => Quotes(at') = 4 * (at'.f - 1) + 3
        /\ at'.part \in {"COMMA", "END"} => Quotes(at') = 4 * (at'.f - 1) + 4
    BY QuotesAre
  <2> QED BY <1>1, <1>4, <2>1, <2>2, <2>3
<1>5. CASE at.part \in {"END", "next", "[", "]"}
  <2>1. at.part = "END"
    BY <1>1, <1>5 DEF PlaceOK, InPoll
  <2>2. at'.part \in {"next", "]", "end"} /\ at'.f = at.f
    BY <1>1, <2>1, StepInText DEF OfFields, Step, StepTo
  <2>3. Quotes(at) = 4 * (at.f - 1) + 4 /\ Quotes(at') = 4 * (at'.f - 1) + 4
    BY <2>1, <2>2, QuotesAre
  <2>4. Symbol # "Q"
    BY <1>1, <2>1 DEF Quoting
  <2> QED BY <1>1, <2>2, <2>3, <2>4
<1> QED BY <1>1, <1>2, <1>3, <1>4, <1>5 DEF InList, OfEntries, OfFields

(* Up to the value the quotes are those of the answer. *)
LEMMA MarkStep ==
  ASSUME InPoll, Reads, ~Ended, Consume, Quotes(at) < 7
  PROVE  /\ Quotes(at) \in Nat
         /\ Symbol # "Q" => Quotes(at') = Quotes(at)
         /\ Symbol = "Q" => Quotes(at') = Quotes(at) + 1
         /\ Quotes(at') = 7 => /\ at'.f = 2 /\ at'.part \in {"text", "shut"} /\ at'.n = 1
                               /\ Symbol = "Q"
<1>1. /\ AtType /\ AnswerOK /\ PlaceOK /\ at.part \in InList
      /\ at.f \in Nat /\ at.k \in Nat /\ at.n \in Nat
      /\ at.part \in OfEntries => at.k = 1
      /\ Len(reply[1]) \in Nat /\ Len(reply[1]) >= 2
      /\ reply[1][1].quoted /\ reply[1][2].quoted
  BY PollFacts DEF Ended
<1>2. Symbol = "Q" <=> at.part \in Quoting
  BY <1>1, QuoteFacts DEF Parts
<1>3. /\ at.part = "BEGIN" => at.f = 0 /\ at.k = 1
      /\ at.part \in OfFields => at.f >= 1 /\ at.f <= Len(reply[1]) /\ at.k = 1
  BY <1>1 DEF PlaceOK, OfEntries
<1>4. \/ at.part = "BEGIN"
      \/ at.part \in {"quote", "tag", "tagEnd", ":", "open"} /\ at.f \in {1, 2}
      \/ at.part \in {"text", "shut", "COMMA"} /\ at.f = 1
  <2>1. at.part \notin {"[", "]"}
    BY <1>1 DEF PlaceOK, InPoll
  <2>2. at.part \in OfFields \/ at.part = "BEGIN"
    BY <1>1, <2>1 DEF InList, OfEntries
  <2>3. CASE at.part \in {"quote", "tag", "tagEnd", ":", "open"}
    <3>1. at.f >= 1
      BY <1>3, <2>3 DEF OfFields
    <3>2. \E n \in 0 .. 2 : Quotes(at) = 4 * (at.f - 1) + n
      BY <2>3, QuotesAre
    <3> QED BY <1>1, <2>3, <3>1, <3>2
  <2>4. CASE at.part \in {"text", "shut", "COMMA"}
    <3>1. at.f >= 1
      BY <1>3, <2>4 DEF OfFields
    <3>2. \E n \in 3 .. 4 : Quotes(at) = 4 * (at.f - 1) + n
      BY <2>4, QuotesAre
    <3> QED BY <1>1, <2>4, <3>1, <3>2
  <2>5. CASE at.part \in {"END", "next"}
    <3>1. Quotes(at) = 4 * (at.f - 1) + 4
      BY <2>5, QuotesAre
    <3>2. at.f >= 2
      BY <1>1, <2>5 DEF PlaceOK, OfEntries, OfFields
    <3> QED BY <1>1, <3>1, <3>2
  <2> QED BY <2>2, <2>3, <2>4, <2>5 DEF OfFields
<1>5. at.f \in {1, 2} /\ at.part \in OfFields => Field.quoted
  BY <1>1, <1>3, Zenon DEF Field
<1>6. CASE at.part \in {"BEGIN", "COMMA"}
  <2>1. StepTo("quote", at.k, at.f + 1, 0)
    BY <1>1, <1>6, StepElsewhere
  <2>2. at'.part = "quote" /\ at'.f = at.f + 1
    BY <2>1 DEF StepTo
  <2>3. Quotes(at) = 4 * (at.f - 1) + 4 /\ Quotes(at') = 4 * (at'.f - 1) + 0
    BY <1>6, <2>2, QuotesAre
  <2>4. Symbol # "Q" /\ at.f \in {0, 1}
    BY <1>2, <1>3, <1>4, <1>6 DEF Quoting
  <2> QED BY <2>2, <2>3, <2>4
<1>7. CASE at.part \in {"quote", "tag", "tagEnd"}
  <2>1. \/ at.part = "quote" /\ at'.part = "tag"
        \/ at.part = "tag" /\ at'.part \in {"tag", "tagEnd"}
        \/ at.part = "tagEnd" /\ at'.part = ":"
    BY <1>1, <1>7, StepElsewhere DEF Step, StepTo
  <2>2. at'.f = at.f
    BY <1>1, <1>7, StepElsewhere DEF Step, StepTo
  <2>3. at.f \in {1, 2}
    BY <1>4, <1>7
  <2>4. CASE at.part = "quote" /\ at'.part = "tag"
    <3>1. Quotes(at) = 4 * (at.f - 1) + 0 /\ Quotes(at') = 4 * (at'.f - 1) + 1
      BY <2>4, QuotesAre
    <3>2. Symbol = "Q"
      BY <1>2, <2>4 DEF Quoting
    <3> QED BY <2>2, <2>3, <3>1, <3>2
  <2>5. CASE at.part = "tag" /\ at'.part \in {"tag", "tagEnd"}
    <3>1. Quotes(at) = 4 * (at.f - 1) + 1 /\ Quotes(at') = 4 * (at'.f - 1) + 1
      BY <2>5, QuotesAre
    <3>2. Symbol # "Q"
      BY <1>2, <2>5 DEF Quoting
    <3> QED BY <2>2, <2>3, <3>1, <3>2
  <2>6. CASE at.part = "tagEnd" /\ at'.part = ":"
    <3>1. Quotes(at) = 4 * (at.f - 1) + 1 /\ Quotes(at') = 4 * (at'.f - 1) + 2
      BY <2>6, QuotesAre
    <3>2. Symbol = "Q"
      BY <1>2, <2>6 DEF Quoting
    <3> QED BY <2>2, <2>3, <3>1, <3>2
  <2> QED BY <2>1, <2>4, <2>5, <2>6
<1>8. CASE at.part = ":"
  <2>1. Step("open") /\ at.f \in {1, 2}
    BY <1>1, <1>4, <1>5, <1>8, StepInText DEF OfFields
  <2>2. at'.part = "open" /\ at'.f = at.f
    BY <2>1 DEF Step, StepTo
  <2>3. Quotes(at) = 4 * (at.f - 1) + 2 /\ Quotes(at') = 4 * (at'.f - 1) + 2
    BY <1>8, <2>2, QuotesAre
  <2>4. Symbol # "Q"
    BY <1>2, <1>8 DEF Quoting
  <2> QED BY <2>1, <2>2, <2>3, <2>4
<1>9. CASE at.part = "open"
  <2>1. Char(1) /\ at.f \in {1, 2} /\ Field.quoted
    BY <1>1, <1>4, <1>5, <1>9, StepInText DEF OfFields
  <2>2. at'.part \in {"text", "shut"} /\ at'.f = at.f /\ at'.n = 1
    BY <2>1 DEF Char, StepTo
  <2>3. Quotes(at) = 4 * (at.f - 1) + 2 /\ Quotes(at') = 4 * (at'.f - 1) + 3
    BY <1>9, <2>2, QuotesAre
  <2>4. Symbol = "Q"
    BY <1>2, <1>9 DEF Quoting
  <2> QED BY <2>1, <2>2, <2>3, <2>4
<1>10. CASE at.part = "text"
  <2>1. Char(at.n + 1) /\ at.f = 1 /\ Field.quoted
    BY <1>1, <1>4, <1>5, <1>10, StepInText DEF OfFields
  <2>2. at'.part \in {"text", "shut"} /\ at'.f = at.f
    BY <2>1 DEF Char, StepTo
  <2>3. Quotes(at) = 4 * (at.f - 1) + 3 /\ Quotes(at') = 4 * (at'.f - 1) + 3
    BY <1>10, <2>2, QuotesAre
  <2>4. Symbol # "Q"
    BY <1>2, <1>10 DEF Quoting
  <2> QED BY <2>1, <2>2, <2>3, <2>4
<1>11. CASE at.part = "shut"
  <2>1. FieldEnds /\ at.f = 1 /\ at.k = 1
    BY <1>1, <1>3, <1>4, <1>11, StepInText DEF OfFields
  <2>2. at'.part = "COMMA" /\ at'.f = at.f
    BY <1>1, <2>1 DEF FieldEnds, Step, StepTo
  <2>3. Quotes(at) = 4 * (at.f - 1) + 3 /\ Quotes(at') = 4 * (at'.f - 1) + 4
    BY <1>11, <2>2, QuotesAre
  <2>4. Symbol = "Q"
    BY <1>2, <1>11 DEF Quoting
  <2> QED BY <2>1, <2>2, <2>3, <2>4
<1> QED BY <1>4, <1>6, <1>7, <1>8, <1>9, <1>10, <1>11

(* parse_poll_response waits for the first character, in front of all      *)
(* quotes.                                                                 *)
LEMMA PollFirstStep ==
  ASSUME ReadInv, s \in Int, PollFirst
  PROVE  ReadInv'
<1>1. /\ pc = "pollFirst" /\ at' = at /\ output' = output /\ markcnt' = 0
      /\ UNCHANGED <<callVars, netVars, i, parseVars>>
  BY DEF PollFirst, pollKeep
<1>2. \/ Available /\ pc' = "pollMark"
      \/ TimesOut /\ pc' = "close"
  BY DEF PollFirst, Finish
<1>3. /\ late' \in Nat /\ (InTime' => InTime)
      /\ TimesOut /\ InTime' => at.part = "end"
  BY <1>1, <1>2, ListTimes
<1>4. PollStep
  BY <1>1, <1>2, <1>3 DEF PollStep, Reads, PollPcs
<1>5. ASSUME InPoll  PROVE PollInv'
  <2>1. at.part = "BEGIN" /\ output = Blank
    BY <1>1, <1>5 DEF InPoll, ReadInv, PollInv, FreshInv
  <2>2. Quotes(at) = 0
    <3>1. at.f = 0 /\ Quotes(at) = 4 * (at.f - 1) + 4
      BY <1>5, <2>1, PollFacts, QuotesAre DEF PlaceOK
    <3> QED BY <3>1
  <2>3. ~output'.done
    BY <1>1, <2>1 DEF Blank
  <2>4. CASE pc' = "pollMark"
    BY <1>1, <2>1, <2>2, <2>3, <2>4 DEF PollInv
  <2>5. CASE TimesOut /\ pc' = "close"
    BY <1>3, <2>1, <2>3, <2>5 DEF PollInv
  <2> QED BY <1>2, <2>4, <2>5
<1> QED BY <1>4, <1>5, PollFrame

(* It counts quotes, those in front of the cursor, up to the seventh,      *)
(* behind which is the value.                                              *)
LEMMA PollMarkStep ==
  ASSUME ReadInv, s \in Int, PollMark
  PROVE  ReadInv'
<1>1. /\ pc = "pollMark" /\ output' = output
      /\ UNCHANGED <<callVars, netVars, i, parseVars>>
  BY DEF PollMark, pollKeep
<1>2. \/ /\ Available /\ Consume
         /\ markcnt' = IF Symbol = "Q" THEN (markcnt + 1) % 256 ELSE markcnt
         /\ pc' = IF Symbol = "Q" /\ markcnt' = 7 THEN "pollStore" ELSE "pollMark"
      \/ TimesOut /\ at' = at /\ pc' = "close"
  BY DEF PollMark, Finish
<1>3. /\ late' \in Nat /\ (InTime' => InTime)
      /\ TimesOut /\ InTime' => at.part = "end"
      /\ Available => ~Ended /\ ~TimesOut
  BY <1>1, <1>2, ListTimes
<1>4. PollStep
  BY <1>1, <1>2, <1>3 DEF PollStep, Reads, PollPcs
<1>5. ASSUME InPoll  PROVE PollInv'
  <2>1. /\ markcnt \in 0 .. Quotes(at) /\ ~output.done
        /\ markcnt < 7 => output = Blank /\ markcnt = Quotes(at)
        /\ InTime => markcnt < 7
    BY <1>1, <1>5 DEF InPoll, ReadInv, PollInv
  <2>5. ASSUME Available, Consume
        PROVE  /\ Quotes(at) \in Nat /\ markcnt' \in 0 .. Quotes(at')
               /\ markcnt' = IF Symbol = "Q" THEN markcnt + 1 ELSE markcnt
               /\ pc' = IF Symbol = "Q" /\ markcnt' = 7 THEN "pollStore" ELSE "pollMark"
    <3>1. /\ Quotes(at) \in 0 .. 252 /\ Quotes(at') \in 0 .. 252
          /\ Quotes(at') >= Quotes(at)
          /\ Symbol = "Q" => Quotes(at') >= Quotes(at) + 1
      BY <1>3, <1>4, <1>5, <2>5, PollPlaces, QuotesGrow DEF PollStep
    <3>2. /\ markcnt' = IF Symbol = "Q" THEN (markcnt + 1) % 256 ELSE markcnt
          /\ pc' = IF Symbol = "Q" /\ markcnt' = 7 THEN "pollStore" ELSE "pollMark"
      BY <1>2, <1>3, <2>5
    <3>3. (markcnt + 1) % 256 = markcnt + 1 /\ markcnt \in Nat
      BY <2>1, <3>1
    <3>4. /\ Symbol = "Q" => markcnt' = markcnt + 1
          /\ Symbol # "Q" => markcnt' = markcnt
      BY <3>2, <3>3
    <3>5. markcnt' \in 0 .. Quotes(at')
      <4>1. markcnt \in 0 .. Quotes(at)
        BY <2>1
      <4>2. CASE Symbol = "Q"
        <5>1. ASSUME NEW q \in 0 .. 252, NEW r \in 0 .. 252, NEW m \in 0 .. q, r >= q + 1
              PROVE  m + 1 \in 0 .. r
          BY <5>1
        <5> QED BY <3>1, <3>4, <4>1, <4>2, <5>1, Zenon
      <4>3. CASE Symbol # "Q"
        <5>1. ASSUME NEW q \in 0 .. 252, NEW r \in 0 .. 252, NEW m \in 0 .. q, r >= q
              PROVE  m \in 0 .. r
          BY <5>1
        <5> QED BY <3>1, <3>4, <4>1, <4>3, <5>1, Zenon
      <4> QED BY <4>2, <4>3
    <3> QED BY <3>1, <3>2, <3>4, <3>5
  <2>2. CASE Available /\ Consume /\ markcnt < 7
    <3>1. /\ output = Blank
          /\ Symbol # "Q" => markcnt' = Quotes(at') /\ markcnt' = markcnt
          /\ Symbol = "Q" => markcnt' = Quotes(at') /\ markcnt' = markcnt + 1
          /\ markcnt' = 7 => /\ at'.f = 2 /\ at'.part \in {"text", "shut"} /\ at'.n = 1
                             /\ Symbol = "Q"
      BY <1>3, <1>4, <1>5, <2>1, <2>2, <2>5, MarkStep DEF PollStep
    <3>2. markcnt' \in 0 .. 7
      BY <2>1, <2>2, <2>5, <3>1
    <3>3. CASE markcnt' = 7
      <4>1. pc' = "pollStore"
        BY <2>2, <2>5, <3>1, <3>3
      <4>2. PlaceOK' /\ AtType' /\ AnswerOK'
        <5>1. at.part # "end" /\ AtType /\ AnswerOK /\ PlaceOK
          BY <1>3, <1>5, <2>2, PollFacts DEF Ended
        <5>2. at.part \in Parts
          BY <1>5, <5>1, PollFacts DEF Parts
        <5> QED BY <1>1, <2>2, <5>1, <5>2, PlaceStep
      <4>3. at'.k = 1 /\ at'.f = 2 /\ at'.n = 1 /\ reply' = reply
        <5>1. reply' = reply /\ at'.part \in {"text", "shut"}
          BY <1>1, <3>1, <3>3 DEF callVars
        <5>2. at'.k \in 1 .. Len(reply')
          BY <4>2, <5>1 DEF PlaceOK, OfEntries, OfFields
        <5>3. Len(reply') = 1
          BY <1>5, <5>1, PollFacts
        <5> QED BY <3>1, <3>3, <5>1, <5>2, <5>3
      <4>4. Field' = reply[1][2]
        BY <4>3 DEF Field
      <4>5. reply[1][2] \in SomeField
        BY <1>5, PollFacts, ElementOfSeq
      <4>6. SubSeq(reply[1][2].text, 1, 0) = <<>>
        BY <4>5, TextGrows DEF SomeField
      <4>7. output' = Part(Field'.text, at'.n - 1)
        <5>1. output' = Part(reply[1][2].text, 0)
          BY <1>1, <3>1, <4>6 DEF Part, Blank
        <5>2. at'.n - 1 = 0
          BY <4>3
        <5> QED BY <4>4, <5>1, <5>2
      <4> QED BY <3>1, <3>3, <4>1, <4>7 DEF PollInv
    <3>4. CASE markcnt' < 7
      <4>1. pc' = "pollMark"
        BY <2>2, <2>5, <3>4
      <4> QED BY <1>1, <2>1, <2>2, <2>5, <3>1, <3>2, <3>4, <4>1 DEF PollInv
    <3> QED BY <3>2, <3>3, <3>4
  <2>3. CASE Available /\ Consume /\ ~(markcnt < 7)
    <3>1. markcnt' \in 0 .. Quotes(at') /\ ~(markcnt' < 7) /\ pc' = "pollMark" /\ ~InTime'
      BY <1>3, <2>1, <2>3, <2>5
    <3> QED BY <1>1, <2>1, <3>1 DEF PollInv
  <2>4. CASE TimesOut /\ at' = at /\ pc' = "close"
    <3>1. ~InTime'
      <4>1. ASSUME InTime'  PROVE FALSE
        <5>1. at.part = "end" /\ Quotes(at) < 7
          BY <1>3, <2>1, <2>4, <4>1
        <5>2. at.f >= 2
          BY <1>5, <5>1, PollFacts DEF PlaceOK
        <5>3. Quotes(at) = 4 * (at.f - 1) + 4
          BY <5>1, QuotesAre
        <5> QED BY <1>5, <5>1, <5>2, <5>3, PollFacts
      <4> QED BY <4>1
    <3> QED BY <1>1, <2>1, <2>4, <3>1 DEF PollInv
  <2> QED BY <1>2, <2>2, <2>3, <2>4
<1> QED BY <1>4, <1>5, PollFrame

(* A character of the value, or the quote behind the last. *)
LEMMA OutputStep ==
  ASSUME InPoll, PollInv, pc = "pollStore", Reads, ~Ended, Consume,
         \/ Symbol = "Q" /\ pc' = "close" /\ output' = [output EXCEPT !.done = TRUE]
         \/ /\ Symbol # "Q" /\ pc' = pc
            /\ output' = [output EXCEPT !.text = Append(@, Symbol)]
  PROVE  \/ pc' = "close" /\ output' = Whole(reply[1][2].text)
         \/ /\ pc' = "pollStore" /\ at'.f = 2 /\ at'.part \in {"text", "shut"}
            /\ Field' = Field /\ output' = Part(Field.text, at'.n - 1)
<1>1. /\ AtType /\ AnswerOK /\ PlaceOK /\ at.part \in InList
      /\ at.f = 2 /\ at.k = 1 /\ at.n \in Nat
      /\ at.part \in {"text", "shut"}
  BY PollFacts DEF PollInv, Ended, OfEntries, OfFields
<1>2. /\ Field = reply[1][2] /\ Field.quoted
      /\ Field \in SomeField /\ Len(Field.text) \in Nat
  <2>1. Field = reply[1][2]
    BY <1>1 DEF Field
  <2>2. reply[1][2] \in SomeField
    BY PollFacts, ElementOfSeq
  <2> QED BY <2>1, <2>2, PollFacts, LenProperties DEF SomeField
<1>3. Field.text \in Seq(Letters)
  BY <1>2 DEF SomeField
<1>4. output = [text |-> SubSeq(Field.text, 1, at.n - 1), done |-> FALSE]
  BY Zenon DEF PollInv, Part
<1>5. Symbol = "Q" <=> at.part \in Quoting
  BY <1>1, QuoteFacts DEF Parts
<1>6. CASE at.part = "text"
  <2>1. at.n \in 1 .. Len(Field.text) /\ Symbol = Field.text[at.n]
    BY <1>1, <1>6, SymbolOf DEF PlaceOK
  <2>2. pc' = pc /\ output' = [output EXCEPT !.text = Append(@, Symbol)]
    BY <1>5, <1>6 DEF Quoting
  <2>3. Append(SubSeq(Field.text, 1, at.n - 1), Field.text[at.n]) = SubSeq(Field.text, 1, at.n)
    BY <1>3, <2>1, TextGrows
  <2>4. output' = [text |-> Append(SubSeq(Field.text, 1, at.n - 1), Symbol), done |-> FALSE]
    <3> DEFINE no == FALSE
               text == SubSeq(Field.text, 1, at.n - 1)
               cell == output
               next == output'
    <3>1. cell = [text |-> text, done |-> no]
      BY <1>4
    <3>2. next = [cell EXCEPT !.text = Append(@, Symbol)]
      BY <2>2
    <3> HIDE DEF no, text, cell, next
    <3>3. next = [text |-> Append(text, Symbol), done |-> no]
      BY <3>1, <3>2
    <3> QED BY <3>3 DEF no, text, next
  <2>5. output' = Part(Field.text, at.n)
    BY <2>1, <2>3, <2>4, Zenon DEF Part
  <2>6. /\ at'.part \in {"text", "shut"} /\ at'.k = at.k /\ at'.f = at.f
        /\ at'.n = at.n + 1
    <3>1. Char(at.n + 1)
      BY <1>1, <1>6, StepInText DEF OfFields
    <3> QED BY <1>2, <3>1 DEF Char, StepTo
  <2>7. Field' = Field
    BY <2>6 DEF Reads, callVars, Field
  <2>8. at'.n - 1 = at.n
    BY <1>1, <2>6
  <2>9. output' = Part(Field.text, at'.n - 1)
    BY <2>5, <2>8
  <2> QED BY <1>1, <2>2, <2>6, <2>7, <2>9
<1>7. CASE at.part = "shut"
  <2>1. at.n - 1 = Len(Field.text)
    BY <1>1, <1>2, <1>7 DEF PlaceOK
  <2>2. pc' = "close" /\ output' = [output EXCEPT !.done = TRUE]
    BY <1>5, <1>7 DEF Quoting
  <2>3. SubSeq(Field.text, 1, Len(Field.text)) = Field.text
    BY <1>3, TextGrows
  <2>4. output = [text |-> Field.text, done |-> FALSE]
    BY <1>4, <2>1, <2>3, Zenon
  <2>5. output' = [text |-> Field.text, done |-> TRUE]
    <3> DEFINE no == FALSE
               yes == TRUE
               text == Field.text
               cell == output
               next == output'
    <3>1. cell = [text |-> text, done |-> no]
      BY <2>4
    <3>2. next = [cell EXCEPT !.done = yes]
      BY <2>2
    <3> HIDE DEF no, yes, text, cell, next
    <3>3. next = [text |-> text, done |-> yes]
      BY <3>1, <3>2
    <3> QED BY <3>3 DEF yes, text, next
  <2>6. output' = Whole(reply[1][2].text)
    BY <1>2, <2>5, Zenon DEF Whole
  <2> QED BY <2>2, <2>6
<1> QED BY <1>1, <1>6, <1>7

(* It stores the value, whether or not a character is there in time. *)
LEMMA PollStoreStep ==
  ASSUME ReadInv, s \in Int, PollStore
  PROVE  ReadInv'
<1>1. /\ pc = "pollStore" /\ markcnt' = markcnt
      /\ UNCHANGED <<callVars, netVars, i, parseVars>>
  BY DEF PollStore, pollKeep
<1>2. \/ /\ Available /\ Consume
         /\ \/ Symbol = "Q" /\ pc' = "close" /\ res' = OK
                 /\ output' = [output EXCEPT !.done = TRUE]
            \/ Symbol # "Q" /\ pc' = pc
                 /\ output' = [output EXCEPT !.text = Append(@, Symbol)]
      \/ TimesOut /\ pc' = "pollMark" /\ at' = at /\ output' = output
  BY DEF PollStore, Finish
<1>3. /\ late' \in Nat /\ (InTime' => InTime)
      /\ TimesOut /\ InTime' => at.part = "end"
      /\ Available => ~Ended
  BY <1>1, <1>2, ListTimes
<1>4. PollStep
  BY <1>1, <1>2, <1>3 DEF PollStep, Reads, PollPcs
<1>5. ASSUME InPoll  PROVE PollInv'
  <2>1. PollInv
    BY <1>5 DEF InPoll, ReadInv
  <2>2. CASE Available /\ Consume
    <3>1. \/ pc' = "close" /\ output' = Whole(reply[1][2].text)
          \/ /\ pc' = "pollStore" /\ at'.f = 2 /\ at'.part \in {"text", "shut"}
             /\ Field' = Field /\ output' = Part(Field.text, at'.n - 1)
      BY <1>1, <1>2, <1>3, <1>4, <1>5, <2>1, <2>2, OutputStep, EitherTime
      DEF PollStep, ReadInv, HeaderInv
    <3>2. CASE pc' = "close" /\ output' = Whole(reply[1][2].text)
      <4>1. reply' = reply
        BY <1>1 DEF callVars
      <4>2. res' = OK
        BY <1>1, <1>2, <1>3, <2>2, <3>2, EitherTime DEF ReadInv, HeaderInv
      <4> QED BY <3>2, <4>1, <4>2 DEF PollInv
    <3>3. CASE /\ pc' = "pollStore" /\ at'.f = 2 /\ at'.part \in {"text", "shut"}
               /\ Field' = Field /\ output' = Part(Field.text, at'.n - 1)
      <4>1. markcnt' = 7
        BY <1>1, <2>1 DEF PollInv
      <4> QED BY <3>3, <4>1 DEF PollInv
    <3> QED BY <3>1, <3>2, <3>3
  <2>3. CASE TimesOut /\ pc' = "pollMark" /\ at' = at /\ output' = output
    <3>1. markcnt' = 7 /\ at.part # "end"
      BY <1>1, <2>1 DEF PollInv
    <3>2. ~InTime'
      BY <1>3, <2>3, <3>1
    <3>3. ~output.done
      BY <1>1, <2>1 DEF PollInv, Part
    <3>4. Quotes(at') = 7
      <4>1. at'.f = 2 /\ Quotes(at') = 4 * (at'.f - 1) + 3
        BY <1>1, <2>1, <2>3, QuotesAre DEF PollInv
      <4> QED BY <4>1
    <3>5. markcnt' \in 0 .. Quotes(at')
      BY <3>1, <3>4
    <3> QED BY <2>3, <3>1, <3>2, <3>3, <3>5 DEF PollInv
  <2> QED BY <1>2, <2>2, <2>3
<1> QED BY <1>4, <1>5, PollFrame

----------------------------------------------------------------------------
(* The call, up to its request.                                            *)

(* Before the request there is no answer, and nothing is said of it. *)
LEMMA RequestStep ==
  ASSUME ReadInv, pc \in Requests, pc' \in Requests, op' \in {"post", "poll"},
         UNCHANGED <<readVars, arrayVars, astray, output>>
  PROVE  ReadInv'
<1>1. PlaceInv /\ HeaderInv /\ FreshInv
  BY DEF ReadInv
<1>2. at' = at /\ late' = late /\ i' = i
  BY DEF readVars
<1>3. i # 4 /\ i' # 4 /\ at.part = "end"
  BY <1>1, <1>2 DEF HeaderInv, PlaceInv, Reading, ListPcs, PollPcs, Requests, Before
<1>4. PlaceInv'
  BY <1>1, <1>2, <1>3
  DEF PlaceInv, AtType, IsPlace, Answered, Parts, InList, OfEntries, OfFields
<1>5. HeaderInv'
  BY <1>1, <1>2, <1>3 DEF HeaderInv, Reading, ListPcs, PollPcs, Requests, Before
<1>6. FreshInv'
  BY <1>1 DEF FreshInv, Reading, ListPcs, PollPcs, Requests, Before, Cells, Blank, arrayVars
<1> QED BY <1>3, <1>4, <1>5, <1>6, NotYet

(* sp_sense_connect, with the start of a call. *)
LEMMA ConnectSteps ==
  ASSUME ReadInv, \/ Call
                  \/ \E ok \in BOOLEAN : Connect(ok) \/ \E ip \in {0, 1} : Resolve(ok, ip)
  PROVE  ReadInv'
<1>0. op \in {"post", "poll"}
  BY DEF ReadInv, PlaceInv, AtType
<1>1. CASE Call
  BY <1>1, RequestStep DEF Call, Go, Requests, Before, parseVars, pollVars
<1>2. ASSUME NEW ok, Connect(ok)  PROVE ReadInv'
  BY <1>0, <1>2, RequestStep
  DEF Connect, GiveUp, Requests, Before, callVars, parseVars, pollVars
<1>3. ASSUME NEW ok, NEW ip, Resolve(ok, ip)  PROVE ReadInv'
  BY <1>0, <1>3, RequestStep
  DEF Resolve, GiveUp, Requests, Before, callVars, parseVars, pollVars
<1> QED BY <1>1, <1>2, <1>3

----------------------------------------------------------------------------
(* The announced length is that of the body.                               *)

(* A number of digits is a number. *)
LEMMA DigitsType == \A n : Digits(n) \in Nat
<1> TAKE n
<1> DEFINE D == {d \in 1 .. 9 : n \div 10^d > 0}
<1>1. IsFiniteSet(1 .. 9)
  <2>1. 1 \in Int /\ 9 \in Int
    OBVIOUS
  <2> QED BY <2>1, FS_Interval, Zenon
<1>2. IsFiniteSet(D)
  BY <1>1, FS_Subset
<1>3. Cardinality(D) \in Nat
  BY <1>2, FS_CardinalityType
<1> QED BY <1>3 DEF Digits

(* The announced length is that of the body, where no feed id is printed   *)
(* with a sign.                                                            *)
LEMMA LengthsAgree ==
  ASSUME NEW data \in Seq(Entries), Len(data) > 0,
         \A k \in 1 .. Len(data) : data[k].feed_id < Half
  PROVE  ContentLength(data) = BodyLength(data)
<1>1. Len(data) \in Nat /\ DOMAIN data = 1 .. Len(data)
  BY LenProperties
<1>2. ASSUME NEW k \in DOMAIN data
      PROVE  Digits(data[k].feed_id) + data[k].value + 23
               = 11 + Printed(data[k].feed_id) + 10 + data[k].value + 2
  <2>1. data[k] \in Entries
    BY <1>1, ElementOfSeq
  <2>2. data[k].value \in Nat
    BY <2>1, ValueAssumption DEF Entries
  <2>3. Digits(data[k].feed_id) \in Nat
    BY DigitsType
  <2>4. Printed(data[k].feed_id) = Digits(data[k].feed_id)
    BY <1>1 DEF Printed
  <2>5. \A d, v \in Nat : d + v + 23 = 11 + d + 10 + v + 2
    OBVIOUS
  <2> QED BY <2>2, <2>3, <2>4, <2>5, Zenon
<1>3. [k \in DOMAIN data |-> Digits(data[k].feed_id) + data[k].value + 23]
      = [k \in DOMAIN data |-> 11 + Printed(data[k].feed_id) + 10 + data[k].value + 2]
  BY <1>2
<1>4. 2 + (Len(data) - 1) = 1 + (IF Len(data) > 1 THEN Len(data) - 1 ELSE 0) + 1
  BY <1>1
<1> QED BY <1>3, <1>4, Zenon DEF ContentLength, BodyLength

----------------------------------------------------------------------------
(* A request that is not answered, or answered with an error, leaves the   *)
(* client with no list; one that is, in front of the answer.               *)
LEMMA SendStep ==
  ASSUME ReadInv, pc = "request", pc' \in {"first", "resend"}, op' = op,
         UNCHANGED <<s, late, i, arrayVars, astray, output>>,
         \/ /\ at' \in {Nothing, Place("400", 0, 0, 0)}
            /\ InTime' => pc' = "resend"
         \/ at' = Place("200", 0, 0, 0) /\ AnswerOK'
  PROVE  ReadInv'
<1>1. PlaceInv /\ HeaderInv /\ FreshInv
  BY DEF ReadInv
<1>2. i # 4 /\ i' # 4
  BY <1>1 DEF HeaderInv, Reading, ListPcs, PollPcs
<1>3. op \in {"post", "poll"}
  BY <1>1 DEF PlaceInv, AtType
<1>4. /\ AtType' /\ at'.part \in {"200", "400", "end"}
      /\ at'.part = "200" => AnswerOK'
      /\ InTime' => at'.part = "200" \/ pc' = "resend"
  BY <1>3 DEF AtType, IsPlace, Nothing, Place
<1>5. PlaceInv'
  BY <1>2, <1>4
  DEF PlaceInv, PlaceOK, Answered, Parts, InList, OfEntries, OfFields, Requests, Before
<1>6. HeaderInv'
  BY <1>1, <1>2, <1>4 DEF HeaderInv, Reading, ListPcs, PollPcs
<1>7. FreshInv'
  BY <1>1 DEF FreshInv, Reading, ListPcs, PollPcs, Cells, Blank, arrayVars
<1> QED BY <1>2, <1>5, <1>6, <1>7, NotYet

(* sp_sense_send sends its request. *)
LEMMA SendPostStep ==
  ASSUME ReadInv, s \in Int, NEW data \in BoundedSeq(Entries, MaxSize), SendPost(data)
  PROVE  ReadInv'
<1>1. /\ op = "post" /\ op' = op /\ pc = "request" /\ pc' \in {"first", "resend"}
      /\ size' = Len(data) /\ UNCHANGED <<s, late, i, arrayVars, astray, output>>
  BY DEF SendPost, netVars, parseVars, pollVars
<1>2. data \in Seq(Entries) /\ Len(data) \in 0 .. MaxSize
  <2>1. PICK m \in 0 .. MaxSize : data \in [1 .. m -> Entries]
    BY DEF BoundedSeq, SeqOf
  <2>2. m \in Nat
    BY <2>1, BoundsAssumption
  <2>3. data \in Seq(Entries) /\ Len(data) = m
    BY <2>1, <2>2, SeqDef, LenProperties
  <2> QED BY <2>1, <2>3
<1>3. PICK answer \in [1 .. size' -> Instances] :
        ServerAnswers(ContentLength(data) = BodyLength(data), answer)
  BY DEF SendPost
<1>4. answer \in Seq(Instances) /\ Len(answer) = size'
  BY <1>1, <1>2, <1>3, SeqDef, LenProperties
<1>5. plain' => ContentLength(data) = BodyLength(data)
  BY <1>1, <1>2, LengthsAgree DEF SendPost
<1>6. CASE at' = Place("200", 0, 0, 0) /\ reply' = answer
  <2>1. AnswerOK'
    BY <1>1, <1>2, <1>4, <1>6, BoundsAssumption DEF AnswerOK
  <2> QED BY <1>1, <1>6, <2>1, SendStep
<1>7. CASE at' \in {Nothing, Place("400", 0, 0, 0)} /\ ~InTime'
  BY <1>1, <1>7, SendStep
<1> QED BY <1>1, <1>3, <1>5, <1>6, <1>7 DEF ServerAnswers, InTime

(* sp_sense_poll sends its request. *)
LEMMA SendPollStep ==
  ASSUME ReadInv, s \in Int, SendPoll
  PROVE  ReadInv'
<1>1. /\ op = "poll" /\ op' = op /\ pc = "request" /\ pc' = "first"
      /\ UNCHANGED <<s, late, i, arrayVars, astray, output>>
  BY DEF SendPoll, Go, netVars, parseVars, pollVars
<1>2. PICK answer \in Polled : \E ok \in BOOLEAN : ServerAnswers(ok, <<answer>>)
  BY DEF SendPoll
<1>3. <<answer>> \in Seq(Polled) /\ Len(<<answer>>) = 1
  OBVIOUS
<1>4. CASE at' = Place("200", 0, 0, 0) /\ reply' = <<answer>>
  BY <1>1, <1>3, <1>4, SendStep DEF AnswerOK
<1>5. CASE at' \in {Nothing, Place("400", 0, 0, 0)}
  <2>1. plain' <=> at'.part = "200"
    BY DEF SendPoll
  <2>2. at'.part # "200"
    BY <1>5 DEF Nothing, Place
  <2> QED BY <1>1, <1>5, <2>1, <2>2, SendStep DEF InTime
<1> QED BY <1>2, <1>4, <1>5 DEF ServerAnswers

----------------------------------------------------------------------------
(* The invariant holds of the variables of a new call. *)
LEMMA FreshRead ==
  /\ Locals /\ pc = "idle" => ReadInv
  /\ Return /\ pc' = "idle" => ReadInv'
<1> USE DEF ReadInv, PlaceInv, HeaderInv, FreshInv, AtType, IsPlace, Nothing, Place,
            Answered, Parts, InList, OfEntries, OfFields, Reading, ListPcs, PollPcs,
            Requests, Before, InTime
<1>1. Locals /\ pc = "idle" => ReadInv
  BY DEF Locals
<1>2. Return /\ pc' = "idle" => ReadInv'
  BY DEF Return
<1> QED BY <1>1, <1>2

----------------------------------------------------------------------------
(* All steps, and what the invariant is for.                               *)

(* What a stale call makes of its bytes is not followed. *)
LEMMA GoneStep ==
  ASSUME ReadInv, PeerGone
  PROVE  ReadInv'
<1>1. /\ pc' = "stale" /\ i' = 0
      /\ UNCHANGED <<at, late, op, size, reply>>
  BY DEF PeerGone, callVars
<1>2. PlaceInv /\ HeaderInv
  BY DEF ReadInv
<1>3. PlaceInv'
  BY <1>1, <1>2
  DEF PlaceInv, AtType, IsPlace, Answered, AnswerOK, PlaceOK, Field, Requests, Before
<1>4. HeaderInv'
  BY <1>1, <1>2 DEF HeaderInv, Reading, ListPcs, PollPcs
<1>5. FreshInv'
  BY <1>1 DEF FreshInv
<1> QED BY <1>1, <1>3, <1>4, <1>5, NotYet

(* The invariant of the client and its answer is inductive. *)
LEMMA StepRead ==
  ASSUME ReadInv, ParserInv, s \in Int, [Next]_vars
  PROVE  ReadInv'
<1>1. CASE Call \/ \E ok \in BOOLEAN : Connect(ok) \/ \E ip \in {0, 1} : Resolve(ok, ip)
  BY <1>1, ConnectSteps
<1>2. CASE SendPoll \/ \E data \in BoundedSeq(Entries, MaxSize) : SendPost(data)
  BY <1>2, SendPollStep, SendPostStep
<1>3. CASE First \/ Status \/ Skip \/ Match
  BY <1>3, FirstStep, StatusStep, SkipStep, MatchStep
<1>4. CASE ParseStart \/ Top \/ Eat \/ TagFirst \/ TagMore \/ TagRead \/ Data
  BY <1>4, ParseStartStep, TopStep, EatStep, TagFirstStep, TagMoreStep, TagReadStep, DataStep
<1>5. CASE PollFirst \/ PollMark \/ PollStore
  BY <1>5, PollFirstStep, PollMarkStep, PollStoreStep
<1>6. CASE CloseEarly \/ Close \/ CloseStale
  BY <1>6, FreshRead DEF CloseEarly, Close, CloseStale, CloseSocket, Go
<1>8. CASE PeerGone
  BY <1>8, GoneStep
<1>7. CASE UNCHANGED vars
  <2>1. UNCHANGED <<pc, res, callVars, at, late, i, s, parse, parsing, data_instance,
                    jsontag, c, astray, stored, elsewhere, markcnt, output>>
    BY <1>7 DEF vars, netVars, readVars, parseVars, pollVars, arrayVars
  <2>2. UNCHANGED <<op, size, plain, reply>>
    BY <2>1 DEF callVars
  <2>3. PlaceInv' /\ HeaderInv' /\ FreshInv'
    BY <2>1, <2>2
    DEF ReadInv, PlaceInv, HeaderInv, FreshInv, AtType, IsPlace, AnswerOK, PlaceOK,
        Answered, Field, InTime, Cells, Blank
  <2>4. Begun' = Begun /\ (Following' <=> Following) /\ (FewEntries' <=> FewEntries)
    BY <2>1, <2>2 DEF Begun, Following, Field, FewEntries
  <2>5. ParseInv => ParseInv'
    BY <2>1, <2>2, <2>4 DEF ParseInv, CountInv, InTime
  <2>6. StoredInv => StoredInv'
    <3>1. Traced' <=> Traced
      BY <2>1, <2>2 DEF Traced, FewEntries, TextsFit
    <3>2. Cell' = Cell /\ Field' = Field
      BY <2>1, <2>2 DEF Cell, Field
    <3> QED BY <2>1, <2>2, <2>4, <3>1, <3>2 DEF StoredInv, Past, Cells
  <2>7. PollInv => PollInv'
    BY <2>1, <2>2 DEF PollInv, InTime, Field, Blank, Quotes
  <2> QED BY <2>1, <2>2, <2>3, <2>5, <2>6, <2>7 DEF ReadInv
<1> QED BY <1>1, <1>2, <1>3, <1>4, <1>5, <1>6, <1>7, <1>8 DEF Next, Main, Resend

----------------------------------------------------------------------------
(* What the server says for a member is what its one field says. *)
LEMMA SaidIs ==
  ASSUME InBody, NEW k \in 1 .. Len(reply), NEW f \in 1 .. Len(reply[k]),
         Member(reply[k][f].tag) \in Saved
  PROVE  Said(k, Member(reply[k][f].tag)) = reply[k][f].text
<1>1. AnswerOK /\ op \in {"post", "poll"}
  BY BodyFacts DEF InBody
<1>2. DOMAIN reply[k] = 1 .. Len(reply[k])
  BY <1>1, EntryFacts, LenProperties
<1>3. reply[k][f] \in Range(reply[k])
  BY <1>2 DEF Range
<1>4. \A x \in Range(reply[k]) :
        Member(x.tag) = Member(reply[k][f].tag) => x = reply[k][f]
  <2>1. \A g \in 1 .. Len(reply[k]) : Member(reply[k][g].tag) = Member(reply[k][f].tag) => g = f
    BY OneField
  <2> QED BY <1>2, <2>1 DEF Range
<1>5. (CHOOSE x \in Range(reply[k]) : Member(x.tag) = Member(reply[k][f].tag)) = reply[k][f]
  BY <1>3, <1>4
<1> QED BY <1>5 DEF Said

(* It is what OnlyWhatCame needs: each cell that is written to holds a     *)
(* field, or its beginning.                                                *)
LEMMA ReadOnlyWhatCame ==
  ASSUME ReadInv, s \in Int
  PROVE  OnlyWhatCame
<1> SUFFICES ASSUME i = 4  PROVE OnlyWhatCame
  BY DEF OnlyWhatCame
<1>0. pc \in Reading /\ op \in {"post", "poll"}
  BY DEF ReadInv, HeaderInv, PlaceInv, AtType
<1>1. ASSUME op = "post", FewEntries
      PROVE  "entry" \notin elsewhere /\ (~astray /\ TextsFit => elsewhere = {})
  <2>1. CASE pc = "parseStart"
    BY <2>1 DEF ReadInv, FreshInv
  <2>2. CASE pc # "parseStart"
    BY <1>1, <2>2, BodyInv DEF InBody, StoredInv, Traced
  <2> QED BY <2>1, <2>2
<1>3. ASSUME op = "post", FewEntries, ~astray, TextsFit, NEW p \in Cells, stored[p] # Blank
      PROVE  /\ p[1] <= size
             /\ IsPrefix(stored[p].text, Said(p[1], p[2]))
             /\ stored[p].done => stored[p].text = Said(p[1], p[2])
  <2>1. InBody
    BY <1>3 DEF InBody
  <2>2. pc # "parseStart"
    BY <1>3 DEF ReadInv, FreshInv
  <2>3. StoredInv
    BY <2>1, <2>2, BodyInv
  <2>4. CellOK(p, stored[p], reply)
    BY <1>3, <2>3 DEF StoredInv, Traced
  <2> DEFINE k == p[1]
  <2>5. k \in 1 .. Len(reply) /\ p[2] \in Saved
    BY <1>3, <2>4 DEF CellOK, Cells
  <2>6. PICK f \in 1 .. Len(reply[k]) :
          Member(reply[k][f].tag) = p[2] /\ From(stored[p], reply[k][f])
    BY <2>4 DEF CellOK
  <2>7. size = Len(reply) /\ AnswerOK /\ Len(reply) \in Nat
    BY <1>3, <2>1, BodyFacts DEF AnswerOK
  <2>8. k <= size
    BY <2>5, <2>7
  <2>9. Said(k, p[2]) = reply[k][f].text
    BY <2>1, <2>5, <2>6, SaidIs
  <2>10. reply[k][f].text \in Seq(Letters)
    <3>1. reply[k] \in Seq(SomeField)
      BY <1>0, <2>5, <2>7, EntryFacts
    <3>2. reply[k][f] \in SomeField
      BY <3>1, ElementOfSeq
    <3> QED BY <3>2 DEF SomeField
  <2> DEFINE text == reply[k][f].text
  <2>11. text \in Seq(Letters)
    BY <2>10
  <2>12. \/ stored[p].text = text
         \/ ~stored[p].done /\ \E n \in 0 .. Len(text) : stored[p].text = SubSeq(text, 1, n)
    <3>1. CASE stored[p] = Whole(text)
      BY <3>1 DEF Whole
    <3>2. ASSUME NEW n \in 0 .. Len(text), stored[p] = Part(text, n)
          PROVE  ~stored[p].done /\ stored[p].text = SubSeq(text, 1, n)
      BY <3>2 DEF Part
    <3> QED BY <2>6, <3>1, <3>2 DEF From
  <2>13. Said(p[1], p[2]) = text
    BY <2>9
  <2> HIDE DEF text
  <2>14. ASSUME NEW n \in 0 .. Len(text)
         PROVE  IsPrefix(SubSeq(text, 1, n), text)
    <3>1. Len(text) \in Nat
      BY <2>11, LenProperties
    <3>2. \A j \in 1 .. n : text[j] \in Letters
      BY <2>11, <3>1, ElementOfSeq
    <3>3. /\ SubSeq(text, 1, n) \in Seq(Letters) /\ Len(SubSeq(text, 1, n)) = n
      BY <3>1, <3>2, SubSeqProperties
    <3>4. SubSeq(SubSeq(text, 1, n), 1, n) = SubSeq(text, 1, n)
      BY <3>3, SubSeqFull
    <3> QED BY <3>1, <3>3, <3>4 DEF IsPrefix
  <2>15. IsPrefix(text, text)
    <3>1. Len(text) \in Nat /\ SubSeq(text, 1, Len(text)) = text
      BY <2>11, LenProperties, SubSeqFull
    <3> QED BY <3>1 DEF IsPrefix
  <2>16. IsPrefix(stored[p].text, text) /\ (stored[p].done => stored[p].text = text)
    BY <2>12, <2>14, <2>15
  <2> QED BY <2>8, <2>13, <2>16
<1>2. ASSUME op = "poll", output.done  PROVE output.text = reply[1][2].text
  <2>1. PollInv
    BY <1>2 DEF ReadInv
  <2>2. pc \in PollPcs \cup {"close"}
    BY <1>0, <1>2 DEF ReadInv, HeaderInv, Reading
  <2>3. pc # "pollFirst"
    BY <1>2 DEF ReadInv, FreshInv, Blank
  <2>4. pc \notin {"pollMark", "pollStore"}
    BY <1>2, <2>1 DEF PollInv, Part
  <2>5. output = Whole(reply[1][2].text)
    BY <1>2, <2>1, <2>2, <2>3, <2>4 DEF PollInv, PollPcs
  <2> QED BY <2>5 DEF Whole
<1> QED BY <1>0, <1>1, <1>2, <1>3 DEF OnlyWhatCame

(* At the end of an answer in time every field is behind the cursor. *)
LEMMA ReadInTimeServed ==
  ASSUME ReadInv, s \in Int
  PROVE  InTimeServed
<1> SUFFICES ASSUME InTime  PROVE InTimeServed
  BY DEF InTimeServed, InTime
<1>1. pc # "closeEarly" /\ (pc = "close" => i = 4) /\ op \in {"post", "poll"}
  BY DEF ReadInv, HeaderInv, Reading, PlaceInv, AtType
<1>2. ASSUME pc = "close", op = "post"
      PROVE  /\ res = OK
             /\ FewEntries /\ TextsFit =>
                  /\ elsewhere = {}
                  /\ \A p \in Mine : stored[p] = [text |-> Said(p[1], p[2]), done |-> TRUE]
  <2>1. InBody
    BY <1>1, <1>2 DEF InBody
  <2>2. ParseInv /\ StoredInv
    BY <1>2, <2>1, BodyInv
  <2>3. at.part = "end" /\ res = OK /\ ~astray
    BY <1>2, <2>2 DEF ParseInv
  <2>6. FewEntries /\ TextsFit => Traced /\ elsewhere = {}
    BY <2>2, <2>3 DEF StoredInv, Traced
  <2>4. AnswerOK /\ PlaceOK /\ Len(reply) \in Nat /\ size = Len(reply)
    BY <1>2, <2>1, BodyFacts DEF AnswerOK
  <2>5. ASSUME FewEntries, TextsFit, NEW p \in Mine
        PROVE  stored[p] = [text |-> Said(p[1], p[2]), done |-> TRUE]
    <3>1. p = <<p[1], p[2]>> /\ p[1] \in 1 .. Len(reply) /\ p[2] \in Saved
      BY <2>4, <2>5 DEF Mine
    <3>2. reply[p[1]] \in Instances /\ reply[p[1]] \in Seq(SomeField)
      BY <1>1, <1>2, <2>4, <3>1, EntryFacts
    <3>3. \A m \in Saved : \E f \in DOMAIN reply[p[1]] : Member(reply[p[1]][f].tag) = m
      BY <3>2, InstancesAssumption, Zenon
    <3>4. PICK f \in DOMAIN reply[p[1]] : Member(reply[p[1]][f].tag) = p[2]
      BY <3>1, <3>3, Zenon
    <3>5. f \in 1 .. Len(reply[p[1]]) /\ Len(reply[p[1]]) \in Nat
      BY <3>2, <3>4, LenProperties
    <3>6. at.k = Len(reply) /\ at.f = Len(reply[at.k])
      BY <2>3, <2>4, <3>1 DEF PlaceOK
    <3>7. Past(p[1], f)
      BY <2>3, <2>4, <3>1, <3>5, <3>6 DEF Past
    <3>8. stored[p] = Whole(reply[p[1]][f].text)
      BY <2>2, <2>5, <2>6, <3>1, <3>4, <3>5, <3>7 DEF StoredInv
    <3>9. Said(p[1], p[2]) = reply[p[1]][f].text
      BY <2>1, <3>1, <3>4, <3>5, SaidIs
    <3> QED BY <3>8, <3>9 DEF Whole
  <2> QED BY <2>3, <2>5, <2>6
<1>3. ASSUME pc = "close", op = "poll"
      PROVE  res = OK /\ output = [text |-> reply[1][2].text, done |-> TRUE]
  <2>1. PollInv
    BY <1>1, <1>3 DEF ReadInv
  <2> QED BY <1>3, <2>1 DEF PollInv, Whole
<1> QED BY <1>1, <1>2, <1>3 DEF InTimeServed

----------------------------------------------------------------------------
(* The theorems.                                                           *)

IInv == CallInv /\ ReadInv

(* All of it is inductive. *)
LEMMA AllInv == Spec => []IInv
<1>1. Init => IInv
  BY InitInv, FreshRead DEF Init, IInv
<1>2. IInv /\ [Next]_vars => IInv'
  <2>1. CallInv => ParserInv /\ s \in Int
    BY DEF CallInv, SocketInv, NOT_FOUND, NOT_CONNECTED
  <2> QED BY <2>1, StepInv, StepRead DEF IInv
<1> QED BY <1>1, <1>2, PTL DEF Spec

(* Between two calls of sp_sense_send or sp_sense_poll no socket is open:   *)
(* for every size of txbuf, number of entries and answer of the server, and *)
(* whatever fails or is late, what sp_connect opened is closed once.        *)
THEOREM NoneIsLeft == Spec => []NoSocketLeft
<1>1. CallInv => NoSocketLeft
  BY DEF CallInv, SocketInv, Before, NoSocketLeft
<1> QED BY <1>1, InitInv, StepInv, PTL DEF Spec

(* The client reads at a place where an answer can be read, takes nothing  *)
(* else for the end of the headers, and its parsers are where the answer   *)
(* is, in the same entry, field and character, wherever else they were     *)
(* late, until a late character has ended a tag.                           *)
THEOREM AnswerFollowed == Spec => []ReadInv
BY AllInv, PTL DEF IInv

(* However late the answer is in whichever places: where a char can count  *)
(* the entries, nothing is written outside the caller's array; and as long *)
(* as no tag was ended by a late character and the texts have room, what   *)
(* is stored is what the server has said for that member of that entry,    *)
(* or the beginning of it, and a value that is ended is whole.  A poll     *)
(* gives the value.                                                        *)
THEOREM WhatCame == Spec => []OnlyWhatCame
<1>1. IInv => OnlyWhatCame
  BY ReadOnlyWhatCame DEF IInv, CallInv, SocketInv, NOT_FOUND, NOT_CONNECTED
<1> QED BY <1>1, AllInv, PTL

(* For every feed id, value and answer: a request that reaches the server  *)
(* and is answered in time succeeds, and leaves the whole answer with the  *)
(* caller, if a char can count the entries and the texts have room.        *)
THEOREM Served == Spec => []InTimeServed
<1>1. IInv => InTimeServed
  BY ReadInTimeServed DEF IInv, CallInv, SocketInv, NOT_FOUND, NOT_CONNECTED
<1> QED BY <1>1, AllInv, PTL

=============================================================================
