------------------------------ MODULE MCClient ------------------------------
(* The client with the tags of Open.Sen.se and answers that are hard to    *)
(* read: values in quotes and bare, empty ones, colons and commas in       *)
(* values, tags in any order, and a text that has no room.                 *)
EXTENDS ClientInvariant

MCCode ==
  [a |-> 97, d |-> 100, e |-> 101, f |-> 102, g |-> 103, i |-> 105, m |-> 109,
   t |-> 116, u |-> 117, x |-> 120, one |-> 49, under |-> 95,
   Q |-> 34, CR |-> 13, LF |-> 10, COMMA |-> 44, BEGIN |-> 123, END |-> 125]
  @@ ("[" :> 91) @@ ("]" :> 93) @@ (":" :> 58)

timetag == <<"t", "i", "m", "e", "t", "a", "g">>
id      == <<"i", "d">>
feed_id == <<"f", "e", "e", "d", "under">> \o id

F(tag, text, quoted) == [tag |-> tag, text |-> text, quoted |-> quoted]

(* timetag has room for three characters and the 0, id for two. *)
MCRoom == [timetag |-> 4, id |-> 3]

MCInstances ==
  { <<F(timetag, <<"one", ":", "t">>, TRUE), F(id, <<>>, TRUE)>>,
    <<F(id, <<":", "x">>, TRUE), F(feed_id, <<"one", "x">>, FALSE),
      F(timetag, <<"d">>, TRUE), F(<<"u">>, <<>>, TRUE)>>,
    <<F(id, <<"one", "x", "one">>, TRUE), F(timetag, <<>>, TRUE)>> }

MCPolled ==
  { <<F(id, <<>>, TRUE), F(id, <<>>, TRUE)>>,
    <<F(id, <<"COMMA", "[">>, TRUE), F(<<"u">>, <<"one", "COMMA", "]">>, TRUE),
      F(timetag, <<>>, FALSE)>> }

(* The sizes of the structure, and a short answer. *)
FullRoom == [timetag |-> 32, id |-> 16]
MCInstance == { <<F(timetag, <<"one">>, TRUE), F(id, <<"x">>, TRUE)>> }
=============================================================================
