---------------------------- MODULE MCTransport ----------------------------
(* What the peers of Transport say: one that is alone, in chunks cut         *)
(* anywhere, or two of which one pings and one is silent.                   *)
EXTENDS Transport
CONSTANTS a, b

F(op, fin, len) == [op |-> op, fin |-> fin, len |-> len, head |-> ShortHeader, utf8 |-> TRUE]
Long(op, len) == [F(op, TRUE, len) EXCEPT !.head = ShortHeader + 1]
Alone ==
  { <<F("text", FALSE, 1), F("ping", TRUE, 1), F("more", TRUE, 2)>>,
    <<F("text", FALSE, 0), F("binary", TRUE, 1)>>,
    <<Long("ping", 2), F("binary", FALSE, 0), F("text", TRUE, 0)>>,
    <<F("close", TRUE, 0), F("text", TRUE, 0)>>,
    <<[F("text", TRUE, 1) EXCEPT !.utf8 = FALSE]>> }
Together == a :> <<F("ping", TRUE, 0)>> @@ b :> <<>>
TwoSocks == {a, b}
MCScripts == {a :> said : said \in Alone} \cup {Together}
=============================================================================
