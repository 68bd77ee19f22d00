---------------------------- MODULE MCPlayerSide ----------------------------
(* What is nearest to the player, in four parts that share no state: a      *)
(* behaviour is of one of them, and the others stay where they begin.       *)
(*   cable: the cable of the two cores of a Host, with bytes of two bits,   *)
(*          frames of two cycles and a clock whose units are two (GbLink);  *)
(*   pads:  the pads of the two players of a game (HostPads);               *)
(*   login: the client's config files and the remembered login              *)
(*          (ClientConfig);                                                 *)
(*   keys:  the key editor, which saves to them (KeyConfig).                *)
EXTENDS GbLink, HostPads, KeyConfig, TLC

VARIABLE part

Owners == [host |-> {"a", "b", "c"}, remote |-> {"a"}]
Makes == [p \in Pads |-> IF p = "c" THEN 2 ELSE 1]
Layout == [LEFT |-> [by |-> "axis", id |-> <<1, 0>>, push |-> -1],
           A    |-> [by |-> "key", id |-> NoId, push |-> 0]]

\* The keys: q, at a place that has no name; a key without a name, at the place of a;
\* Escape; the keypad's Enter; and its comma, of whose name a layout keeps the word before.
\* The text of a key is the number of its code, that of a place the one of the key that is
\* usually there.
KeysPressed == {[sym |-> 113, scan |-> 150], [sym |-> 200, scan |-> 4], [sym |-> 27, scan |-> 41],
                [sym |-> 88, scan |-> 89], [sym |-> 133, scan |-> 99]}
KeyTexts == [k \in {13, 27, 88, 97, 100, 102, 113, 120, 122, 133} |-> k]
PlaceTexts == 4 :> 97 @@ 6 :> 100 @@ 20 :> 113 @@ 29 :> 122 @@ 27 :> 120 @@ 41 :> 27
              @@ 89 :> 88 @@ 99 :> 133
CommaTexts == 133 :> <<134>>

\* Layouts of two buttons: z and x, d and q.
Key(text) == [dev |-> "", kind |-> 0, control |-> text]
NoKeysYet == [slot1 |-> <<>>, slot2 |-> <<>>, n64 |-> <<<<>>, <<>>>>,
              utils |-> <<Key(-1), Key(-1)>>, aliases |-> <<Key(-1)>>]
FirstLayouts == [slot1 |-> <<Key(122), Key(120)>>, slot2 |-> <<Key(100), Key(113)>>,
                 n64 |-> <<<<Key(122), Key(120)>>, <<>>>>,
                 utils |-> <<Key(102), Key(27)>>, aliases |-> <<Key(-1)>>]
\* In a file of before, Enter has an alias: the axis of the first pad, pushed up.
PadEnters == [NoKeysYet EXCEPT !.aliases = <<[dev |-> "p", kind |-> AxisPos, control |-> 0]>>]
GbAsked == <<"A", "RIGHT">>
GbRead == <<"RIGHT", "A">>
N64Asked == <<"A BUTTON", "B BUTTON">>
N64Read == <<"B BUTTON", "A BUTTON">>
UtilKeys == <<"FAST", "ESCAPE">>
AliasKeys == <<"ENTER">>
AxisPlaces == {-2, 1, 2}

MCInit ==
    /\ part \in {"cable", "pads", "login", "keys"}
    /\ Init /\ PadsInit /\ ConfigInit /\ KeysInit
    /\ part # "pads" => win.role = "host"
    /\ part # "cable" => kind = "engine"
    /\ part \in {"cable", "pads"} => cfg["user"] = Missing

Cable == part = "cable" /\ Next /\ UNCHANGED <<padVars, configVars, keyVars, part>>
PadsMove == part = "pads" /\ PadsNext /\ UNCHANGED <<vars, configVars, keyVars, part>>
Login == part = "login" /\ LoginNext /\ UNCHANGED <<vars, padVars, keyVars, part>>
Editor == part = "keys" /\ KeysNext /\ UNCHANGED <<vars, padVars, part>>

MCSpec ==
    /\ MCInit
    /\ [][Cable \/ PadsMove \/ Login \/ Editor]_<<vars, padVars, configVars, keyVars, part>>
    /\ WF_vars(FrameStep)
=============================================================================
