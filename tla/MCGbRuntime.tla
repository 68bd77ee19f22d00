----------------------------- MODULE MCGbRuntime -----------------------------
(* The GB Runtime's process, in two of its modes, of which a behaviour is   *)
(* one: the server of two slots and their clients (GbServer), and the game  *)
(* with the mobile adapter, with the session it belongs to (Mobile).        *)
EXTENDS GbServer, Mobile, TLC

VARIABLE part

NoMacro == <<<<>>, <<>>>>
Game(mode, display, auth, autoA, macro, speed, frames) ==
    [mode |-> mode, remote |-> mode \notin {"self", "lan"}, display |-> display, auth |-> auth,
     autoA |-> autoA, macro |-> macro, speed |-> speed, frames |-> frames]

MCRequested ==
    {Game("self", TRUE, FALSE, 0, NoMacro, 2, 3),
     Game("lan", FALSE, FALSE, 0, NoMacro, 1, 3),
     Game("pair", FALSE, FALSE, 0, <<<<"A", ".">>, <<>>>>, 1, 2),
     Game("dual", FALSE, FALSE, 0, NoMacro, 1, 1),
     Game("server", TRUE, TRUE, 0, NoMacro, 1, 1),
     Game("server", FALSE, FALSE, 1, NoMacro, 1, 2)}

\* Automatic presses in a lone game at twice the speed: the frame they end at is passed over.
AutoRequested == {Game("self", TRUE, FALSE, 1, NoMacro, 2, 3)}

\* One header and bodies of at most two characters.
One == <<1>>
Two == <<1, 2>>
Other == <<2>>

Request(h, b) == [line |-> "post", header |-> [user |-> h], body |-> b]

SomeRequests ==
    {Request(h, <<>>) : h \in {NoHeader, One, Two, Other}}
    \cup {Request(NoHeader, b) : b \in {One, Two, Other}}
    \cup {Request(One, One)}

\* A route that tells requests apart by their header, by their body, or by the state.
Route(header, body) ==
    [line |-> "post", needs |-> [on |-> {}, off |-> Flags], sets |-> [on |-> {}, off |-> {}],
     header |-> [user |-> header], body |-> body, uses |-> 1, replay |-> FALSE, limit |-> 2]

Headers(hs) == [i \in DOMAIN hs |-> Route(hs[i], AnyBody)]

HeaderRoutes ==
    Headers(<<Header("present", <<>>, 1), Header("exact", Two, 2), Header("prefix", One, 2),
              Header("prefix", Two, 2), Header("sha", One, 2)>>)
AbsentOrPresent == Headers(<<Header("absent", <<>>, 0), Header("present", <<>>, 1)>>)

BodyRoutes ==
    LET bs == <<Body(2, 2, Unset, {}), Body(1, 2, One, {}),
                Body(0, 2, Unset, {[offset |-> 0, data |-> One]}),
                Body(1, 2, Unset, {[offset |-> 1, data |-> Other]}),
                Body(0, 2, Unset, {[offset |-> 0, data |-> Other]})>>
    IN  [i \in DOMAIN bs |-> Route(NoPredicate, bs[i])]

PairsOf(routes) ==
    UNION {{<<routes[i], routes[j]>> : j \in (i + 1)..Len(routes)} : i \in DOMAIN routes}

\* A scenario: a login that may be repeated with its body, then one download.
Login(body, replay) ==
    [Route(NoPredicate, body) EXCEPT !.sets.on = Flags, !.uses = 2, !.replay = replay]
Again(body, replay) ==
    [Route(NoPredicate, body) EXCEPT !.uses = 3, !.replay = replay]
Download(header, replay) ==
    [Route(header, Body(0, 2, Unset, {})) EXCEPT !.needs = [on |-> Flags, off |-> {}],
        !.uses = 2, !.replay = replay]

SomePackages ==
    {AbsentOrPresent} \cup PairsOf(HeaderRoutes) \cup PairsOf(BodyRoutes)
    \cup {<<Again(Body(1, 2, Unset, {}), TRUE)>>,
          <<Login(Body(1, 1, Unset, {}), FALSE), Download(Header("prefix", One, 2), TRUE)>>,
          <<Login(Body(0, 1, Unset, {}), TRUE), Download(NoPredicate, FALSE)>>}
\* For the questions that are not about the routes.
OnePackage == {<<Again(Body(1, 2, Unset, {}), TRUE)>>}
OneRequest == {Request(NoHeader, One)}

MCInit ==
    /\ part \in {"server", "mobile"}
    /\ Init /\ MobileInit
    /\ part = "mobile" =>
         /\ opt = Adjusted(CHOOSE o \in Requested : OptionsAccepted(o))
         /\ \A s \in Slots : file[s].kind = "absent"

Serving == part = "server" /\ Next /\ UNCHANGED <<mobileVars, part>>
Adapting == part = "mobile" /\ MobileNext /\ UNCHANGED <<vars, part>>

MCSpec == MCInit /\ [][Serving \/ Adapting]_<<vars, mobileVars, part>>
=============================================================================
