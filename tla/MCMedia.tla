------------------------------ MODULE MCMedia ------------------------------
\* Model checking of Media: games that stress the picture, the sound and the notices in turn.
EXTENDS Media

Game(path, codec, gop, frames, audio, pongs, cuts) ==
    [path |-> path, codec |-> codec, gop |-> gop, frames |-> frames, audio |-> audio,
     pongs |-> pongs, cuts |-> cuts]

SomeGames ==
    {Game("gb", "mediafoundation", 3, 3, 0, 0, 0),
     Game("gb", "videotoolbox", 2, 2, 0, 0, 1), Game("gb", "openh264", 2, 1, 1, 1, 1),
     Game("gb", "openh264", 2, 0, 4, 0, 0), Game("n64", "mediafoundation", 3, 3, 1, 0, 0),
     Game("n64", "videotoolbox", 2, 2, 1, 0, 1), Game("n64", "openh264", 2, 2, 1, 0, 0)}

\* One small game, to show a repeated message.
OneGame == {Game("gb", "openh264", 2, 2, 0, 0, 0)}
=============================================================================
