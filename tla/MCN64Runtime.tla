----------------------------- MODULE MCN64Runtime -----------------------------
EXTENDS N64Runtime

\* Slots with and without a clock, with and without a working copy; two working copies.
SomeCarts == {<<"direct", "mbc3">>, <<"mbc3", "none">>, <<"long", "long">>}
=============================================================================
