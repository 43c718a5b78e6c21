-------------------------------- MODULE MCBsi --------------------------------
\* An instance of Bsi for TLC: an index without a range and one with.
EXTENDS Bsi

MCRanges == {<<0, 0>>, <<3, -4>>}
=============================================================================
