--------------------- MODULE MCDoubleBufferingPipeline ---------------------
EXTENDS DoubleBufferingPipeline

CONSTANTS u1, u2, u3

MCUnits == {u1, u2, u3}

=============================================================================
