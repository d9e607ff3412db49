---------------------------- MODULE MCRunReaders ----------------------------
EXTENDS RunReaders

MCRecorders == <<"bag", "trace">>
=============================================================================
