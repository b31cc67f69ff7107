---------------------------- MODULE MCSourceSync ----------------------------
EXTENDS SourceSync
CONSTANT a
=============================================================================
