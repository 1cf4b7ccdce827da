---------------------------- MODULE MCExtraction ----------------------------
EXTENDS Extraction
\* A recorded subband that is wanted for two channels.
Map == <<1, 1>>
=============================================================================
