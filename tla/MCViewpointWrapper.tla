------------------------ MODULE MCViewpointWrapper ------------------------
EXTENDS ViewpointWrapper

CONSTANTS a, b, c
MCScene == <<a, b, c>>
=============================================================================
