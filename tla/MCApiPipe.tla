------------------------------ MODULE MCApiPipe ------------------------------
EXTENDS ApiPipe

MCLength == <<2, 1, 3, 1>>
MCKind == <<"dump", "act", "message", "tunnel">>
=============================================================================
