------------------------ MODULE MCDocumentLifecycle ------------------------
EXTENDS DocumentLifecycle
=============================================================================
