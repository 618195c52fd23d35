------------------------------- MODULE MCProxy ------------------------------
EXTENDS Proxy
=============================================================================
