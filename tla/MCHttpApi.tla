----------------------------- MODULE MCHttpApi ------------------------------
\* Two requests of the HTTP API.
EXTENDS HttpApi
=============================================================================
