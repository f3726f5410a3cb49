---------------------------- MODULE MCXsmpServer ----------------------------
EXTENDS XsmpServer

SomeSocketLists == { <<"tcp", "unix", "local">>, <<"local">> }
=============================================================================
