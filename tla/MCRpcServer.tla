------------------------------ MODULE MCRpcServer ------------------------------
EXTENDS RpcServer, TLC

CONSTANTS n1, n2, t1
\* n1 has the token t1; n2 has none, and t1 occurs in its key.
MCTokenOf == (n1 :> t1) @@ (n2 :> NoToken)
MCWithin  == (n1 :> {t1}) @@ (n2 :> {t1})
===============================================================================
