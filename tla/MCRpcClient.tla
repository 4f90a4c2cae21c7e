----------------------------- MODULE MCRpcClient -----------------------------
EXTENDS RpcClient, TLC
===============================================================================
