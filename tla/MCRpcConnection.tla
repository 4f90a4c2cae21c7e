--------------------------- MODULE MCRpcConnection ---------------------------
EXTENDS RpcConnection, TLC

CONSTANTS s1, a1, h1, b1, u1
MCKind == (s1 :> "sync") @@ (a1 :> "async") @@ (h1 :> "heartbeat") @@ (b1 :> "bad")
            @@ (u1 :> "subscribe")
==============================================================================
