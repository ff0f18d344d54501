------------------------------- MODULE MCStartup -------------------------------
(***************************************************************************)
(* What happens before the first query, each part on its own: the          *)
(* handshake, the factorization in it, the database, and signing in        *)
(* (Connect).  A behaviour is one of one part.                             *)
(***************************************************************************)
EXTENDS Connect, Factor, KeyExchange, Store

CONSTANTS
    q1, q2, other,       \* threads; the first two ask the queue manager
    k1,                  \* a peer
    d1, d2               \* data centres

VARIABLE part            \* which part the behaviour is about

MCInputs == {1, 15, 75, 961, 993, 1009, 1147, 1285, 2047, 3277, 4033, 4681, 5777, 10877,
             32767, 29791, 42439}

\* The first account lives at another data centre than SERVER_IP.
MCHome == <<d2, d1>>
MCGuard == [c \in Clients |-> IF c = other THEN "send_query" ELSE "queuem"]

ASSUME StartupAssumption ==
    /\ KeyExchangeAssumption /\ FactorAssumption /\ TestsDecide
    /\ StoreAssumption /\ ConnectAssumption

---------------------------------------------------------------------------
\* The parts that a behaviour is not about stay as they are at first.
startupVars == <<part, exchangeVars, factorVars, storeVars, connectVars>>

StartupInit ==
    /\ part \in {"exchange", "factor", "store", "connect"}
    /\ ExchangeInit
    /\ FactorInit /\ (part # "factor" => pq = 1)
    /\ StoreInit /\ (part # "store" => kind = "ip")
    /\ ConnectInit

StartupNext ==
    /\ UNCHANGED part
    /\ \/ /\ part = "exchange" /\ ExchangeNext
          /\ UNCHANGED <<factorVars, storeVars, connectVars>>
       \/ /\ part = "factor" /\ FactorNext
          /\ UNCHANGED <<exchangeVars, storeVars, connectVars>>
       \/ /\ part = "store" /\ StoreNext
          /\ UNCHANGED <<exchangeVars, factorVars, connectVars>>
       \/ /\ part = "connect" /\ ConnectNext
          /\ UNCHANGED <<exchangeVars, factorVars, storeVars>>

StartupSpec == StartupInit /\ [][StartupNext]_startupVars

=============================================================================
