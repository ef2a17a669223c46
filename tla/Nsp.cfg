CONSTANTS
    Modulus = 16
    QMax = 2
    Retransmits = 1
    Confs <- Situations
    MaxConns = 2
    AddrMod = 12
    MaxNet = 2
SPECIFICATION Spec
INVARIANTS LinksMatch Delivery NeverStuck EndTold
PROPERTY CreditRespected
\* The calls and messages are bounded in number: the system may come to rest.
CHECK_DEADLOCK FALSE
