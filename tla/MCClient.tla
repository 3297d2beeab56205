------------------------------ MODULE MCClient ------------------------------
EXTENDS Client

Is(wallet, deployed, binding, readSource, sessions) ==
  [wallet |-> wallet, deployed |-> deployed, binding |-> binding,
   readSource |-> readSource, sessions |-> sessions]

MCPage == {Is("silent", TRUE, "asks", "none", 3),
           Is("reports", TRUE, "asks", "none", 1),
           Is("silent", TRUE, "own", "valid", 0),
           Is("silent", TRUE, "send", "invalid", 0),
           Is("silent", TRUE, "neither", "none", 0),
           Is("none", TRUE, "asks", "invalid", 0),
           Is("reports", TRUE, "placeholder", "none", 0),
           Is("none", FALSE, "asks", "none", 0)}
=============================================================================
