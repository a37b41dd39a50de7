---- MODULE MCNodeMedia ----
EXTENDS NodeMedia
SampleConfigs ==
    {[enabled |-> TRUE,  mode |-> "server", hidden |-> {}],
     [enabled |-> TRUE,  mode |-> "server", hidden |-> Streams],
     [enabled |-> TRUE,  mode |-> "web",    hidden |-> {}]}
OneSource == [r \in Relays |-> CHOOSE s \in Streams : TRUE]
====
