---------------------------- MODULE MCLifecycle ----------------------------
EXTENDS Lifecycle, TLC

CONSTANTS main, worker

IoSymmetry == Permutations({main, worker})

\* Every choice of parts to do without, ...
PartLines ==
    {a \o b \o c \o d :
        a \in {<<>>, <<<<"diameterPort", 65536>>>>},
        b \in {<<>>, <<<<"h2agentPort", 0>>>>},
        c \in {<<>>, <<<<"http2ServerPort", 0>>>>},
        d \in {<<>>, <<<<"disable-metrics", "">>>>}}

\* ... and up to three options about the client, in any order.
ClientOptions ==
    {<<"diameterPeerHost", "peer">>, <<"diameterConnections", 0>>,
     <<"diameterConnections", 2>>, <<"diameterClientTransport", <<"sctp", "SCTP">>>>,
     <<"diameterClientTransport", <<"tcp", "tcp">>>>,
     <<"diameterClientTransport", <<"udp", "udp">>>>,
     <<"diameterServerTransport", <<"sctp", "sctp">>>>, <<"help", "">>}

Lines == {p \o c : p \in PartLines, c \in UNION {[1..n -> ClientOptions] : n \in 0..3}}
=============================================================================
