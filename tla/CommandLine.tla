---------------------------- MODULE CommandLine ----------------------------
(***************************************************************************)
(* What the command line makes of GatewayConfig: the parts of the gateway  *)
(* that it asks for, and the connections of the Diameter client. Options   *)
(* that decide neither (identities, files, hosts, timers) are left out.    *)
(***************************************************************************)
EXTENDS Integers, Sequences

CONSTANT CommandLines   \* sequences of options, each a name and a value

\* The host is only empty or not.
Default == [diameterPort |-> 3868, h2agentPort |-> 8000, http2ServerPort |-> 8080,
            diameterPeerHost |-> FALSE, metricsEnabled |-> TRUE,
            diameterClientTransport |-> "tcp", diameterServerTransport |-> "tcp",
            diameterConnections |-> 1]

\* Ports are std::stoi assigned to an uint16_t: 65536 is 0, and so no port.
Port(number) == number % 65536

\* A text is its lower-case form and how it was typed.
NormalizeTransport(text) == text[1]

\* The options, by what their values are.
Ports == {"diameterPort", "h2agentPort", "http2ServerPort"}
Transports == {"diameterClientTransport", "diameterServerTransport"}

\* The later of two options wins.
Apply(config, option) ==
    LET name == option[1]
        value == option[2]
    IN  CASE name \in Ports -> [config EXCEPT ![name] = Port(value)]
          [] name \in Transports -> [config EXCEPT ![name] = NormalizeTransport(value)]
          [] name = "diameterPeerHost" -> [config EXCEPT !.diameterPeerHost = value # ""]
          [] name = "diameterConnections" -> [config EXCEPT !.diameterConnections = value]
          [] name = "disable-metrics" -> [config EXCEPT !.metricsEnabled = FALSE]
          [] OTHER -> config

\* The program goes on after this option: it is none of --help, --version and
\* an unknown one (or one whose number is none, which std::stoi throws for),
\* and a transport is one of the two.
Understood(option) ==
    /\ option[1] \notin {"help", "version", "unknown"}
    /\ option[1] \in Transports => NormalizeTransport(option[2]) \in {"tcp", "sctp"}

Parsed(line) ==
    LET upTo[i \in 0..Len(line)] ==
            IF i = 0 THEN Default ELSE Apply(upTo[i - 1], line[i])
    IN  upTo[Len(line)]

\* validateDiameterConnections, asked of a gateway with an outbound client.
Valid(config) ==
    config.diameterPeerHost =>
        /\ config.diameterConnections \in Nat \ {0}
        /\ config.diameterConnections > 1 => config.diameterClientTransport # "sctp"

\* Mutated, for SctpPoolIsSingle: the connections are validated where the
\* option is met, with the transport known so far.
AcceptedAsParsed(line) ==
    /\ \A i \in 1..Len(line) : Understood(line[i])
    /\ \A i \in 1..Len(line) :
           line[i][1] = "diameterConnections" => Valid(Parsed(SubSeq(line, 1, i)))

Accepted(line) ==
    /\ \A i \in 1..Len(line) : Understood(line[i])
    /\ Valid(Parsed(line))

\* What the gateway is made with.
Configurations == {Parsed(line) : line \in {l \in CommandLines : Accepted(l)}}

\* The parts start() makes for a configuration.
Wants(config) ==
    [metrics |-> config.metricsEnabled,
     serverLeg |-> config.diameterPort > 0,
     pool |-> config.diameterPeerHost,
     h2client |-> config.h2agentPort > 0,
     h2server |-> config.http2ServerPort > 0]
=============================================================================
