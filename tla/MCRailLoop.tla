----------------------------- MODULE MCRailLoop -----------------------------
(* RailLoop with two clients, who build and then have the build verified.    *)
EXTENDS RailLoop

CONSTANTS c1, c2

Own(c) == IF c = c1 THEN 1 ELSE 2

\* Both begin with packets of their own, c2's also under the id of c1's.
Begin(c, id) ==
    Packet(id, "research", "implement", IF c = c1 THEN "spec" ELSE "report", {"code-agent"}, FALSE)

FirstPackets == {[c \in Clients |-> Begin(c, Own(c))], [c \in Clients |-> Begin(c, 1)]}

Verification(id, where) == [id |-> id, kind |-> "verify", inputs |-> "artifact", targets |-> {where}]

\* What may be proposed: a verification, by c1 somewhere the router does not send it.
Proposals ==
    [c \in Clients |-> {IF c = c1 THEN Verification(3, "elsewhere") ELSE Verification(4, "qa-agent")}]

\* The child may name the id of c1's first packet.
Named == {Verification(1, "qa-agent")}

\* c1's question does not fit into the child's stdin.
LongOnes == Proposals[c1]

Routes == [implement |-> "code-agent", verify |-> "qa-agent"]
=============================================================================
