----------------------------- MODULE MCEndpoint -----------------------------
(* URLs of the form of the README on a small instance: see the cfg files.  *)
EXTENDS Endpoint

MCLiterals == {"192.168.0.7", "192.168.0.10"}
MCNames == {"localhost"}
MCPorts == {"4200", "4201", "70000"}
MCValue == [w \in MCPorts \cup {"0"} |->
              CASE w = "4200" -> 4200 [] w = "4201" -> 4201 [] w = "70000" -> 70000 [] w = "0" -> 0]
MCLowerCase == [w \in {"UDP"} |-> "udp"]
=============================================================================
