----------------------------- MODULE MCSettings -----------------------------
(* Instances of Settings for TLC: four ports, of which 1 stands for HTTP.     *)
EXTENDS Settings
PortRange(type, start, end) == [type |-> type, start |-> start, end |-> end]
\* A range that meets HTTP and one that ends before it starts; a range that ends at the
\* last port.
MCProfiles == {{PortRange("both", 1, 2), PortRange("source", 3, 2)},
               {PortRange("destination", 3, 3)}}
MCHttpPorts == {1}
=============================================================================
