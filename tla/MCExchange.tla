------------------------------ MODULE MCExchange ------------------------------
(* One login with text that needs quoting and bytes at the edges of the      *)
(* obfuscation (45 is the first byte of its table).                          *)
EXTENDS SnxExchange

MCLogins == {[option |-> <<"vpn", "-", "a", "(", "b", ")">>,
              username |-> <<45, 79>>, password |-> <<45, 127, 1, 73, 45>>]}
===============================================================================
