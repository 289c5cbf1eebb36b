---------------------------- MODULE MCValkeyClient ----------------------------
(* Instances of ValkeyClient for TLC.                                      *)
EXTENDS ValkeyClient

Default == [reconnect |-> TRUE, offline |-> TRUE, pipeline |-> TRUE, host |-> TRUE]

\* The default client, and one more for each option, with the option turned off.
EachOption == {Default} \cup {[Default EXCEPT ![o] = FALSE] : o \in DOMAIN Default}
Defaults   == {Default}
=============================================================================
