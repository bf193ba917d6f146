---------------------------- MODULE MCMqttUplink ----------------------------
(* Small instances of MqttUplink for TLC.                                  *)
EXTENDS MqttUplink

\* Firmware that wants its commands signed and, once it has a key, signs what
\* it publishes; and the firmware before it.
Agent == [cmd |-> TRUE, sigCmd |-> TRUE, signs |-> {"meas", "status"}]
Plain == [cmd |-> TRUE, sigCmd |-> FALSE, signs |-> {}]
BothFirmwares == {Agent, Plain}
=============================================================================
